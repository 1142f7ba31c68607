----------------------------- MODULE MCRegistry -----------------------------
(* Instances of Registry for TLC. *)
EXTENDS Registry

MCEnvironments == {[key |-> "none", prod |-> FALSE], [key |-> "dev-admin-key", prod |-> TRUE],
                   [key |-> "secret", prod |-> TRUE]}

\* One place typed in two ways.
MCNames == {[word |-> "mina", form |-> "plain"], [word |-> "mina", form |-> "spaced"]}

MCSeedPlace == [word |-> "mina", form |-> "plain"]

\* Either side of a border of the bands, and past the top of the scale.
MCParticles == [d \in Devices |-> IF d = "pole" THEN {<<4000, 100>>} ELSE {<<354, 100>>, <<355, 1559>>}]
=============================================================================
