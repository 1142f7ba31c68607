---------------------------- MODULE MCSimulator ----------------------------
(* Instances of Simulator for TLC. *)
EXTENDS Simulator, TLC

MCOrder == <<"node1", "node2">>

\* Interval 600 s, as the demo sends it.
MCCommands == {<<1, 88, 2>>}

NonceSymmetry == Permutations(Nonces)
=============================================================================
