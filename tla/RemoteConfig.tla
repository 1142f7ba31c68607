---------------------------- MODULE RemoteConfig ----------------------------
(***************************************************************************)
(* What a node promises the server about its settings                      *)
(* (firmware/README.md, "Remote configuration"; firmware/core/aq_config.h) *)
(* without wakes, downlink bytes or flash records:                         *)
(*   - a running node's settings change only by a command, after which a   *)
(*     confirmation is owed until it is sent, heard or not, or a power cut; *)
(*   - a start takes the saved settings or the defaults;                   *)
(*   - what is saved only ever becomes the settings in use or the defaults.*)
(***************************************************************************)
CONSTANTS Settings,  \* the settings a node may run with
          Default,   \* the firmware's own
          Off        \* no settings: the node has no power or has not started

VARIABLES settings,  \* what the node runs with
          saved,     \* what it would run with after a power cut
          owed       \* a command was received and its confirmation not yet sent

vars == <<settings, saved, owed>>

Init == settings = Off /\ saved \in Settings /\ owed = FALSE

\* A boot; an unusable flash is erased, an unreadable one is left as it is.
Start ==
  /\ settings = Off
  /\ settings' \in {saved, Default}
  /\ saved' \in {saved, settings'}
  /\ UNCHANGED owed

\* A command was applied or rejected.
Obey ==
  /\ settings # Off
  /\ settings' \in Settings
  /\ owed' = TRUE
  /\ UNCHANGED saved

Confirm ==
  /\ owed
  /\ owed' = FALSE
  /\ UNCHANGED <<settings, saved>>

\* A save; one that fails may leave nothing.
Save ==
  /\ settings # Off
  /\ saved' \in {settings, Default}
  /\ UNCHANGED <<settings, owed>>

\* The power is cut, perhaps during a save.
Lose ==
  /\ settings # Off
  /\ settings' = Off
  /\ owed' = FALSE
  /\ saved' \in {saved, settings}

Next == Start \/ Obey \/ Confirm \/ Save \/ Lose

Spec == Init /\ [][Next]_vars
=============================================================================
