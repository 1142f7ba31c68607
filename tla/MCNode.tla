------------------------------- MODULE MCNode -------------------------------
(***************************************************************************)
(* Instances of Node for TLC.  The commands take every branch of           *)
(* aq_downlink_apply: each opcode applied, re-sending the default, below   *)
(* and above the range, a negative offset, an unknown opcode, a truncated  *)
(* command, and application data on another port.                          *)
(***************************************************************************)
EXTENDS Node

Config10(data) == [fport |-> DownlinkFPort, data |-> data]

MCDownlinks ==
  { Config10(<<1, 88, 2>>),      \* interval 600 s
    Config10(<<1, 44, 1>>),      \* interval 300 s, the default
    Config10(<<1, 119, 0>>),     \* interval 119 s: out of range
    Config10(<<2, 131, 255>>),   \* PM2.5 offset -12.5
    Config10(<<3, 24, 252>>),    \* temperature offset -10.00, the limit
    Config10(<<3, 23, 252>>),    \* -10.01: out of range
    Config10(<<9, 1, 0>>),       \* unknown opcode
    Config10(<<1, 88>>),         \* truncated
    [fport |-> 3, data |-> <<1, 88, 2>>] }  \* not the config port

\* A fresh partition, a record of a later firmware, a corrupt record and a
\* stored configuration.
MCFlash ==
  { <<>>,
    <<2, 88, 2, 0, 0, 0, 0>>,
    <<1, 255, 255, 0, 128, 0, 0>>,
    <<1, 88, 2, 131, 255, 0, 0>> }

\* A node fresh from the factory: flash holds nothing it did not save.
MCEmptyFlash == {<<>>}
=============================================================================
