------------------------------- MODULE MCWake -------------------------------
(* Instances of Wake for TLC. *)
EXTENDS Wake

\* The defaults, and the largest negative offsets.
MCCalibrations == {DefaultConfig, [interval |-> 300, pm |-> -PmOffsetMax, temp |-> -TempOffsetMax]}
MCPlain == {DefaultConfig}

\* Within the wire's range after the offset, below it, and past it.
MCPmRaw   == {12, 6560}
MCTempRaw == {-1550, 2150}
=============================================================================
