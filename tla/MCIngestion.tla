---------------------------- MODULE MCIngestion -----------------------------
(***************************************************************************)
(* Instances of Ingestion for TLC.                                         *)
(***************************************************************************)
EXTENDS Ingestion

CONSTANTS d1, d2

Up(dev, kind) == [dev |-> dev, kind |-> kind]

\* Two reports of one node, whose order matters, between a rejected and a
\* complete reading.
MCUplinks == << Up(d1, "rejected"), Up(d1, "report"), Up(d1, "reading"), Up(d1, "report") >>

\* Readings of two nodes and an uplink on a port that is not telemetry.
MCReadings == << Up(d1, "reading"), Up(d2, "ignored"), Up(d2, "reading"), Up(d1, "reading") >>
=============================================================================
