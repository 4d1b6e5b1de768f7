---------------------------- MODULE MCFailover ----------------------------
(* Instances of Program, and so of Failover, for TLC.                        *)
EXTENDS Program

CONSTANTS cam, other, OfflineTicks, RecoveryTicks

Fallback(s) == [enabled |-> TRUE, fallback |-> s, offline |-> OfflineTicks,
                recovery |-> RecoveryTicks]

\* An ingest source and a file, each of which can be the other's fallback.
TheFile  == {other}
TheThree == {[Fallback(other) EXCEPT !.enabled = FALSE], Fallback(other), Fallback(cam)}

\* Two ingest sources, the second of which is the first one's fallback.
NoFile   == {}
TheSpare == {Fallback(other)}

Both == {cam, other}
=============================================================================
