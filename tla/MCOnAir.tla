------------------------------ MODULE MCOnAir ------------------------------
(* Instances of OnAir for TLC: two requests and two broadcasts at a time. *)
EXTENDS OnAir

CONSTANTS c1, c2, t1, t2, s1, s2

OneCall     == {c1}
TwoCalls    == {c1, c2}
OneTask     == {t1}
TwoTasks    == {t1, t2}
OneSchedule == {s1}
MCSchedules == {s1, s2}
AllKinds    == {"start", "stop", "output", "channel", "splice", "run", "stopSchedule"}
StopKinds   == {"stop", "run"}
NoKinds     == {}
AllEnds     == {"loop", "stop", "standby"}
Loops       == {"loop"}
=============================================================================
