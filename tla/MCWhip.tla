------------------------------- MODULE MCWhip -------------------------------
(* Instances of Whip for TLC: a publish and the one that follows it.       *)
EXTENDS Whip

CONSTANT api

MCCaller   == {api}
AllKinds   == {"persistent", "guest"}
Persistent == {"persistent"}
=============================================================================
