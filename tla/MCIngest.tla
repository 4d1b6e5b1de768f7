------------------------------ MODULE MCIngest ------------------------------
(* Instances of Ingest for TLC: two sessions or requests at a time.        *)
EXTENDS Ingest

CONSTANTS one, two

MCActors   == {one, two}
AllKinds   == {"rtmp", "file", "srt", "browser"}
Publishers == {"rtmp"}
=============================================================================
