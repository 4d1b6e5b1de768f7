-------------------------- MODULE MCProgramRouter --------------------------
(* An instance of ProgramRouter for TLC: two sources. *)
EXTENDS ProgramRouter

CONSTANTS cam, backup

MCSource     == {cam, backup}
MCRoutings   == {None, backup}
VideoRouting == {}
=============================================================================
