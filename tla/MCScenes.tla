------------------------------ MODULE MCScenes ------------------------------
(* Instances of Scenes for TLC.                                            *)
EXTENDS Scenes

CONSTANTS cam, desk, wide, split, one, two

TwoSources == {cam, desk}
OneSource  == {cam}
TwoScenes  == {wide, split}
OneScene   == {wide}
TwoActors  == {one, two}
=============================================================================
