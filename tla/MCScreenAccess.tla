--------------------------- MODULE MCScreenAccess ---------------------------
(* Instance of ScreenAccess for TLC: a screen of four positions, with no *)
(* field, one, or two, one of which may be empty.                        *)
EXTENDS ScreenAccess

MCLayouts == {{}, {0}, {0, 1}, {1, 3}}
=============================================================================
