------------------------------- MODULE MCHost -------------------------------
(* Instance of Host for TLC: a text with every sort of byte, a session     *)
(* with a converter and one without.                                       *)
EXTENDS Host

MCTexts == {<<"wide", "part", "lacking", "nul", "plain">>}

MCConverter == [h \in Hosts |-> IF h = "h1" THEN "open" ELSE "none"]

\* Two operations of one host and one of the other, which may share pw3270.
MCMaxCalls == [h \in Hosts |-> IF h = "h1" THEN 2 ELSE 1]
=============================================================================
