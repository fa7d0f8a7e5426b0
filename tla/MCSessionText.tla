---------------------------- MODULE MCSessionText ----------------------------
(* Instance of SessionInput and ScreenSearch for TLC: characters of one, two *)
(* and three bytes in UTF-8, the last one absent from ISO-8859-1, and a      *)
(* charset that iconv does not know.                                         *)
EXTENDS ScreenSearch

CONSTANT MaxLength

MCCode == [s \in Known |-> [c \in Char |->
    CASE c = "cedilla" -> IF s = "UTF-8" THEN <<"C3", "A7">> ELSE <<"E7">>
      [] c = "euro" -> (CASE s = "UTF-8" -> <<"E2", "82", "AC">>
                          [] s = "CP1252" -> <<"80">>
                          [] OTHER -> <<>>)
      [] OTHER -> <<c>>]]

MCByte == (Char \ {"cedilla", "euro"}) \cup
          {"C2", "C3", "E2", "E7", "80", "82", "83", "A2", "A7", "AC"}

MCBytes == [c \in Char |-> [s \in Known |-> Len(MCCode[s][c])]]

\* UTF-8 of U+0080 to U+00FF.
MCReread == [b \in MCByte |->
    CASE b = "C2" -> <<"C3", "82">>
      [] b = "C3" -> <<"C3", "83">>
      [] b = "E2" -> <<"C3", "A2">>
      [] b = "E7" -> <<"C3", "A7">>
      [] b \in {"80", "82", "83", "A2", "A7", "AC"} -> <<"C2", b>>
      [] OTHER -> <<b>>]

MCTexts == BoundedSeq(Char, MaxLength)

MCSought == {<<>>, <<"E">>, <<"cedilla">>, <<"cedilla", "E">>, <<"E", "euro">>}

MCScreens ==
    {<<"E", "E", "E">>, <<"E", "cedilla", "E">>, <<"cedilla", "cedilla", "E">>,
     <<"cedilla", "cedilla", "cedilla">>, <<"E", "E", "euro">>, <<"E", "euro", "cedilla">>,
     <<"euro", "euro", "E">>}

MCLengths == {-1, 2}

\* For a smaller instance.
MCScreensOfLetters == [1..Cells -> Char]
MCSoughtLetters == BoundedSeq(Char, Cells)

-----------------------------------------------------------------------------
(* An application that sets its session up and types first, and searches     *)
(* then.  Typing leaves nothing behind that a search reads, and a session    *)
(* set up after a search is as if it had been set up before.                 *)

TextInit == SearchInit /\ screen = <<"E", "E", "E">>

Type ==
    /\ op = Idle
    /\ changes = 0
    /\ Next
    /\ UNCHANGED <<screen, changes, lastFind, op>>

Search == status = "idle" /\ ((op = Idle /\ Setup) \/ Operate)

TextNext == Type \/ Search

TextSpec == TextInit /\ [][TextNext]_searchVars
=============================================================================
