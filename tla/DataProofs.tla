----------------------------- MODULE DataProofs -----------------------------
(***************************************************************************)
(* What happens to data: the text that input() types, for every set of     *)
(* characters, charsets and texts (SessionInput); the values that are      *)
(* popped from a response, for every width of integers and every response  *)
(* (ResponseValues); the texts that are looked for on a screen, for every  *)
(* coding of the characters (ScreenSearch).                                *)
(*                                                                         *)
(* All of it is induction over data, for which the library's theorems have *)
(* an operator as a parameter.  Here it goes by sets of numbers: a set of  *)
(* them has a smallest one, so one with 0 and with k for each k - 1 has    *)
(* all of them.                                                            *)
(***************************************************************************)
EXTENDS SessionInput, ResponseValues, ScreenSearch, SequenceTheorems, WellFoundedInduction, TLAPS

-----------------------------------------------------------------------------
(* Induction, and the functions defined by it.                             *)

\* Numbers have a smallest one.
LEMMA LeastExists ==
    ASSUME NEW S, S \subseteq Nat, S # {}
    PROVE  \E x \in S : \A y \in S : x <= y
<1>1. PICK x \in S : \A y \in S : ~ (<<y, x>> \in OpToRel(<, Nat))
  BY NatLessThanWellFounded, WFMin
<1>2. \A y \in S : x <= y
  <2> SUFFICES ASSUME NEW y \in S, y < x PROVE FALSE
    OBVIOUS
  <2>1. <<y, x>> \in OpToRel(<, Nat)
    BY DEF OpToRel
  <2> QED BY <1>1, <2>1
<1> QED BY <1>2

\* A set with 0 and with k for each k - 1 has all numbers.
LEMMA Induction ==
    ASSUME NEW n \in Nat, NEW P, 0 \in P, \A k \in 1..n : k - 1 \in P => k \in P
    PROVE  \A k \in 0..n : k \in P
<1> DEFINE Bad == (0..n) \ P
<1>1. SUFFICES ASSUME Bad # {} PROVE FALSE
  OBVIOUS
<1>2. PICK m \in Bad : \A y \in Bad : m <= y
  <2>1. Bad \subseteq Nat
    OBVIOUS
  <2> HIDE DEF Bad
  <2> QED BY <1>1, <2>1, LeastExists
<1>3. m \in 1..n /\ m - 1 \in 0..n
  BY <1>2
<1>4. m - 1 \in P
  BY <1>2, <1>3
<1> QED BY <1>2, <1>3, <1>4

\* f has values in V and goes by step from base on, up to m.
Follows(f, V, base, step, m) ==
    /\ f \in [0..m -> V]
    /\ f[0] = base
    /\ \A k \in 1..m : f[k] = step[k][f[k - 1]]

\* There is a function with a given first value and a given step from each value to
\* the next.
LEMMA RecursionExists ==
    ASSUME NEW V, NEW base \in V, NEW n \in Nat, NEW step \in [1..n -> [V -> V]]
    PROVE  \E f : Follows(f, V, base, step, n)
<1> DEFINE P == {m \in 0..n : \E f : Follows(f, V, base, step, m)}
<1>1. 0 \in P
  <2> DEFINE z == [k \in 0..0 |-> base]
  <2>1. Follows(z, V, base, step, 0)
    BY DEF Follows
  <2> HIDE DEF z
  <2> QED BY <2>1
<1>2. ASSUME NEW m \in 1..n, m - 1 \in P PROVE m \in P
  <2>1. PICK f : Follows(f, V, base, step, m - 1)
    BY <1>2
  <2> DEFINE g == [k \in 0..m |-> IF k = m THEN step[m][f[m - 1]] ELSE f[k]]
  <2>2. Follows(g, V, base, step, m)
    <3> HIDE DEF P
    <3>1. f[m - 1] \in V
      BY <2>1 DEF Follows
    <3>2. step[m][f[m - 1]] \in V
      BY <3>1
    <3>3. \A k \in 0..(m - 1) : g[k] = f[k] /\ f[k] \in V
      BY <2>1 DEF Follows
    <3>4. g[m] = step[m][f[m - 1]]
      OBVIOUS
    <3>5. g \in [0..m -> V]
      <4>1. \A k \in 0..m : k = m \/ k \in 0..(m - 1)
        OBVIOUS
      <4>2. \A k \in 0..m : g[k] \in V
        <5> HIDE DEF g
        <5> QED BY <3>2, <3>3, <3>4, <4>1
      <4> QED BY <4>2
    <3>6. \A k \in 1..m : g[k] = step[k][g[k - 1]]
      BY <2>1, <3>3, <3>4 DEF Follows
    <3>7. g[0] = base
      BY <2>1, <3>3 DEF Follows
    <3> HIDE DEF g
    <3> QED BY <3>5, <3>6, <3>7 DEF Follows
  <2> HIDE DEF g
  <2> QED BY <2>2
<1> HIDE DEF P
<1>3. \A m \in 0..n : m \in P
  BY <1>1, <1>2, Induction
<1> QED BY <1>3 DEF P

LEMMA Associative ==
    ASSUME NEW A
    PROVE  \A u, v, w \in Seq(A) : (u \o v) \o w = u \o (v \o w)
BY ConcatAssociative, SMTT(30)

-----------------------------------------------------------------------------
(* What is written.                                                        *)

KeyNames == {"none", "PF", "PA", "print", "enter", "eraseeof", "newline", "clear", "delete",
             "kybdreset", "backspace", "select_field", "dup", "previousword"}

\* Keys, and characters in one of some charsets.
Item(charsets) == [key : KeyNames, number : Nat, char : Char \cup {"none", "garbage"},
                   as : charsets \cup {"any"}]

\* The open converter is from the application's charset to the host's.
Paired == converter.host \in {Closed, [from |-> mine, to |-> HostCharset]}

\* The charset of what is written.
Written == IF converter.host = Closed THEN mine ELSE HostCharset

IInv ==
    /\ TypeOK
    /\ kind = "none" => ~ chosen
    /\ status = "idle" => text = <<>> /\ at = 1 /\ written = <<>>
    /\ written \in Seq(Item(Known))
    /\ chosen => Paired /\ written \in Seq(Item({Written}))

LEMMA WrittenKnown == ASSUME IInv PROVE Written \in Known /\ HostCharset \in Known
  BY DEF IInv, TypeOK, Written, HostCharset, Known

LEMMA EncodedItems ==
    ASSUME NEW piece \in Seq(Char), NEW charset
    PROVE  Encoded(piece, charset) \in Seq(Item({charset}))
<1>1. ASSUME NEW c \in Char PROVE Typed(c, charset) \in Item({charset})
  BY DEF Typed, Item, KeyNames
<1>2. /\ DOMAIN piece = 1..Len(piece) /\ Len(piece) \in Nat
      /\ \A i \in DOMAIN piece : piece[i] \in Char
  OBVIOUS
<1>3. Encoded(piece, charset) \in [1..Len(piece) -> Item({charset})]
  BY <1>1, <1>2 DEF Encoded
<1> QED BY <1>2, <1>3, SeqDef

\* What is written in one charset is written in one of several.
LEMMA MoreCharsets ==
    ASSUME NEW A, NEW B, A \subseteq B, NEW out \in Seq(Item(A))
    PROVE  out \in Seq(Item(B))
<1>1. Item(A) \subseteq Item(B)
  BY DEF Item
<1> HIDE DEF Item
<1> QED BY <1>1, SeqMonotonic

LEMMA PlacesOfCodes ==
    ASSUME NEW code \in ToSet(KeyboardCodes)
    PROVE  Place(code) \in {1, 3, 6, 7, 8, 13, 16}
<1>1. (CHOOSE i \in DOMAIN KeyboardCodes : KeyboardCodes[i] = code) \in DOMAIN KeyboardCodes
  BY DEF ToSet
<1>2. DOMAIN KeyboardCodes = DOMAIN KeyboardPlaces
  BY DEF KeyboardCodes, KeyboardPlaces
<1>3. \A i \in DOMAIN KeyboardPlaces : KeyboardPlaces[i] \in {1, 3, 6, 7, 8, 13, 16}
  BY DEF KeyboardPlaces
<1> QED BY <1>1, <1>2, <1>3 DEF Place

\* The actions for the codes, and those that the shifted table has in their places.
LEMMA NamesOfCodes ==
    ASSUME NEW p \in {1, 3, 6, 7, 8, 13, 16}
    PROVE  KeyboardAction[p] \in KeyNames /\ actions[p] \in KeyNames
<1> DEFINE Name(i) == CASE i < Joined -> Literals[i]
                        [] i = Joined -> Literals[i] \o Literals[i + 1]
                        [] i > Joined -> Literals[i + 1]
<1>1. Len(Literals) - 1 = 27
  BY DEF Literals, KeyboardAction
<1>2. actions = [i \in 1..(Len(Literals) - 1) |-> Name(i)]
  BY DEF actions
<1> HIDE DEF Name
<1>3. actions[p] = Name(p)
  <2>1. p \in 1..27
    OBVIOUS
  <2> QED BY <1>1, <1>2, <2>1
<1>4. Name(p) = IF p < 5 THEN Literals[p] ELSE Literals[p + 1]
  <2>1. CASE p < 5
    BY <2>1 DEF Name, Joined
  <2>2. CASE p > 5
    <3>1. ~ (p < 5) /\ p # 5
      BY <2>2
    <3> QED BY <2>2, <3>1 DEF Name, Joined
  <2> QED BY <2>1, <2>2
<1> QED BY <1>3, <1>4 DEF Literals, KeyboardAction, KeyNames

LEMMA KeyItem ==
    ASSUME NEW charset, NEW k \in KeyNames, NEW n \in Nat
    PROVE  Key(k, n) \in Seq(Item({charset}))
<1>1. [key |-> k, number |-> n, char |-> "none", as |-> "any"] \in Item({charset})
  BY DEF Item
<1> QED BY <1>1 DEF Key

LEMMA MeantItems == ASSUME NEW charset, NEW code PROVE Meant(code) \in Seq(Item({charset}))
<1>1. CASE code \in ToSet(PFCodes)
  <2>1. (CHOOSE i \in DOMAIN PFCodes : PFCodes[i] = code) \in DOMAIN PFCodes
    BY <1>1 DEF ToSet
  <2>2. DOMAIN PFCodes \subseteq Nat
    BY DEF PFCodes
  <2> QED BY <1>1, <2>1, <2>2, KeyItem DEF Meant, KeyNames
<1>2. CASE code \notin ToSet(PFCodes) /\ code \in ToSet(PACodes)
  <2>1. (CHOOSE i \in DOMAIN PACodes : PACodes[i] = code) \in DOMAIN PACodes
    BY <1>2 DEF ToSet
  <2>2. DOMAIN PACodes \subseteq Nat
    BY DEF PACodes
  <2> QED BY <1>2, <2>1, <2>2, KeyItem DEF Meant, KeyNames
<1>3. CASE code \notin ToSet(PFCodes) /\ code \notin ToSet(PACodes)
  <2>1. code \in ToSet(KeyboardCodes) => KeyboardAction[Place(code)] \in KeyNames
    BY PlacesOfCodes, NamesOfCodes
  <2>2. Meant(code) \in {Key(k, 0) : k \in KeyNames} \cup {<<>>}
    BY <1>3, <2>1 DEF Meant, KeyNames
  <2>3. <<>> \in Seq(Item({charset}))
    BY EmptySeq
  <2>4. ASSUME NEW k \in KeyNames PROVE Key(k, 0) \in Seq(Item({charset}))
    BY KeyItem
  <2> QED BY <2>2, <2>3, <2>4
<1> QED BY <1>1, <1>2, <1>3

LEMMA KeyItems == ASSUME NEW charset, NEW code PROVE Keys(code) \in Seq(Item({charset}))
<1>1. code \in ToSet(KeyboardCodes) => Key(actions[Place(code)], 0) \in Seq(Item({charset}))
  BY PlacesOfCodes, NamesOfCodes, KeyItem
<1> QED BY <1>1, MeantItems DEF Keys

\* Appending keeps what is written in order.
LEMMA Appended ==
    ASSUME NEW S, NEW s \in Seq(S), NEW t \in Seq(S) PROVE s \o t \in Seq(S)
  OBVIOUS

\* What comes out of convertToHost() is in the charset of what is written.
LEMMA ConvertedItems ==
    ASSUME IInv, NEW piece \in Seq(Char), piece # <<>>, NEW rest \in Seq(Char),
           NEW out \in Converted(piece, rest)
    PROVE  /\ out \in Seq(Item(Known))
           /\ chosen => out \in Seq(Item({Written}))
<1>1. \A charset : Garbage \in Seq(Item({charset}))
  BY DEF Garbage, Item, KeyNames
<1>2. CASE converter.host = Closed
  <2>1. out = Encoded(rest, mine) /\ mine = Written
    BY <1>2 DEF Converted, Written
  <2>2. out \in Seq(Item({mine})) /\ mine \in Known
    BY <2>1, EncodedItems DEF IInv, TypeOK
  <2> QED BY <2>1, <2>2, MoreCharsets
<1>3. CASE converter.host # Closed
  <2> DEFINE host == converter.host.to
             S == Item({host})
  <2>1. out \in {<<>>, Encoded(piece, host), Encoded(piece, host) \o Garbage}
    BY <1>3 DEF Converted
  <2>2. host \in Known /\ (chosen => host = Written)
    <3>1. converter.host \in [from : Known, to : Known]
      BY <1>3 DEF IInv, TypeOK, Descriptor
    <3>2. chosen => converter.host = [from |-> mine, to |-> HostCharset]
      BY <1>3 DEF IInv, Paired
    <3> QED BY <1>3, <3>1, <3>2 DEF Written
  <2> HIDE DEF host
  <2>3. Encoded(piece, host) \in Seq(S) /\ Garbage \in Seq(S) /\ <<>> \in Seq(S)
    BY <1>1, EncodedItems, EmptySeq
  <2> HIDE DEF S
  <2>4. Encoded(piece, host) \o Garbage \in Seq(S)
    BY <2>3, Appended
  <2>5. out \in Seq(S)
    BY <2>1, <2>3, <2>4
  <2> QED BY <2>2, <2>5, MoreCharsets DEF S
<1> QED BY <1>2, <1>3

-----------------------------------------------------------------------------
(* The control character ahead.                                            *)

LEMMA ControlAhead ==
    ASSUME IInv, ControlsAhead # {}
    PROVE  FirstControl \in at..Len(text) /\ at \in Nat /\ Len(text) \in Nat
<1>1. text \in Seq(Char) /\ at \in 1..(Len(text) + 1)
  <2>1. text \in Texts \cup {<<>>} /\ at \in 1..(Len(text) + 1)
    BY DEF IInv, TypeOK
  <2>2. <<>> \in Seq(Char)
    BY EmptySeq
  <2> QED BY <2>1, <2>2, TextsAssumption
<1>2. ControlsAhead \subseteq at..Len(text) /\ Len(text) \in Nat /\ at \in Nat
  BY <1>1 DEF ControlsAhead
<1>3. \E x \in ControlsAhead : \A y \in ControlsAhead : x <= y
  <2>1. ControlsAhead \subseteq Nat
    BY <1>2
  <2> QED BY <2>1, LeastExists
<1>4. FirstControl \in ControlsAhead
  BY <1>3 DEF FirstControl
<1> QED BY <1>2, <1>4

-----------------------------------------------------------------------------
(* The invariant holds at first, and every step keeps it.                  *)

LEMMA InitIInv == Init => IInv
<1> SUFFICES ASSUME Init PROVE IInv
  OBVIOUS
<1>1. <<>> \in Seq(Item(Known)) /\ 1 \in 1..(Len(<<>>) + 1) /\ DOMAIN <<>> = {}
  BY EmptySeq
<1>2. TypeOK
  BY <1>1 DEF Init, TypeOK, Known, Descriptor, NoConverter
<1> QED BY <1>1, <1>2 DEF Init, IInv

\* setCharSet() pairs the two, whichever charset is chosen.
LEMMA PairedBySet ==
    ASSUME NEW host, NEW charset, NEW c \in Converters(host, charset)
    PROVE  c.host \in {Closed, [from |-> charset, to |-> host]}
  BY DEF Converters, NoConverter, Opened

LEMMA ConverterTypes ==
    ASSUME NEW remote \in Known, NEW local \in Known
    PROVE  Converters(remote, local) \subseteq [local : Descriptor, host : Descriptor]
  BY DEF Converters, NoConverter, Opened, Descriptor

LEMMA OpenKeeps == ASSUME IInv, NEW k \in {"local", "remote"}, Open(k) PROVE IInv'
<1>1. converter' \in [local : Descriptor, host : Descriptor]
  BY ConverterTypes DEF Open, Known
<1>2. ~ chosen /\ kind' = k /\ UNCHANGED <<chosen, mine, text, at, status, written>>
  BY DEF Open, IInv
<1> QED BY <1>1, <1>2 DEF IInv, TypeOK, Known, Descriptor

LEMMA SetCharSetKeeps == ASSUME IInv, NEW charset \in Charset, SetCharSet(charset) PROVE IInv'
<1>1. /\ kind # "none" /\ chosen' = TRUE /\ mine' = charset /\ status = "idle"
      /\ converter' \in Converters(HostCharset, charset)
      /\ kind' = kind /\ text' = text /\ at' = at /\ status' = status /\ written' = written
  BY DEF SetCharSet
<1>2. converter' \in [local : Descriptor, host : Descriptor] /\ charset \in Known
  BY <1>1, ConverterTypes DEF HostCharset, Known
<1>3. written = <<>> /\ \A A : <<>> \in Seq(Item(A))
  BY <1>1, EmptySeq DEF IInv
<1>4. HostCharset' = HostCharset
  BY <1>1 DEF HostCharset
<1>5. Paired'
  BY <1>1, <1>4, PairedBySet DEF Paired, Closed
<1>6. TypeOK'
  BY <1>1, <1>2 DEF IInv, TypeOK, Known, Descriptor
<1> QED BY <1>1, <1>3, <1>5, <1>6 DEF IInv, Item, Known

LEMMA BeginInputKeeps == ASSUME IInv, NEW str \in Texts, BeginInput(str) PROVE IInv'
<1>1. /\ text' = str /\ status = "idle" /\ status' = "running" /\ at' = at /\ written' = written
      /\ kind' = kind /\ chosen' = chosen /\ mine' = mine /\ converter' = converter
  BY DEF BeginInput
<1>2. Len(str) \in Nat
  BY TextsAssumption
<1>3. at = 1 /\ written = <<>>
  BY <1>1 DEF IInv
<1>4. at \in 1..(Len(str) + 1)
  BY <1>2, <1>3
<1>5. TypeOK'
  BY <1>1, <1>4 DEF IInv, TypeOK, Known, Descriptor
<1> QED BY <1>1, <1>5 DEF IInv, Item, Known, Paired, Written, HostCharset

LEMMA GoOnKeeps == ASSUME IInv, GoOn PROVE IInv'
<1>1. /\ text' = <<>> /\ at' = 1 /\ status' = "idle" /\ written' = <<>>
      /\ kind' = kind /\ chosen' = chosen /\ mine' = mine /\ converter' = converter
  BY DEF GoOn
<1>2. 1 \in 1..(Len(<<>>) + 1) /\ DOMAIN <<>> = {} /\ \A A : <<>> \in Seq(Item(A))
  BY EmptySeq
<1>3. TypeOK'
  BY <1>1, <1>2 DEF IInv, TypeOK, Known, Descriptor
<1> QED BY <1>1, <1>2, <1>3 DEF IInv, Item, Known, Paired, Written, HostCharset

\* More is written, or nothing, and the place moves on.
LEMMA StepKeeps ==
    ASSUME IInv, UNCHANGED <<kind, chosen, mine, converter, text>>,
           at' \in 1..(Len(text) + 1), status' \in {"running", "returned", "thrown"},
           NEW out \in Seq(Item(Known)), chosen => out \in Seq(Item({Written})),
           written' \in {written, written \o out}
    PROVE  IInv'
<1>1. written' \in Seq(Item(Known))
  BY Appended DEF IInv
<1>2. chosen => written' \in Seq(Item({Written}))
  BY Appended DEF IInv
<1>3. Written' = Written /\ Paired' = Paired /\ Known' = Known
  BY DEF HostCharset, Paired, Known, Written
<1>4. \A i \in DOMAIN written' : written'[i].as \in Known \cup {"any"}
  <2>1. DOMAIN written' = 1..Len(written')
    BY <1>1
  <2>2. \A i \in DOMAIN written' : written'[i] \in Item(Known)
    BY <1>1, <2>1, ElementOfSeq
  <2> QED BY <2>2 DEF Item
<1>5. TypeOK'
  BY <1>4 DEF IInv, TypeOK, Known, Descriptor
<1> QED BY <1>1, <1>2, <1>3, <1>5 DEF IInv, Item

\* A piece is typed, or refused.
LEMMA PushKeeps ==
    ASSUME IInv, status = "running", UNCHANGED <<kind, chosen, mine, converter, text>>,
           NEW piece \in Seq(Char), NEW rest \in Seq(Char), piece # <<>>,
           NEW next \in 1..(Len(text) + 1), Push(piece, rest, next)
    PROVE  IInv'
<1>1. CASE /\ \E out \in Converted(piece, rest) : written' = written \o out
           /\ at' = next
           /\ UNCHANGED status
  <2>1. PICK out \in Converted(piece, rest) : written' = written \o out
    BY <1>1
  <2>2. out \in Seq(Item(Known)) /\ (chosen => out \in Seq(Item({Written})))
    BY ConvertedItems
  <2> QED BY <1>1, <2>1, <2>2, StepKeeps
<1>2. CASE status' = "thrown" /\ UNCHANGED <<at, written>>
  <2>1. \A A : <<>> \in Seq(Item(A))
    BY EmptySeq
  <2>2. at' \in 1..(Len(text) + 1)
    BY <1>2 DEF IInv, TypeOK
  <2> QED BY <1>2, <2>1, <2>2, StepKeeps
<1> QED BY <1>1, <1>2 DEF Push

LEMMA TextTypes ==
    ASSUME IInv
    PROVE  /\ text \in Seq(Char) /\ Len(text) \in Nat /\ at \in Nat
           /\ at \in 1..(Len(text) + 1) /\ Rest \in Seq(Char)
<1>1. text \in Seq(Char) /\ at \in 1..(Len(text) + 1)
  <2>1. text \in Texts \cup {<<>>} /\ at \in 1..(Len(text) + 1)
    BY DEF IInv, TypeOK
  <2>2. <<>> \in Seq(Char)
    BY EmptySeq
  <2> QED BY <2>1, <2>2, TextsAssumption
<1> QED BY <1>1 DEF Rest

LEMMA TypePieceKeeps == ASSUME IInv, TypePiece PROVE IInv'
<1> DEFINE piece == SubSeq(text, at, FirstControl - 1)
<1>1. /\ status = "running" /\ UNCHANGED <<kind, chosen, mine, converter, text>>
      /\ ControlsAhead # {} /\ FirstControl > at /\ Push(piece, Rest, FirstControl)
  BY DEF TypePiece
<1>2. FirstControl \in at..Len(text) /\ FirstControl \in 1..(Len(text) + 1)
  BY <1>1, ControlAhead, TextTypes
<1>3. piece \in Seq(Char) /\ Len(piece) = FirstControl - at
  BY <1>1, <1>2, TextTypes
<1> HIDE DEF piece
<1>4. piece # <<>>
  <2>1. Len(piece) > 0
    BY <1>1, <1>2, <1>3, TextTypes
  <2> QED BY <2>1
<1> QED BY <1>1, <1>2, <1>3, <1>4, TextTypes, PushKeeps

LEMMA CommandKeeps == ASSUME IInv, Command PROVE IInv'
<1> DEFINE code == text[at + 1]
<1>1. /\ status = "running" /\ UNCHANGED <<kind, chosen, mine, converter, text>>
      /\ ControlsAhead # {} /\ FirstControl = at /\ at < Len(text)
  BY DEF Command
<1>2. at + 2 \in 1..(Len(text) + 1) /\ at \in 1..(Len(text) + 1)
  BY <1>1, TextTypes
<1>3. CASE code = "@"
  <2>1. Push(<<"@">>, <<"@">>, at + 2)
    BY <1>3 DEF Command
  <2>2. "@" \in Char
    BY <1>1, <1>3, TextTypes
  <2>3. <<"@">> \in Seq(Char) /\ <<"@">> # <<>>
    BY <2>2
  <2> QED BY <1>1, <1>2, <2>1, <2>3, PushKeeps
<1>4. CASE written' = written \o Keys(code) /\ at' = at + 2 /\ UNCHANGED status
  <2>1. Keys(code) \in Seq(Item({Written}))
    BY KeyItems
  <2>2. Written \in Known
    BY WrittenKnown
  <2>3. Keys(code) \in Seq(Item(Known))
    BY <2>1, <2>2, MoreCharsets
  <2> QED BY <1>1, <1>2, <1>4, <2>1, <2>3, StepKeeps
<1>5. CASE status' = "thrown" /\ UNCHANGED <<at, written>>
  <2>1. \A A : <<>> \in Seq(Item(A))
    BY EmptySeq
  <2> QED BY <1>1, <1>2, <1>5, <2>1, StepKeeps
<1> QED BY <1>3, <1>4, <1>5 DEF Command

LEMMA EndKeeps == ASSUME IInv, CommandAtEnd \/ Return PROVE IInv'
<1>1. /\ UNCHANGED <<kind, chosen, mine, converter, text>> /\ at' = at /\ status' = "returned"
      /\ written' \in {written, written \o Garbage}
  BY DEF CommandAtEnd, Return
<1>2. \A charset : Garbage \in Seq(Item({charset}))
  BY DEF Garbage, Item, KeyNames
<1>3. {Written} \subseteq Known
  BY WrittenKnown
<1>4. Garbage \in Seq(Item({Written}))
  BY <1>2
<1>5. Garbage \in Seq(Item(Known))
  BY <1>3, <1>4, MoreCharsets
<1> QED BY <1>1, <1>4, <1>5, TextTypes, StepKeeps

LEMMA TypeRestKeeps == ASSUME IInv, TypeRest PROVE IInv'
<1>1. /\ status = "running" /\ UNCHANGED <<kind, chosen, mine, converter, text>>
      /\ Rest # <<>> /\ Push(Rest, Rest, Len(text) + 1)
  BY DEF TypeRest
<1>2. Len(text) + 1 \in 1..(Len(text) + 1)
  BY TextTypes
<1> QED BY <1>1, <1>2, TextTypes, PushKeeps

LEMMA StutterKeeps == ASSUME IInv, UNCHANGED vars PROVE IInv'
<1>1. /\ kind' = kind /\ chosen' = chosen /\ mine' = mine /\ converter' = converter
      /\ text' = text /\ at' = at /\ status' = status /\ written' = written
  BY DEF vars
<1>2. TypeOK' = TypeOK
  BY <1>1 DEF TypeOK, Known, Descriptor
<1>3. Paired' = Paired /\ Written' = Written
  BY <1>1 DEF Paired, HostCharset, Written
<1> QED BY <1>1, <1>2, <1>3 DEF IInv, Item, Known

LEMMA NextIInv == IInv /\ [Next]_vars => IInv'
<1> SUFFICES ASSUME IInv, [Next]_vars PROVE IInv'
  OBVIOUS
<1> QED
  BY OpenKeeps, SetCharSetKeeps, BeginInputKeeps, TypePieceKeeps, CommandKeeps, EndKeeps,
     TypeRestKeeps, GoOnKeeps, StutterKeeps DEF Next


-----------------------------------------------------------------------------
(* What a text stands for.                                                 *)

\* The n-th character from the end, and what is said there.
Behind(str, k) == str[Len(str) + 1 - k]

Saying(str, charset, k) ==
    IF Behind(str, k) # "@" THEN <<Typed(Behind(str, k), charset)>>
    ELSE IF k = 1 THEN <<>>
    ELSE IF str[Len(str) + 1 - k + 1] = "@" THEN <<Typed("@", charset)>>
    ELSE Documented(str[Len(str) + 1 - k + 1])

LEMMA OneInSeq == ASSUME NEW S, NEW x \in S PROVE <<x>> \in Seq(S)
  OBVIOUS

LEMMA SayingItems ==
    ASSUME NEW str \in Seq(Char), NEW charset, NEW k \in 1..Len(str)
    PROVE  Saying(str, charset, k) \in Seq(Item({charset}))
<1>1. Behind(str, k) \in Char
  BY DEF Behind
<1>2. \A c \in Char : <<Typed(c, charset)>> \in Seq(Item({charset}))
  <2>1. \A c \in Char : Typed(c, charset) \in Item({charset})
    BY DEF Typed, Item, KeyNames
  <2> QED BY <2>1, OneInSeq
<1>3. <<>> \in Seq(Item({charset}))
  BY EmptySeq
<1>4. \A code : Documented(code) \in Seq(Item({charset}))
  <2>1. Key("PF", 18) \in Seq(Item({charset}))
    <3>1. [key |-> "PF", number |-> 18, char |-> "none", as |-> "any"] \in Item({charset})
      BY DEF Item, KeyNames
    <3> QED BY <3>1 DEF Key
  <2> QED BY <1>3, <2>1, MeantItems DEF Documented
<1> HIDE DEF Item
<1> QED BY <1>1, <1>2, <1>3, <1>4 DEF Saying

\* What the last k characters stand for: what is said at the first of them, and what
\* those behind it stand for.
LEMMA MeaningSteps ==
    ASSUME NEW str \in Seq(Char), NEW charset
    PROVE  LET M == Meanings(str, charset)
           IN  /\ M[0] = <<>>
               /\ \A k \in 0..Len(str) : M[k] \in Seq(Item({charset}))
               /\ \A k \in 1..Len(str) :
                     Behind(str, k) # "@" => M[k] = Saying(str, charset, k) \o M[k - 1]
               /\ \A k \in 2..Len(str) :
                     Behind(str, k) = "@" => M[k] = Saying(str, charset, k) \o M[k - 2]
<1> DEFINE n == Len(str)
           S == Seq(Item({charset}))
           V == S \X S
           said == [k \in 1..n |-> Saying(str, charset, k)]
           step == [k \in 1..n |-> [p \in V |->
                       <<IF Behind(str, k) # "@" THEN said[k] \o p[1]
                         ELSE IF k = 1 THEN <<>> ELSE said[k] \o p[2], p[1]>>]]
           M == Meanings(str, charset)
           Is(g) == g = [k \in 0..n |->
                       IF k = 0 THEN <<>>
                       ELSE IF Behind(str, k) # "@" THEN said[k] \o g[k - 1]
                       ELSE IF k = 1 THEN <<>> ELSE said[k] \o g[k - 2]]
<1>1. n \in Nat /\ <<>> \in S
  BY EmptySeq
<1>2. \A k \in 1..n : said[k] \in S
  BY SayingItems
<1>3. \A s, t \in S : s \o t \in S
  BY Appended
<1>4. \A k \in 1..n, p \in V :
          step[k][p] = <<IF Behind(str, k) # "@" THEN said[k] \o p[1]
                         ELSE IF k = 1 THEN <<>> ELSE said[k] \o p[2], p[1]>>
  OBVIOUS
<1> HIDE DEF S, said
<1>5. step \in [1..n -> [V -> V]]
  <2>1. \A k \in 1..n, p \in V : step[k][p] \in V
    BY <1>1, <1>2, <1>3, <1>4
  <2>2. \A k \in 1..n : step[k] \in [V -> V]
    BY <2>1
  <2> HIDE DEF V
  <2> QED BY <2>2
<1> HIDE DEF step
<1>6. PICK f : Follows(f, V, <<<<>>, <<>>>>, step, n)
  <2>1. <<<<>>, <<>>>> \in V
    BY <1>1
  <2> HIDE DEF V
  <2> QED BY <1>1, <1>5, <2>1, RecursionExists
<1>7. \E h : Is(h)
  <2> DEFINE h == [k \in 0..n |-> f[k][1]]
  <2>1. f \in [0..n -> V] /\ f[0] = <<<<>>, <<>>>> /\ \A k \in 1..n : f[k] = step[k][f[k - 1]]
    BY <1>6 DEF Follows
  <2>2. \A k \in 1..n : k - 1 \in 0..n /\ f[k - 1] \in V
    <3>1. \A k \in 1..n : k - 1 \in 0..n
      BY <1>1
    <3> HIDE DEF V
    <3> QED BY <2>1, <3>1
  <2>3. \A k \in 1..n : f[k] = <<IF Behind(str, k) # "@" THEN said[k] \o f[k - 1][1]
                                 ELSE IF k = 1 THEN <<>> ELSE said[k] \o f[k - 1][2], f[k - 1][1]>>
    BY <1>4, <2>1, <2>2
  <2>4. \A k \in 2..n : f[k - 1][2] = f[k - 2][1]
    <3> SUFFICES ASSUME NEW k \in 2..n PROVE f[k - 1][2] = f[k - 2][1]
      OBVIOUS
    <3>1. k - 1 \in 1..n /\ (k - 1) - 1 = k - 2
      BY <1>1
    <3> QED BY <2>3, <3>1
  <2>5. h[0] = <<>>
    BY <1>1, <2>1
  <2>6. ASSUME NEW k \in 1..n
        PROVE  h[k] = IF Behind(str, k) # "@" THEN said[k] \o h[k - 1]
                      ELSE IF k = 1 THEN <<>> ELSE said[k] \o h[k - 2]
    <3>1. k \in 0..n /\ k - 1 \in 0..n /\ (k # 1 => k \in 2..n /\ k - 2 \in 0..n)
      BY <1>1
    <3> QED BY <2>3, <2>4, <3>1
  <2>7. \A k \in 0..n : k = 0 \/ k \in 1..n
    BY <1>1
  <2> SUFFICES h = [k \in 0..n |->
                       IF k = 0 THEN <<>>
                       ELSE IF Behind(str, k) # "@" THEN said[k] \o h[k - 1]
                       ELSE IF k = 1 THEN <<>> ELSE said[k] \o h[k - 2]]
    OBVIOUS
  <2>8. \A k \in 0..n :
            h[k] = IF k = 0 THEN <<>>
                   ELSE IF Behind(str, k) # "@" THEN said[k] \o h[k - 1]
                   ELSE IF k = 1 THEN <<>> ELSE said[k] \o h[k - 2]
    <3> HIDE DEF h, n
    <3> QED BY <2>5, <2>6, <2>7
  <2>9. h = [k \in 0..n |-> h[k]]
    OBVIOUS
  <2> HIDE DEF h
  <2> QED BY <2>8, <2>9
<1>8. Is(M)
  <2> DEFINE Body(g) == [k \in 0..Len(str) |->
                IF k = 0 THEN <<>>
                ELSE IF str[Len(str) + 1 - k] # "@"
                THEN <<Typed(str[Len(str) + 1 - k], charset)>> \o g[k - 1]
                ELSE IF k = 1 THEN <<>>
                ELSE (IF str[Len(str) + 1 - k + 1] = "@" THEN <<Typed("@", charset)>>
                      ELSE Documented(str[Len(str) + 1 - k + 1])) \o g[k - 2]]
  <2>1. M = CHOOSE g : g = Body(g)
    BY DEF Meanings
  <2>2. ASSUME NEW g PROVE Body(g) = g <=> Is(g)
    <3>1. \A k \in 0..n : k # 0 => k \in 1..n
      BY <1>1
    <3>2. ASSUME NEW k \in 0..n
          PROVE  (IF k = 0 THEN <<>>
                  ELSE IF str[Len(str) + 1 - k] # "@"
                  THEN <<Typed(str[Len(str) + 1 - k], charset)>> \o g[k - 1]
                  ELSE IF k = 1 THEN <<>>
                  ELSE (IF str[Len(str) + 1 - k + 1] = "@" THEN <<Typed("@", charset)>>
                        ELSE Documented(str[Len(str) + 1 - k + 1])) \o g[k - 2])
                 = IF k = 0 THEN <<>>
                   ELSE IF Behind(str, k) # "@" THEN said[k] \o g[k - 1]
                   ELSE IF k = 1 THEN <<>> ELSE said[k] \o g[k - 2]
      BY <3>1 DEF said, Saying, Behind
    <3>3. Body(g) = [k \in 0..n |->
                       IF k = 0 THEN <<>>
                       ELSE IF Behind(str, k) # "@" THEN said[k] \o g[k - 1]
                       ELSE IF k = 1 THEN <<>> ELSE said[k] \o g[k - 2]]
      BY <3>2
    <3> QED BY <3>3
  <2> HIDE DEF M, Is, Body
  <2>3. \E g : g = Body(g)
    BY <1>7, <2>2
  <2>4. M = Body(M)
    BY <2>1, <2>3
  <2> QED BY <2>2, <2>4
<1> HIDE DEF M
<1>9. /\ M[0] = <<>>
      /\ \A k \in 1..n : M[k] = IF Behind(str, k) # "@" THEN said[k] \o M[k - 1]
                                ELSE IF k = 1 THEN <<>> ELSE said[k] \o M[k - 2]
  <2>1. 0 \in 0..n /\ \A k \in 1..n : k \in 0..n /\ k # 0
    BY <1>1
  <2> HIDE DEF n
  <2> QED BY <1>8, <2>1
<1> HIDE DEF Is
<1>10. \A k \in 0..n : M[k] \in S
  <2> DEFINE P == {k \in 0..n : M[k] \in S /\ (k > 0 => M[k - 1] \in S)}
  <2>1. 0 \in P
    BY <1>1, <1>9
  <2>2. ASSUME NEW k \in 1..n, k - 1 \in P PROVE k \in P
    <3>1. k \in 0..n /\ M[k - 1] \in S
      BY <1>1, <2>2
    <3>2. k # 1 => k - 1 > 0 /\ (k - 1) - 1 = k - 2
      BY <1>1
    <3>3. k # 1 => M[k - 2] \in S
      BY <2>2, <3>2
    <3>4. M[k] \in S
      BY <1>1, <1>2, <1>3, <1>9, <3>1, <3>3
    <3> QED BY <3>1, <3>4
  <2> HIDE DEF P
  <2>3. \A k \in 0..n : k \in P
    BY <1>1, <2>1, <2>2, Induction
  <2> QED BY <2>3 DEF P
<1>11. \A k \in 1..n : Behind(str, k) # "@" => M[k] = Saying(str, charset, k) \o M[k - 1]
  BY <1>9 DEF said
<1>12. \A k \in 2..n : Behind(str, k) = "@" => M[k] = Saying(str, charset, k) \o M[k - 2]
  <2>1. \A k \in 2..n : k \in 1..n /\ k # 1
    BY <1>1
  <2> HIDE DEF n
  <2> QED BY <1>9, <2>1 DEF said
<1> QED BY <1>9, <1>10, <1>11, <1>12 DEF M, S

\* The length of a text is the sum of those of its characters.
LEMMA LengthIsSum ==
    ASSUME NEW piece \in Seq(Char), NEW charset \in Known
    PROVE  \E sum \in [0..Len(piece) -> Nat] :
               /\ sum[0] = 0
               /\ \A k \in 1..Len(piece) : sum[k] = sum[k - 1] + Bytes[piece[k]][charset]
               /\ Length(piece, charset) = sum[Len(piece)]
<1> DEFINE n == Len(piece)
           step == [k \in 1..n |-> [v \in Nat |-> v + Bytes[piece[k]][charset]]]
           Is(g) == g = [k \in 0..Len(piece) |->
                            IF k = 0 THEN 0 ELSE g[k - 1] + Bytes[piece[k]][charset]]
           g == CHOOSE g : Is(g)
<1>1. n \in Nat /\ \A k \in 1..n : Bytes[piece[k]][charset] \in Nat
  <2>1. \A k \in 1..n : piece[k] \in Char
    OBVIOUS
  <2> QED BY <2>1, BytesAssumption
<1>2. step \in [1..n -> [Nat -> Nat]]
  <2> HIDE DEF n
  <2> QED BY <1>1
<1>3. \A k \in 1..n, v \in Nat : step[k][v] = v + Bytes[piece[k]][charset]
  OBVIOUS
<1> HIDE DEF step
<1>4. PICK f : Follows(f, Nat, 0, step, n)
  BY <1>1, <1>2, RecursionExists
<1>5. \A k \in 1..n : f[k] = f[k - 1] + Bytes[piece[k]][charset]
  <2>1. f \in [0..n -> Nat] /\ \A k \in 1..n : f[k] = step[k][f[k - 1]]
    BY <1>4 DEF Follows
  <2>2. \A k \in 1..n : k - 1 \in 0..n
    BY <1>1
  <2> HIDE DEF n
  <2>3. \A k \in 1..n : f[k - 1] \in Nat
    BY <2>1, <2>2
  <2> QED BY <1>3, <2>1, <2>3
<1>6. Is(f)
  <2>1. f[0] = 0 /\ f = [k \in 0..n |-> f[k]]
    BY <1>4 DEF Follows
  <2>2. \A k \in 0..n : k = 0 \/ k \in 1..n
    BY <1>1
  <2> HIDE DEF n
  <2>3. \A k \in 0..n : f[k] = IF k = 0 THEN 0 ELSE f[k - 1] + Bytes[piece[k]][charset]
    BY <1>5, <2>1, <2>2
  <2>4. f = [k \in 0..n |-> IF k = 0 THEN 0 ELSE f[k - 1] + Bytes[piece[k]][charset]]
    BY <2>1, <2>3
  <2> QED BY <2>4 DEF n
<1>7. Length(piece, charset) = g[n]
  BY DEF Length
<1> HIDE DEF Is
<1>8. Is(g)
  BY <1>6
<1> HIDE DEF g
<1>9. g[0] = 0 /\ \A k \in 1..n : g[k] = g[k - 1] + Bytes[piece[k]][charset]
  <2>1. 0 \in 0..n /\ \A k \in 1..n : k \in 0..n /\ k # 0
    BY <1>1
  <2>2. \A k \in 0..n : g[k] = IF k = 0 THEN 0 ELSE g[k - 1] + Bytes[piece[k]][charset]
    BY <1>8 DEF Is
  <2> HIDE DEF n
  <2> QED BY <2>1, <2>2
<1>10. \A k \in 0..n : g[k] \in Nat
  <2> DEFINE P == {k \in 0..n : g[k] \in Nat}
  <2>1. 0 \in P /\ \A k \in 1..n : k - 1 \in P => k \in P
    <3>1. \A k \in 1..n : k \in 0..n
      BY <1>1
    <3>2. 0 \in P
      BY <1>1, <1>9
    <3>3. ASSUME NEW k \in 1..n, g[k - 1] \in Nat PROVE g[k] \in Nat
      <4>1. Bytes[piece[k]][charset] \in Nat /\ g[k] = g[k - 1] + Bytes[piece[k]][charset]
        BY <1>1, <1>9
      <4> QED BY <3>3, <4>1
    <3> HIDE DEF n
    <3> QED BY <3>1, <3>2, <3>3
  <2> HIDE DEF P, n
  <2>2. \A k \in 0..n : k \in P
    BY <1>1, <2>1, Induction
  <2> QED BY <2>2 DEF P
<1>11. g \in [0..n -> Nat]
  BY <1>8, <1>10 DEF Is
<1> QED BY <1>7, <1>9, <1>11

\* The buffer of convertCharset() is longer than a text with characters of less than
\* twice their bytes.
LEMMA RoomEnough ==
    ASSUME NEW piece \in Seq(Char), piece # <<>>, NEW from \in Known, NEW to \in Known,
           \A i \in DOMAIN piece : Bytes[piece[i]][to] < 2 * Bytes[piece[i]][from]
    PROVE  Length(piece, to) < 2 * Length(piece, from)
<1> DEFINE n == Len(piece)
<1>1. n \in Nat \ {0} /\ DOMAIN piece = 1..n /\ \A k \in 1..n : piece[k] \in Char
  BY EmptySeq
<1>2. \A k \in 1..n : Bytes[piece[k]][to] \in Nat /\ Bytes[piece[k]][from] \in Nat
  BY <1>1, BytesAssumption
<1>3. PICK sto \in [0..n -> Nat] :
          /\ sto[0] = 0
          /\ \A k \in 1..n : sto[k] = sto[k - 1] + Bytes[piece[k]][to]
          /\ Length(piece, to) = sto[n]
  BY LengthIsSum
<1>4. PICK sfrom \in [0..n -> Nat] :
          /\ sfrom[0] = 0
          /\ \A k \in 1..n : sfrom[k] = sfrom[k - 1] + Bytes[piece[k]][from]
          /\ Length(piece, from) = sfrom[n]
  BY LengthIsSum
<1> DEFINE P == {k \in 0..n : k = 0 \/ sto[k] < 2 * sfrom[k]}
<1>5. 0 \in P
  BY <1>1
<1>6. ASSUME NEW k \in 1..n, k - 1 \in P PROVE k \in P
  <2>1. sto[k - 1] <= 2 * sfrom[k - 1]
    <3>1. k - 1 \in 0..n
      BY <1>1
    <3>2. sto[k - 1] \in Nat /\ sfrom[k - 1] \in Nat
      BY <3>1
    <3> QED BY <1>3, <1>4, <1>6, <3>2
  <2>2. Bytes[piece[k]][to] < 2 * Bytes[piece[k]][from]
    BY <1>1
  <2>3. k - 1 \in 0..n /\ k \in 0..n
    BY <1>1
  <2>4. sto[k - 1] \in Nat /\ sfrom[k - 1] \in Nat
    BY <2>3
  <2> DEFINE long == Bytes[piece[k]][to]
             room == Bytes[piece[k]][from]
  <2>5. /\ sto[k] = sto[k - 1] + long /\ sfrom[k] = sfrom[k - 1] + room
        /\ long \in Nat /\ room \in Nat /\ long < 2 * room
    BY <1>2, <1>3, <1>4, <2>2
  <2> HIDE DEF long, room
  <2>6. sto[k] < 2 * sfrom[k]
    BY <2>1, <2>4, <2>5
  <2> QED BY <2>3, <2>6
<1> HIDE DEF P
<1>7. n \in P
  <2>1. \A k \in 0..n : k \in P
    BY <1>1, <1>5, <1>6, Induction
  <2> QED BY <1>1, <2>1
<1> QED BY <1>1, <1>3, <1>4, <1>7 DEF P

LEMMA SameEnd == ASSUME NEW m \in Nat, NEW n \in Nat, 1..m = 1..n PROVE m = n
<1>1. m > 0 => m \in 1..n
  OBVIOUS
<1>2. n > 0 => n \in 1..m
  OBVIOUS
<1> QED BY <1>1, <1>2

\* Characters are encoded one by one.
LEMMA EncodedEach ==
    ASSUME NEW piece \in Seq(Char), NEW charset
    PROVE  /\ Encoded(piece, charset) \in Seq(Item({charset}))
           /\ Len(Encoded(piece, charset)) = Len(piece)
           /\ \A i \in 1..Len(piece) : Encoded(piece, charset)[i] = Typed(piece[i], charset)
<1>1. Encoded(piece, charset) \in Seq(Item({charset}))
  BY EncodedItems
<1>2. DOMAIN piece = 1..Len(piece) /\ Len(piece) \in Nat
  OBVIOUS
<1>3. Encoded(piece, charset) = [i \in 1..Len(piece) |-> Typed(piece[i], charset)]
  BY <1>2 DEF Encoded
<1>4. DOMAIN Encoded(piece, charset) = 1..Len(Encoded(piece, charset))
  BY <1>1, LenProperties
<1>5. Len(Encoded(piece, charset)) = Len(piece)
  <2>1. DOMAIN Encoded(piece, charset) = 1..Len(piece)
    BY <1>3
  <2>2. Len(Encoded(piece, charset)) \in Nat
    BY <1>1, LenProperties
  <2> DEFINE m == Len(Encoded(piece, charset))
  <2>3. 1..m = 1..Len(piece) /\ m \in Nat
    BY <1>4, <2>1, <2>2
  <2> HIDE DEF m
  <2>4. m = Len(piece)
    BY <1>2, <2>3, SameEnd
  <2> QED BY <2>4 DEF m
<1> QED BY <1>1, <1>3, <1>5

LEMMA OneMore ==
    ASSUME NEW S, NEW x \in Seq(S), NEW y \in Seq(S), Len(x) = 1, NEW n \in Nat, Len(y) = n
    PROVE  /\ x \o y \in Seq(S) /\ Len(x \o y) = 1 + n
           /\ \A i \in 1..(1 + n) : (x \o y)[i] = IF i <= 1 THEN x[i] ELSE y[i - 1]
<1>1. x \o y \in Seq(S)
  BY Appended
<1>2. /\ Len(x \o y) = Len(x) + Len(y)
      /\ \A i \in 1..(Len(x) + Len(y)) :
            (x \o y)[i] = IF i <= Len(x) THEN x[i] ELSE y[i - Len(x)]
  BY ConcatProperties
<1> QED BY <1>1, <1>2

LEMMA EncodedFirst ==
    ASSUME NEW c \in Char, NEW piece \in Seq(Char), NEW charset
    PROVE  Encoded(<<c>> \o piece, charset) = <<Typed(c, charset)>> \o Encoded(piece, charset)
<1> DEFINE whole == <<c>> \o piece
           first == <<Typed(c, charset)>>
           left == Encoded(whole, charset)
           right == first \o Encoded(piece, charset)
           S == Item({charset})
           n == Len(piece)
<1>1. /\ whole \in Seq(Char) /\ Len(whole) = n + 1 /\ whole[1] = c /\ n \in Nat
      /\ \A i \in 2..(n + 1) : whole[i] = piece[i - 1]
  OBVIOUS
<1>2. /\ Encoded(piece, charset) \in Seq(S) /\ Len(Encoded(piece, charset)) = n
      /\ \A i \in 1..n : Encoded(piece, charset)[i] = Typed(piece[i], charset)
  BY EncodedEach
<1> HIDE DEF whole
<1>3. /\ left \in Seq(S) /\ Len(left) = n + 1
      /\ \A i \in 1..(n + 1) : left[i] = Typed(whole[i], charset)
  BY <1>1, EncodedEach
<1>4. first \in Seq(S) /\ Len(first) = 1 /\ first[1] = Typed(c, charset)
  <2>1. Typed(c, charset) \in S
    BY DEF Typed, Item, KeyNames
  <2> HIDE DEF S
  <2> QED BY <2>1, OneInSeq
<1> HIDE DEF S, first
<1>5. /\ right \in Seq(S) /\ Len(right) = n + 1 /\ right[1] = Typed(c, charset)
      /\ \A i \in 2..(n + 1) : right[i] = Encoded(piece, charset)[i - 1]
  <2> DEFINE coded == Encoded(piece, charset)
  <2>2. coded \in Seq(S) /\ Len(coded) = n
    BY <1>2
  <2> HIDE DEF coded
  <2>3. /\ first \o coded \in Seq(S) /\ Len(first \o coded) = 1 + n
        /\ \A i \in 1..(1 + n) :
               (first \o coded)[i] = IF i <= 1 THEN first[i] ELSE coded[i - 1]
    BY <1>1, <1>4, <2>2, OneMore
  <2>1. /\ right \in Seq(S) /\ Len(right) = 1 + n
        /\ \A i \in 1..(1 + n) :
               right[i] = IF i <= 1 THEN first[i] ELSE Encoded(piece, charset)[i - 1]
    BY <2>3 DEF coded
  <2> HIDE DEF right
  <2> QED BY <1>1, <1>4, <2>1
<1> HIDE DEF left, right
<1>6. ASSUME NEW i \in 1..(n + 1) PROVE left[i] = right[i]
  <2>1. CASE i = 1
    BY <1>1, <1>3, <1>5, <2>1
  <2>2. CASE i \in 2..(n + 1)
    <3>1. i - 1 \in 1..n
      BY <1>1, <2>2
    <3> QED BY <1>1, <1>2, <1>3, <1>5, <2>2, <3>1
  <2> QED BY <1>1, <2>1, <2>2
<1>7. left = right
  BY <1>3, <1>5, <1>6, SeqEqual
<1> QED BY <1>7 DEF left, right, whole, first

\* Characters without a command among them stand for themselves.
LEMMA TypedRun ==
    ASSUME NEW str \in Seq(Char), NEW charset, NEW a \in 1..(Len(str) + 1),
           NEW b \in a..(Len(str) + 1), \A i \in a..(b - 1) : str[i] # "@"
    PROVE  LET M == Meanings(str, charset)
           IN  Encoded(SubSeq(str, a, b - 1), charset) \o M[Len(str) + 1 - b]
                   = M[Len(str) + 1 - a]
<1> DEFINE n == Len(str)
           M == Meanings(str, charset)
           S == Seq(Item({charset}))
           Run(j) == SubSeq(str, b - j, b - 1)
           P == {j \in 0..(b - a) : Encoded(Run(j), charset) \o M[n + 1 - b] = M[n + 1 - b + j]}
<1>1. n \in Nat /\ b - a \in Nat /\ n + 1 - b \in 0..n /\ a \in Nat /\ b \in Nat
  OBVIOUS
<1>2. /\ \A k \in 0..n : M[k] \in S
      /\ \A k \in 1..n : Behind(str, k) # "@" => M[k] = Saying(str, charset, k) \o M[k - 1]
  BY MeaningSteps
<1> HIDE DEF M
<1>3. 0 \in P
  <2>1. Run(0) = <<>>
    BY <1>1, SubSeqEmpty
  <2>2. Encoded(<<>>, charset) = <<>>
    BY DEF Encoded
  <2>3. <<>> \o M[n + 1 - b] = M[n + 1 - b]
    BY <1>1, <1>2, ConcatEmptySeq
  <2>4. n + 1 - b + 0 = n + 1 - b /\ 0 \in 0..(b - a)
    BY <1>1
  <2> HIDE DEF Run
  <2> QED BY <2>1, <2>2, <2>3, <2>4
<1>4. ASSUME NEW j \in 1..(b - a), j - 1 \in P PROVE j \in P
  <2> DEFINE i == b - j
             k == n + 1 - i
  <2>1. /\ i \in 1..n /\ i \in a..(b - 1) /\ k \in 1..n /\ k - 1 = n + 1 - b + (j - 1)
        /\ k = n + 1 - b + j /\ n + 1 - k = i /\ b - (j - 1) = i + 1 /\ j \in 0..(b - a)
        /\ k - 1 \in 0..n /\ b - 1 \in i..n
    BY <1>1
  <2> HIDE DEF i, k
  <2>2. str[i] # "@" /\ Behind(str, k) = str[i]
    BY <2>1 DEF Behind
  <2>3. M[k] = <<Typed(str[i], charset)>> \o M[k - 1]
    BY <1>2, <2>1, <2>2 DEF Saying
  <2>4. Encoded(SubSeq(str, i + 1, b - 1), charset) \o M[n + 1 - b] = M[k - 1]
    BY <1>4, <2>1
  <2>5. SubSeq(str, i, b - 1) = <<str[i]>> \o SubSeq(str, i + 1, b - 1)
    BY <2>1, SubSeqRecursiveFirst
  <2>6. SubSeq(str, i + 1, b - 1) \in Seq(Char) /\ str[i] \in Char
    BY <1>1, <2>1
  <2> DEFINE rest == SubSeq(str, i + 1, b - 1)
  <2> HIDE DEF rest
  <2>7. rest \in Seq(Char)
    BY <2>6 DEF rest
  <2>8. Encoded(<<str[i]>> \o rest, charset) = <<Typed(str[i], charset)>> \o Encoded(rest, charset)
    BY <2>6, <2>7, EncodedFirst
  <2>9. <<Typed(str[i], charset)>> \in S /\ Encoded(rest, charset) \in S
    <3>1. <<str[i]>> \in Seq(Char)
      BY <2>6, OneInSeq
    <3>2. Typed(str[i], charset) \in Item({charset})
      BY <2>6 DEF Typed, Item, KeyNames
    <3> QED BY <2>7, <3>2, OneInSeq, EncodedItems
  <2>10. M[n + 1 - b] \in S
    BY <1>1, <1>2
  <2> HIDE DEF S
  <2>11. Encoded(<<str[i]>> \o rest, charset) \o M[n + 1 - b] = M[k]
    <3> DEFINE x == <<Typed(str[i], charset)>>
               y == Encoded(rest, charset)
               z == M[n + 1 - b]
    <3>1. (x \o y) \o z = x \o (y \o z)
      <4>1. x \in S /\ y \in S /\ z \in S
        BY <2>9, <2>10
      <4> HIDE DEF x, y, z
      <4>2. \A u, v, w \in S : (u \o v) \o w = u \o (v \o w)
        BY Associative, SMTT(30) DEF S
      <4> QED BY <4>1, <4>2
    <3> QED BY <2>3, <2>4, <2>8, <3>1 DEF rest
  <2>12. Run(j) = <<str[i]>> \o rest
    BY <2>5 DEF i, rest
  <2> QED BY <2>1, <2>11, <2>12
<1> HIDE DEF P
<1>5. b - a \in P
  <2>1. \A j \in 0..(b - a) : j \in P
    BY <1>1, <1>3, <1>4, Induction
  <2> QED BY <1>1, <2>1
<1>6. b - (b - a) = a /\ n + 1 - b + (b - a) = n + 1 - a
  BY <1>1
<1> QED BY <1>5, <1>6 DEF P, M

-----------------------------------------------------------------------------
(* What input() has done is what its text stands for.                      *)

\* The host has all characters, none too long, and the commands are those of the
\* documentation.
Fine ==
    /\ \A i \in DOMAIN text :
        Bytes[text[i]][HostCharset] \in 1..(2 * Bytes[text[i]][mine] - 1)
    /\ \A i \in 2..Len(text) : text[i - 1] = "@" => Documented(text[i]) = Keys(text[i])

\* What is written, and what the rest of the text stands for.
Whole == written \o Meanings(text, HostCharset)[Len(text) + 1 - at]

\* They make up what the text stands for; to the end, there is no rest.
ExactOK ==
    chosen /\ converter.host # Closed /\ Fine =>
        /\ status \in {"running", "thrown"} => Whole = Meaning(text, HostCharset)
        /\ status = "returned" =>
              written = Meaning(text, HostCharset) \/ (at = Len(text) /\ text[at] = "@")

EInv == IInv /\ ExactOK

\* A part of such a text comes out of convertToHost() as it is, in the host's charset.
LEMMA FineConverted ==
    ASSUME IInv, chosen, converter.host # Closed,
           NEW piece \in Seq(Char), piece # <<>>, NEW rest,
           \A i \in DOMAIN piece :
               Bytes[piece[i]][HostCharset] \in 1..(2 * Bytes[piece[i]][mine] - 1)
    PROVE  Converted(piece, rest) = {Encoded(piece, HostCharset)}
<1>1. converter.host.to = HostCharset /\ mine \in Known /\ HostCharset \in Known
  BY DEF IInv, Paired, TypeOK, HostCharset, Known
<1>2. \A i \in DOMAIN piece :
          /\ Bytes[piece[i]][HostCharset] # 0
          /\ Bytes[piece[i]][HostCharset] < 2 * Bytes[piece[i]][mine]
  <2>1. \A i \in DOMAIN piece : piece[i] \in Char
    OBVIOUS
  <2>2. \A c \in Char : Bytes[c][mine] \in Nat
    BY <1>1, BytesAssumption
  <2> QED BY <2>1, <2>2
<1>3. Length(piece, HostCharset) < 2 * Length(piece, mine)
  BY <1>1, <1>2, RoomEnough
<1>4. Length(piece, HostCharset) \in Nat /\ Length(piece, mine) \in Nat
  <2>1. ASSUME NEW s \in Known PROVE Length(piece, s) \in Nat
    <3>1. PICK sum \in [0..Len(piece) -> Nat] : Length(piece, s) = sum[Len(piece)]
      BY <2>1, LengthIsSum
    <3>2. Len(piece) \in 0..Len(piece)
      OBVIOUS
    <3> QED BY <3>1, <3>2
  <2> QED BY <1>1, <2>1
<1>5. /\ ~ (Length(piece, HostCharset) > 2 * Length(piece, mine))
      /\ Length(piece, HostCharset) # 2 * Length(piece, mine)
  BY <1>3, <1>4
<1> QED BY <1>1, <1>2, <1>5 DEF Converted

\* A step of input() types what the characters from at to at' stand for, or refuses.
LEMMA TypedExactly ==
    ASSUME EInv, status = "running", UNCHANGED <<kind, chosen, mine, converter, text>>,
           status' \in {"running", "thrown"}, NEW out,
           chosen /\ converter.host # Closed /\ Fine =>
               \/ written' = written /\ at' = at
               \/ /\ out \in Seq(Item({HostCharset}))
                  /\ written' = written \o out
                  /\ at' \in at..(Len(text) + 1)
                  /\ out \o Meanings(text, HostCharset)[Len(text) + 1 - at']
                        = Meanings(text, HostCharset)[Len(text) + 1 - at]
    PROVE  ExactOK'
<1>1. HostCharset' = HostCharset /\ Fine' = Fine
  BY DEF HostCharset, Fine, Keys
<1> SUFFICES ASSUME chosen, converter.host # Closed, Fine
             PROVE  Whole' = Meaning(text, HostCharset)
  <2>1. Meaning(text', HostCharset') = Meaning(text, HostCharset)
    BY <1>1
  <2>2. Meaning(text, HostCharset)' = Meaning(text', HostCharset')
    BY DEF Meaning, Meanings, Typed, HostCharset, Known, Ascii
  <2> QED BY <1>1, <2>1, <2>2 DEF ExactOK
<1> DEFINE M == Meanings(text, HostCharset)
           S == Seq(Item({HostCharset}))
<1>2. Whole' = written' \o M[Len(text) + 1 - at']
  BY <1>1 DEF Whole
<1>3. Whole = Meaning(text, HostCharset) /\ Whole = written \o M[Len(text) + 1 - at]
  BY DEF EInv, ExactOK, Whole
<1>4. CASE written' = written /\ at' = at
  BY <1>2, <1>3, <1>4
<1>5. CASE /\ out \in S
           /\ written' = written \o out
           /\ at' \in at..(Len(text) + 1)
           /\ out \o M[Len(text) + 1 - at'] = M[Len(text) + 1 - at]
  <2>1. M[Len(text) + 1 - at'] \in S
    <3>1. Len(text) + 1 - at' \in 0..Len(text)
      BY <1>5, TextTypes DEF EInv
    <3> QED BY <3>1, MeaningSteps, TextTypes DEF EInv
  <2>2. written \in S
    BY DEF EInv, IInv, Written
  <2> DEFINE rest == M[Len(text) + 1 - at']
  <2>3. written \in S /\ out \in S /\ rest \in S
    BY <1>5, <2>1, <2>2
  <2>4. (written \o out) \o rest = written \o (out \o rest)
    <3>1. \A u, v, w \in S : (u \o v) \o w = u \o (v \o w)
      BY Associative
    <3> HIDE DEF S, M, rest
    <3> QED BY <2>3, <3>1
  <2> HIDE DEF M, rest
  <2> QED BY <1>2, <1>3, <1>5, <2>4 DEF rest
<1> QED BY <1>4, <1>5

\* The next control character is the first one.
LEMMA NoneBefore ==
    ASSUME IInv, ControlsAhead # {} PROVE \A i \in at..(FirstControl - 1) : text[i] # "@"
<1>1. ControlsAhead \subseteq Nat
  BY TextTypes DEF ControlsAhead
<1>2. FirstControl \in ControlsAhead /\ \A j \in ControlsAhead : FirstControl <= j
  BY <1>1, LeastExists DEF FirstControl
<1>3. FirstControl \in at..Len(text) /\ at \in Nat /\ Len(text) \in Nat
  BY ControlAhead
<1> SUFFICES ASSUME NEW i \in at..(FirstControl - 1), text[i] = "@" PROVE FALSE
  OBVIOUS
<1>4. i \in ControlsAhead
  BY <1>3 DEF ControlsAhead
<1> QED BY <1>2, <1>3, <1>4

\* The characters from at to the next place, none of them a control character.
LEMMA RunTyped ==
    ASSUME EInv, status = "running", UNCHANGED <<kind, chosen, mine, converter, text>>,
           NEW next \in at..(Len(text) + 1), next # at,
           \A i \in at..(next - 1) : text[i] # "@",
           NEW rest, Push(SubSeq(text, at, next - 1), rest, next)
    PROVE  ExactOK'
<1> DEFINE piece == SubSeq(text, at, next - 1)
           out == Encoded(piece, HostCharset)
<1>1. /\ text \in Seq(Char) /\ at \in 1..(Len(text) + 1) /\ Len(text) \in Nat
  BY TextTypes DEF EInv
<1>2. /\ piece \in Seq(Char) /\ Len(piece) = next - at /\ piece # <<>>
      /\ \A i \in DOMAIN piece : piece[i] = text[at + i - 1] /\ at + i - 1 \in DOMAIN text
  <2>1. piece \in Seq(Char) /\ Len(piece) = next - at
    BY <1>1
  <2>2. Len(piece) > 0
    BY <1>1, <2>1
  <2>3. piece # <<>>
    <3> HIDE DEF piece
    <3> QED BY <2>2
  <2>4. \A i \in 1..(next - at) : piece[i] = text[at + i - 1] /\ at + i - 1 \in 1..Len(text)
    BY <1>1
  <2>5. DOMAIN piece = 1..(next - at) /\ DOMAIN text = 1..Len(text)
    BY <1>1, <2>1
  <2> QED BY <2>1, <2>3, <2>4, <2>5
<1>3. out \o Meanings(text, HostCharset)[Len(text) + 1 - next]
          = Meanings(text, HostCharset)[Len(text) + 1 - at]
  BY <1>1, TypedRun
<1> HIDE DEF piece
<1>4. out \in Seq(Item({HostCharset}))
  BY <1>2, EncodedItems
<1>5. chosen /\ converter.host # Closed /\ Fine => Converted(piece, rest) = {out}
  BY <1>2, FineConverted DEF EInv, Fine
<1>6. \/ \E x \in Converted(piece, rest) : written' = written \o x /\ at' = next /\ status' = status
      \/ status' = "thrown" /\ at' = at /\ written' = written
  BY DEF Push, piece
<1>7. status' \in {"running", "thrown"}
  BY <1>6
<1>8. chosen /\ converter.host # Closed /\ Fine =>
          \/ written' = written /\ at' = at
          \/ written' = written \o out /\ at' = next
  BY <1>5, <1>6
<1> HIDE DEF out
<1> QED BY <1>3, <1>4, <1>7, <1>8, TypedExactly

LEMMA TypePieceExact == ASSUME EInv, TypePiece PROVE ExactOK'
<1>1. /\ status = "running" /\ UNCHANGED <<kind, chosen, mine, converter, text>>
      /\ ControlsAhead # {} /\ FirstControl > at
      /\ Push(SubSeq(text, at, FirstControl - 1), Rest, FirstControl)
  BY DEF TypePiece
<1>2. FirstControl \in at..(Len(text) + 1) /\ FirstControl # at
  BY <1>1, ControlAhead DEF EInv
<1>3. \A i \in at..(FirstControl - 1) : text[i] # "@"
  BY <1>1, NoneBefore DEF EInv
<1> QED BY <1>1, <1>2, <1>3, RunTyped

LEMMA TypeRestExact == ASSUME EInv, TypeRest PROVE ExactOK'
<1> DEFINE n == Len(text) + 1
<1>1. /\ status = "running" /\ UNCHANGED <<kind, chosen, mine, converter, text>>
      /\ ControlsAhead = {} /\ Rest # <<>> /\ Push(Rest, Rest, n)
  BY DEF TypeRest
<1>2. text \in Seq(Char) /\ at \in 1..n /\ Len(text) \in Nat
  BY TextTypes DEF EInv
<1>3. n - 1 = Len(text) /\ n \in at..n
  BY <1>2
<1>4. n # at
  <2>1. n = at => Rest = <<>>
    BY <1>2, SubSeqEmpty DEF Rest
  <2> QED BY <1>1, <2>1
<1>5. \A i \in at..(n - 1) : text[i] # "@"
  BY <1>1, <1>3 DEF ControlsAhead
<1>6. Push(SubSeq(text, at, n - 1), Rest, n)
  BY <1>1, <1>3 DEF Rest
<1> HIDE DEF n
<1>7. n \in at..(Len(text) + 1)
  BY <1>3 DEF n
<1> QED BY <1>1, <1>4, <1>5, <1>6, <1>7, RunTyped

LEMMA CommandExact == ASSUME EInv, Command PROVE ExactOK'
<1> DEFINE code == text[at + 1]
           n == Len(text)
           M == Meanings(text, HostCharset)
           Good == chosen /\ converter.host # Closed /\ Fine
<1>1. /\ status = "running" /\ UNCHANGED <<kind, chosen, mine, converter, text>>
      /\ ControlsAhead # {} /\ FirstControl = at /\ at < n
  BY DEF Command
<1>2. text \in Seq(Char) /\ at \in 1..(n + 1) /\ n \in Nat
  BY TextTypes DEF EInv
<1>3. text[at] = "@"
  <2>1. ControlsAhead \subseteq Nat
    BY <1>2 DEF ControlsAhead
  <2>2. FirstControl \in ControlsAhead
    BY <1>1, <2>1, LeastExists DEF FirstControl
  <2> QED BY <1>1, <2>2 DEF ControlsAhead
<1>4. /\ at + 2 \in at..(n + 1) /\ at + 1 \in 2..n /\ n + 1 - at \in 2..n
      /\ n + 1 - (at + 2) = (n + 1 - at) - 2 /\ n + 1 - (n + 1 - at) = at /\ (at + 1) - 1 = at
      /\ n + 1 - at # 1
  BY <1>1, <1>2
<1>5. M[n + 1 - at] = Saying(text, HostCharset, n + 1 - at) \o M[n + 1 - (at + 2)]
  <2>1. Behind(text, n + 1 - at) = "@"
    BY <1>3, <1>4 DEF Behind
  <2>2. M[n + 1 - at] = Saying(text, HostCharset, n + 1 - at) \o M[(n + 1 - at) - 2]
    BY <1>2, <1>4, <2>1, MeaningSteps
  <2> QED BY <1>4, <2>2
<1>6. Saying(text, HostCharset, n + 1 - at) =
          IF code = "@" THEN <<Typed("@", HostCharset)>> ELSE Documented(code)
  BY <1>3, <1>4 DEF Saying, Behind
<1>7. CASE code = "@"
  <2> DEFINE piece == <<"@">>
             out == Encoded(piece, HostCharset)
  <2>1. \/ \E x \in Converted(piece, piece) :
               written' = written \o x /\ at' = at + 2 /\ status' = status
        \/ status' = "thrown" /\ at' = at /\ written' = written
    BY <1>7 DEF Command, Push
  <2>2. "@" \in Char
    BY <1>2, <1>3, <1>4
  <2>3. piece \in Seq(Char) /\ piece # <<>> /\ DOMAIN piece = {1} /\ piece[1] = "@"
    BY <2>2
  <2>4. out = <<Typed("@", HostCharset)>>
    <3>1. out = [i \in DOMAIN piece |-> Typed(piece[i], HostCharset)]
      BY DEF Encoded
    <3> QED BY <3>1
  <2> HIDE DEF piece
  <2>5. out \in Seq(Item({HostCharset}))
    BY <2>3, EncodedItems
  <2>6. Good => Converted(piece, piece) = {out}
    <3>1. at \in DOMAIN text
      BY <1>2, <1>4
    <3>2. Good => \A i \in DOMAIN piece :
              Bytes[piece[i]][HostCharset] \in 1..(2 * Bytes[piece[i]][mine] - 1)
      BY <1>3, <2>3, <3>1 DEF Fine
    <3> QED BY <2>3, <3>2, FineConverted DEF EInv
  <2>7. out \o M[n + 1 - (at + 2)] = M[n + 1 - at]
    BY <1>5, <1>6, <1>7, <2>4
  <2>8. Good => \/ written' = written /\ at' = at
                \/ written' = written \o out /\ at' = at + 2
    BY <2>1, <2>6
  <2>9. status' \in {"running", "thrown"}
    BY <1>1, <2>1
  <2> HIDE DEF out
  <2> QED BY <1>1, <1>4, <2>5, <2>7, <2>8, <2>9, TypedExactly
<1>8. CASE code # "@"
  <2>1. \/ written' = written \o Keys(code) /\ at' = at + 2 /\ status' = status
        \/ status' = "thrown" /\ at' = at /\ written' = written
    BY <1>8 DEF Command
  <2>2. Keys(code) \in Seq(Item({HostCharset}))
    BY KeyItems
  <2>3. Fine => Documented(code) = Keys(code)
    BY <1>3, <1>4 DEF Fine
  <2>4. Fine => Keys(code) \o M[n + 1 - (at + 2)] = M[n + 1 - at]
    BY <1>5, <1>6, <1>8, <2>3
  <2>5. status' \in {"running", "thrown"}
    BY <1>1, <2>1
  <2> QED BY <1>1, <1>4, <2>1, <2>2, <2>4, <2>5, TypedExactly
<1> QED BY <1>7, <1>8

LEMMA EndExact == ASSUME EInv, CommandAtEnd \/ Return PROVE ExactOK'
<1> DEFINE n == Len(text)
           M == Meanings(text, HostCharset)
<1>1. /\ status = "running" /\ status' = "returned" /\ at' = at
      /\ UNCHANGED <<kind, chosen, mine, converter, text>>
  BY DEF CommandAtEnd, Return
<1>2. text \in Seq(Char) /\ at \in 1..(n + 1) /\ n \in Nat
  BY TextTypes DEF EInv
<1>3. /\ HostCharset' = HostCharset /\ Fine' = Fine
      /\ Meaning(text, HostCharset)' = Meaning(text, HostCharset)
  BY <1>1 DEF HostCharset, Fine, Keys, Meaning, Meanings, Typed, Known, Ascii
<1>4. CASE CommandAtEnd
  <2>1. at = n /\ FirstControl = at /\ ControlsAhead # {}
    BY <1>4 DEF CommandAtEnd
  <2>2. FirstControl \in ControlsAhead
    <3>1. ControlsAhead \subseteq Nat
      BY <1>2 DEF ControlsAhead
    <3> QED BY <2>1, <3>1, LeastExists DEF FirstControl
  <2>3. text[at] = "@"
    BY <2>1, <2>2 DEF ControlsAhead
  <2>4. at' = Len(text)' /\ text[at]' = "@"
    BY <1>1, <2>1, <2>3
  <2> QED BY <1>1, <2>4 DEF ExactOK
<1>5. CASE Return
  <2>1. Rest = <<>> /\ written' = written
    BY <1>5 DEF Return
  <2>2. at = n + 1
    <3>1. at <= n => Len(Rest) = n - at + 1
      BY <1>2 DEF Rest
    <3>2. at <= n => Len(Rest) # 0
      BY <1>2, <3>1
    <3> HIDE DEF n
    <3> QED BY <1>2, <2>1, <3>2
  <2>3. chosen /\ converter.host # Closed /\ Fine => written = Meaning(text, HostCharset)
    <3>1. n + 1 - at = 0 /\ M[0] = <<>>
      <4>1. M[0] = <<>>
        BY <1>2, MeaningSteps
      <4> HIDE DEF n, M
      <4> QED BY <1>2, <2>2, <4>1
    <3>2. chosen => written \o <<>> = written
      BY ConcatEmptySeq DEF EInv, IInv
    <3> QED BY <1>1, <3>1, <3>2 DEF EInv, ExactOK, Whole
  <2> QED BY <1>1, <1>3, <2>1, <2>3 DEF ExactOK
<1> QED BY <1>4, <1>5

LEMMA BeginInputExact == ASSUME EInv, NEW str \in Texts, BeginInput(str) PROVE ExactOK'
<1>1. /\ text' = str /\ at' = 1 /\ status' = "running" /\ written' = <<>>
      /\ kind' = kind
  BY DEF BeginInput, EInv, IInv
<1>2. str \in Seq(Char) /\ Len(str) \in Nat
  BY TextsAssumption
<1>3. HostCharset' = HostCharset
  BY <1>1 DEF HostCharset
<1>4. Meanings(str, HostCharset)[Len(str)] \in Seq(Item({HostCharset}))
  BY <1>2, MeaningSteps
<1>5. Len(str) + 1 - 1 = Len(str)
  BY <1>2
<1>6. <<>> \o Meanings(str, HostCharset)[Len(str)] = Meanings(str, HostCharset)[Len(str)]
  BY <1>4, ConcatEmptySeq
<1>7. Whole' = <<>> \o Meanings(str, HostCharset)[Len(str) + 1 - 1]
  BY <1>1, <1>3 DEF Whole, Meanings, Typed, Ascii, Known
<1>8. Meaning(text, HostCharset)' = Meanings(str, HostCharset)[Len(str)]
  BY <1>1, <1>3 DEF Meaning, Meanings, Typed, Ascii, Known
<1> QED BY <1>1, <1>5, <1>6, <1>7, <1>8 DEF ExactOK

LEMMA InitEInv == Init => EInv
<1> SUFFICES ASSUME Init PROVE EInv
  OBVIOUS
<1>1. ~ chosen
  BY DEF Init
<1> QED BY <1>1, InitIInv DEF EInv, ExactOK

LEMMA NextEInv == EInv /\ [Next]_vars => EInv'
<1> SUFFICES ASSUME EInv, [Next]_vars PROVE EInv'
  OBVIOUS
<1>1. IInv'
  BY NextIInv DEF EInv
<1>2. ASSUME NEW k \in {"local", "remote"}, Open(k) PROVE ExactOK'
  <2>1. ~ chosen'
    BY <1>2 DEF Open, EInv, IInv
  <2> QED BY <2>1 DEF ExactOK
<1>3. ASSUME NEW charset \in Charset, SetCharSet(charset) PROVE ExactOK'
  <2>1. status' = "idle"
    BY <1>3 DEF SetCharSet
  <2> QED BY <2>1 DEF ExactOK
<1>4. ASSUME GoOn PROVE ExactOK'
  <2>1. status' = "idle"
    BY <1>4 DEF GoOn
  <2> QED BY <2>1 DEF ExactOK
<1>5. ASSUME UNCHANGED vars PROVE ExactOK'
  <2>1. UNCHANGED <<kind, chosen, mine, converter, text, at, status, written>>
    BY <1>5 DEF vars
  <2>2. HostCharset' = HostCharset /\ Fine' = Fine /\ Whole' = Whole
        /\ Meaning(text, HostCharset)' = Meaning(text, HostCharset)
    BY <2>1 DEF HostCharset, Fine, Keys, Whole, Meaning, Meanings, Typed, Known, Ascii
  <2> QED BY <2>1, <2>2 DEF EInv, ExactOK
<1>6. ExactOK'
  BY <1>2, <1>3, <1>5, <1>4, BeginInputExact, TypePieceExact, CommandExact, EndExact, TypeRestExact
     DEF Next
<1> QED BY <1>1, <1>6 DEF EInv

LEMMA PrefixOfSelf == ASSUME NEW S, NEW s \in Seq(S) PROVE IsPrefix(s, s)
  BY DEF IsPrefix

LEMMA PrefixOfMore == ASSUME NEW S, NEW s \in Seq(S), NEW t \in Seq(S) PROVE IsPrefix(s, s \o t)
<1> DEFINE u == s \o t
<1>1. /\ u \in Seq(S) /\ Len(u) = Len(s) + Len(t)
      /\ \A i \in 1..Len(s) : u[i] = s[i]
  OBVIOUS
<1>2. Len(s) \in Nat /\ Len(t) \in Nat
  OBVIOUS
<1> HIDE DEF u
<1>3. SubSeq(s, 1, Len(s)) = s
  BY SubSeqFull
<1>4. SubSeq(u, 1, Len(s)) = s
  <2>1. /\ SubSeq(u, 1, Len(s)) \in Seq(S) /\ Len(SubSeq(u, 1, Len(s))) = Len(s)
        /\ \A i \in 1..Len(s) : SubSeq(u, 1, Len(s))[i] = u[i]
    BY <1>1, <1>2
  <2> DEFINE v == SubSeq(u, 1, Len(s))
  <2> HIDE DEF v
  <2>2. v \in Seq(S) /\ Len(v) = Len(s) /\ \A i \in 1..Len(s) : v[i] = s[i]
    BY <1>1, <2>1 DEF v
  <2>3. v = s
    BY <2>2, SeqEqual
  <2> QED BY <2>3 DEF v
<1> QED BY <1>1, <1>2, <1>3, <1>4 DEF IsPrefix, u

-----------------------------------------------------------------------------
(* Theorems about input().                                                 *)

\* Every state is in order.
THEOREM Invariant == Spec => []IInv
<1>1. Init => IInv
  BY InitIInv
<1>2. IInv /\ [Next]_vars => IInv'
  BY NextIInv
<1> QED BY <1>1, <1>2, PTL DEF Spec

\* The place in the text never leaves it, and the converter is between charsets
\* that are known.
THEOREM TypeCorrect == Spec => []TypeOK
<1>1. IInv => TypeOK
  BY DEF IInv
<1> QED BY <1>1, Invariant, PTL

\* From setCharSet() on, whatever is typed is in the charset the other side expects;
\* or in the application's, all of it, if iconv could not be opened
\* (remote/session.cc, remote/set.cc, local/set.cc, session/set.cc).
THEOREM Agreed == Spec => []CharsetAgreed
<1>1. ASSUME IInv PROVE CharsetAgreed
  <2> SUFFICES ASSUME chosen, NEW i \in DOMAIN written
               PROVE  written[i].as \in {"any", Written}
    BY DEF CharsetAgreed, Written
  <2>1. written \in Seq(Item({Written}))
    BY <1>1 DEF IInv
  <2>2. DOMAIN written = 1..Len(written)
    BY <2>1
  <2>3. written[i] \in Item({Written})
    BY <2>1, <2>2, ElementOfSeq
  <2> QED BY <2>3 DEF Item
<1> QED BY <1>1, Invariant, PTL

\* With an open converter, input() has at every moment done the first part of what its text
\* stands for, in order and each once, and all of it when it returns (core/session.cc).
THEOREM DoneExactly == Spec => []InputExact
<1>1. ASSUME EInv PROVE InputExact
  <2> DEFINE M == Meanings(text, HostCharset)
             rest == M[Len(text) + 1 - at]
             all == Meaning(text, HostCharset)
  <2> SUFFICES ASSUME status # "idle", chosen, converter.host # Closed, Safe
               PROVE  IsPrefix(written, all) /\ (status = "returned" => written = all)
    BY DEF InputExact
  <2>1. Fine /\ ~ (at = Len(text) /\ text[at] = "@")
    BY DEF Safe, Fine
  <2>2. status \in {"running", "thrown", "returned"}
    BY <1>1 DEF EInv, IInv, TypeOK
  <2>3. text \in Seq(Char) /\ Len(text) + 1 - at \in 0..Len(text)
    BY <1>1, TextTypes DEF EInv
  <2>4. written \in Seq(Item({HostCharset})) /\ rest \in Seq(Item({HostCharset}))
    BY <1>1, <2>3, MeaningSteps DEF EInv, IInv, Written
  <2>5. status \in {"running", "thrown"} => all = written \o rest
    BY <1>1, <2>1 DEF EInv, ExactOK, Whole
  <2>6. status = "returned" => all = written
    BY <1>1, <2>1 DEF EInv, ExactOK
  <2> HIDE DEF rest, all
  <2>7. IsPrefix(written, written \o rest) /\ IsPrefix(written, written)
    BY <2>4, PrefixOfMore, PrefixOfSelf
  <2> QED BY <2>2, <2>5, <2>6, <2>7
<1>2. Spec => []EInv
  BY InitEInv, NextEInv, PTL DEF Spec
<1> QED BY <1>1, <1>2, PTL

-----------------------------------------------------------------------------
(* Integers and values popped from a response.                             *)

\* TwoTo is a power of two: a natural number that doubles.
LEMMA Powers ==
    /\ \A n \in 0..Long : TwoTo[n] \in Nat \ {0}
    /\ \A n \in 1..Long : TwoTo[n] = 2 * TwoTo[n - 1]
<1> DEFINE step == [k \in 1..Long |-> [v \in Nat \ {0} |-> 2 * v]]
           g == CHOOSE g : g = [bits \in 0..Long |-> IF bits = 0 THEN 1 ELSE 2 * g[bits - 1]]
<1>1. Long \in Nat
  BY WidthAssumption
<1>2. step \in [1..Long -> [Nat \ {0} -> Nat \ {0}]]
  OBVIOUS
<1>3. \A k \in 1..Long, v \in Nat \ {0} : step[k][v] = 2 * v
  OBVIOUS
<1> HIDE DEF step
<1>4. PICK f : Follows(f, Nat \ {0}, 1, step, Long)
  <2> DEFINE V == Nat \ {0}
  <2>1. 1 \in V /\ step \in [1..Long -> [V -> V]]
    BY <1>2
  <2> HIDE DEF V
  <2>2. \E f : Follows(f, V, 1, step, Long)
    BY <1>1, <2>1, RecursionExists
  <2> QED BY <2>2 DEF V
<1>5. f = [bits \in 0..Long |-> IF bits = 0 THEN 1 ELSE 2 * f[bits - 1]]
  <2>1. \A k \in 1..Long : f[k - 1] \in Nat \ {0}
    BY <1>1, <1>4 DEF Follows
  <2>2. \A k \in 1..Long : f[k] = 2 * f[k - 1]
    BY <1>3, <1>4, <2>1 DEF Follows
  <2>3. f[0] = 1 /\ f = [k \in 0..Long |-> f[k]]
    BY <1>4 DEF Follows
  <2>4. \A k \in 0..Long : k = 0 \/ k \in 1..Long
    BY <1>1
  <2>5. \A k \in 0..Long : f[k] = IF k = 0 THEN 1 ELSE 2 * f[k - 1]
    BY <2>2, <2>3, <2>4
  <2> QED BY <2>3, <2>5
<1>6. g = [bits \in 0..Long |-> IF bits = 0 THEN 1 ELSE 2 * g[bits - 1]]
  BY <1>5
<1>7. TwoTo = g
  BY DEF TwoTo
<1> HIDE DEF g
<1>8. \A k \in 0..Long : g[k] \in Nat \ {0}
  <2> DEFINE P == {k \in 0..Long : g[k] \in Nat \ {0}}
  <2>1. 0 \in P /\ \A k \in 1..Long : k - 1 \in P => k \in P
    BY <1>1, <1>6
  <2> HIDE DEF P
  <2>2. \A k \in 0..Long : k \in P
    BY <1>1, <2>1, Induction
  <2> QED BY <2>2 DEF P
<1> QED BY <1>1, <1>6, <1>7, <1>8

-----------------------------------------------------------------------------

Arguments ==
    {argument \in [type : DOMAIN Values, value : Int, variant : BOOLEAN] :
         argument.value \in Values[argument.type]}

\* An argument takes a byte or more, besides that of its type.
LEMMA SomeBytes == ASSUME NEW argument \in Arguments PROVE Size(argument) \in Nat \ {0}
<1>1. argument.type = "string" => argument.value \in Nat
  BY DEF Arguments, Values
<1>2. argument.type \in {"bool", "int16", "uint16", "int32", "uint32", "int64", "uint64", "string"}
  BY DEF Arguments, Values
<1> QED BY <1>1, <1>2 DEF Size

\* The offset of an argument is behind that of the one before it.
LEMMA Offsets ==
    ASSUME response \in Seq(Arguments)
    PROVE  /\ Offset(1) = 0
           /\ \A i \in 1..(Len(response) + 1) : Offset(i) \in Nat
           /\ \A i \in 1..Len(response) :
                  Offset(i + 1) = Offset(i) + 1 + Size(response[i])
<1> DEFINE n == Len(response)
           step == [k \in 1..n |-> [v \in Nat |-> v + 1 + Size(response[k])]]
           g == CHOOSE g : g = [k \in 0..Len(response) |->
                    IF k = 0 THEN 0 ELSE g[k - 1] + 1 + Size(response[k])]
<1>1. n \in Nat /\ \A k \in 1..n : Size(response[k]) \in Nat
  BY SomeBytes
<1>2. step \in [1..n -> [Nat -> Nat]]
  <2> HIDE DEF n
  <2> QED BY <1>1
<1>3. \A k \in 1..n, v \in Nat : step[k][v] = v + 1 + Size(response[k])
  OBVIOUS
<1> HIDE DEF step
<1>4. PICK f : Follows(f, Nat, 0, step, n)
  BY <1>1, <1>2, RecursionExists
<1>5. f = [k \in 0..Len(response) |-> IF k = 0 THEN 0 ELSE f[k - 1] + 1 + Size(response[k])]
  <2> HIDE DEF g
  <2>1. f \in [0..n -> Nat] /\ f[0] = 0 /\ \A k \in 1..n : f[k] = step[k][f[k - 1]]
    BY <1>4 DEF Follows
  <2>2. \A k \in 1..n : k - 1 \in 0..n
    BY <1>1
  <2>3. \A k \in 0..n : k = 0 \/ k \in 1..n
    BY <1>1
  <2> HIDE DEF n
  <2>4. \A k \in 1..n : f[k] = f[k - 1] + 1 + Size(response[k])
    BY <1>3, <2>1, <2>2
  <2>5. f[0] = 0 /\ f = [k \in 0..n |-> f[k]]
    BY <2>1
  <2>6. \A k \in 0..n : f[k] = IF k = 0 THEN 0 ELSE f[k - 1] + 1 + Size(response[k])
    BY <2>4, <2>5, <2>3
  <2>7. f = [k \in 0..n |-> IF k = 0 THEN 0 ELSE f[k - 1] + 1 + Size(response[k])]
    BY <2>5, <2>6
  <2> QED BY <2>7 DEF n
<1>6. g = [k \in 0..Len(response) |-> IF k = 0 THEN 0 ELSE g[k - 1] + 1 + Size(response[k])]
  BY <1>5
<1>7. \A i : Offset(i) = g[i - 1]
  BY DEF Offset
<1> HIDE DEF g
<1>8. g[0] = 0 /\ \A k \in 1..n : g[k] = g[k - 1] + 1 + Size(response[k])
  <2>1. 0 \in 0..n /\ \A k \in 1..n : k \in 0..n /\ k # 0
    BY <1>1
  <2>2. \A k \in 0..n : g[k] = IF k = 0 THEN 0 ELSE g[k - 1] + 1 + Size(response[k])
    BY <1>6
  <2> HIDE DEF n
  <2> QED BY <2>1, <2>2
<1>9. \A k \in 0..n : g[k] \in Nat
  <2> DEFINE P == {k \in 0..n : g[k] \in Nat}
  <2>1. 0 \in P /\ \A k \in 1..n : k - 1 \in P => k \in P
    <3>1. \A k \in 1..n : k \in 0..n
      BY <1>1
    <3>2. 0 \in P
      BY <1>1, <1>8
    <3>3. ASSUME NEW k \in 1..n, g[k - 1] \in Nat PROVE g[k] \in Nat
      <4>1. Size(response[k]) \in Nat /\ g[k] = g[k - 1] + 1 + Size(response[k])
        BY <1>1, <1>8
      <4> QED BY <3>3, <4>1
    <3> HIDE DEF n
    <3> QED BY <3>1, <3>2, <3>3
  <2> HIDE DEF P, n
  <2>2. \A k \in 0..n : k \in P
    BY <1>1, <2>1, Induction
  <2> QED BY <2>2 DEF P
<1>10. Offset(1) = 0
  BY <1>1, <1>8, <1>7
<1>11. \A i \in 1..(n + 1) : i - 1 \in 0..n
  BY <1>1
<1>12. \A i \in 1..n : Offset(i + 1) = Offset(i) + 1 + Size(response[i])
  <2> SUFFICES ASSUME NEW i \in 1..n
               PROVE  Offset(i + 1) = Offset(i) + 1 + Size(response[i])
    OBVIOUS
  <2>1. (i + 1) - 1 = i /\ i \in 0..n /\ i # 0
    BY <1>1
  <2>2. g[i] = g[i - 1] + 1 + Size(response[i])
    BY <1>8
  <2> QED BY <1>7, <2>1, <2>2
<1> QED BY <1>7, <1>9, <1>10, <1>11, <1>12

LEMMA OffsetsIncrease ==
    ASSUME response \in Seq(Arguments)
    PROVE  \A i, j \in 1..(Len(response) + 1) : i < j => Offset(i) + 2 <= Offset(j)
<1> SUFFICES ASSUME NEW i \in 1..(Len(response) + 1)
             PROVE  \A j \in 1..(Len(response) + 1) : i < j => Offset(i) + 2 <= Offset(j)
  OBVIOUS
<1> DEFINE n == Len(response)
           P == {k \in 0..n : i < k + 1 => Offset(i) + 2 <= Offset(k + 1)}
<1>1. n \in Nat
  OBVIOUS
<1>2. 0 \in P
  BY <1>1
<1>3. ASSUME NEW k \in 1..n, k - 1 \in P PROVE k \in P
  <2>1. (k - 1) + 1 = k /\ k \in 0..n /\ k \in 1..(n + 1)
    BY <1>1
  <2>2. i < k => Offset(i) + 2 <= Offset(k)
    BY <1>3, <2>1
  <2>3. Offset(k + 1) = Offset(k) + 1 + Size(response[k]) /\ Offset(k) \in Nat
    BY <2>1, Offsets
  <2>4. Offset(i) \in Nat
    BY Offsets
  <2>5. Size(response[k]) \in Nat \ {0}
    BY SomeBytes
  <2>6. i < k + 1 => i < k \/ i = k
    BY <1>1
  <2>7. i < k + 1 => Offset(i) + 2 <= Offset(k + 1)
    BY <2>2, <2>3, <2>4, <2>5, <2>6
  <2> QED BY <2>1, <2>7
<1> HIDE DEF P
<1>4. \A k \in 0..n : k \in P
  BY <1>1, <1>2, <1>3, Induction
<1>5. ASSUME NEW j \in 1..(n + 1), i < j PROVE Offset(i) + 2 <= Offset(j)
  <2>1. j - 1 \in 0..n /\ (j - 1) + 1 = j
    BY <1>1
  <2> QED BY <1>4, <1>5, <2>1 DEF P
<1> QED BY <1>5

\* What a pop() makes of a value: one of its own range, and the value itself if it is
\* in that range.
LEMMA AsFits ==
    ASSUME NEW value \in Int
    PROVE  /\ As("int", value) \in Signed(Word)
           /\ As("unsigned", value) \in Unsigned(Word)
           /\ value \in Signed(Word) => As("int", value) = value
           /\ value \in Unsigned(Word) => As("unsigned", value) = value
<1> DEFINE m == TwoTo[Word]
           h == TwoTo[Word - 1]
<1>1. Word \in 1..Long /\ Word \in 0..Long /\ Word - 1 \in 0..Long
  BY WidthAssumption
<1>2. m \in Nat \ {0} /\ h \in Nat \ {0} /\ m = 2 * h
  BY <1>1, Powers
<1>3. /\ As("int", value) = ((value + h) % m) - h
      /\ As("unsigned", value) = value % m
      /\ Signed(Word) = (- h)..(h - 1)
      /\ Unsigned(Word) = 0..(m - 1)
  BY DEF As, Signed, Unsigned
<1> HIDE DEF m, h
<1>4. \A v \in Int : v % m \in 0..(m - 1) /\ (v \in 0..(m - 1) => v % m = v)
  BY <1>2
<1>5. value + h \in Int /\ (value \in (- h)..(h - 1) => value + h \in 0..(m - 1))
  BY <1>2
<1>6. As("int", value) \in (- h)..(h - 1)
  <2>1. (value + h) % m \in 0..(m - 1)
    BY <1>4, <1>5
  <2> QED BY <1>2, <1>3, <2>1
<1>7. value \in (- h)..(h - 1) => ((value + h) % m) - h = value
  <2> SUFFICES ASSUME value \in (- h)..(h - 1) PROVE ((value + h) % m) - h = value
    OBVIOUS
  <2>1. (value + h) % m = value + h
    BY <1>4, <1>5
  <2> QED BY <1>2, <2>1
<1> QED BY <1>3, <1>4, <1>6, <1>7

\* Fits, kind by kind.
LEMMA FitsIs ==
    ASSUME NEW argument
    PROVE  /\ Fits("int", argument) <=> argument.value \in Signed(Word)
           /\ Fits("unsigned", argument) <=> argument.value \in Unsigned(Word)
           /\ Fits("string", argument) <=> argument.type = "string"
  BY DEF Fits

Popping == [kind : Kinds, value : Int]

\* The place of the next argument follows from how many values were popped: on a pipe
\* always, on D-Bus as long as all of them were strings.
PlaceOK ==
    /\ transport = "none" => got = <<>>
    /\ transport = "pipe" => Len(got) <= Len(response) /\ place = Offset(Len(got) + 1)
    /\ transport = "dbus" =>
           /\ place \in 1..(Len(response) + 1)
           /\ (\A j \in DOMAIN got : got[j].kind = "string") => place = Len(got) + 1

PoppedOK ==
    /\ PopTypeOK
    /\ response \in Seq(Arguments)
    /\ got \in Seq(Popping)
    /\ PlaceOK
    /\ ReadInOrder

LEMMA InitPopped == PopInit => PoppedOK
<1> SUFFICES ASSUME PopInit PROVE PoppedOK
  OBVIOUS
<1>1. transport = "none" /\ response = <<>> /\ place = 0 /\ got = <<>> /\ reading = "reading"
  BY DEF PopInit
<1>2. <<>> \in Seq(Arguments) /\ <<>> \in Seq(Popping) /\ DOMAIN <<>> = {}
  BY EmptySeq
<1>3. PopTypeOK
  BY <1>1, <1>2 DEF PopTypeOK
<1>4. ReadInOrder
  BY <1>1, <1>2 DEF ReadInOrder
<1>5. PlaceOK
  BY <1>1 DEF PlaceOK
<1> QED BY <1>1, <1>2, <1>3, <1>4, <1>5 DEF PoppedOK

\* The first argument is at the beginning, of the next response too.
LEMMA FirstOffset == response \in Seq(Arguments) => Offset(1) = 0
  BY Offsets

LEMMA NextFirstOffset == (response \in Seq(Arguments) => Offset(1) = 0)'
  BY FirstOffset, PTL

LEMMA ReceivePopped ==
    ASSUME PoppedOK, NEW t \in {"dbus", "pipe"}, NEW arguments \in Responses,
           Receive(t, arguments)
    PROVE  PoppedOK'
<1>1. got = <<>> /\ got' = <<>> /\ reading' = reading /\ transport' = t /\ response' = arguments
  BY DEF PoppedOK, PlaceOK, Receive
<1>2. place' = IF t = "dbus" THEN 1 ELSE 0
  BY DEF Receive
<1>3. arguments \in Seq(Arguments)
  BY ResponsesAssumption DEF Arguments
<1>4. Len(arguments) \in Nat
  BY <1>3
<1>5. PopTypeOK'
  BY <1>1, <1>2, <1>4 DEF PoppedOK, PopTypeOK
<1>6. ReadInOrder'
  BY <1>1 DEF ReadInOrder
<1>7. t = "pipe" => place' = Offset(1)'
  <2>1. (response \in Seq(Arguments))'
    BY <1>1, <1>3 DEF Arguments, Values
  <2>2. Offset(1)' = 0
    BY <2>1, NextFirstOffset
  <2> QED BY <1>2, <2>2
<1>8. PlaceOK'
  BY <1>1, <1>2, <1>4, <1>7 DEF PlaceOK
<1> QED BY <1>1, <1>3, <1>5, <1>6, <1>8 DEF PoppedOK

Strings == \A j \in DOMAIN got : got[j].kind = "string"

\* One more value: it is the next one of the response wherever the place is known.
LEMMA OneMorePopped ==
    ASSUME PoppedOK, NEW asked \in Kinds, NEW value \in Int,
           Popped(asked, value), transport # "none",
           UNCHANGED <<transport, response, reading>>,
           transport = "pipe" => place' = Offset(Len(got) + 2),
           transport = "dbus" => /\ place' \in 1..(Len(response) + 1)
                                 /\ Strings /\ asked = "string" => place' = Len(got) + 2,
           place' \in Nat,
           transport = "pipe" \/ Strings =>
               /\ Len(got) + 1 <= Len(response)
               /\ Fits(asked, response[Len(got) + 1]) => value = response[Len(got) + 1].value
    PROVE  PoppedOK'
<1> DEFINE n == Len(got)
           last == [kind |-> asked, value |-> As(asked, value)]
<1>1. n \in Nat /\ DOMAIN got = 1..n /\ Len(response) \in Nat
  BY DEF PoppedOK
<1>2. As(asked, value) \in Int
  <2>1. Signed(Word) \subseteq Int /\ Unsigned(Word) \subseteq Int
    <3>1. TwoTo[Word] \in Int /\ TwoTo[Word - 1] \in Int
      BY Powers, WidthAssumption
    <3> QED BY <3>1 DEF Signed, Unsigned
  <2>2. asked \in {"bool", "string"} => As(asked, value) \in Int
    BY DEF As
  <2> QED BY <2>1, <2>2, AsFits DEF Kinds
<1>3. got' = Append(got, last) /\ last \in Popping
  BY <1>2 DEF Popped, Popping
<1>4. /\ got' \in Seq(Popping) /\ Len(got') = n + 1 /\ DOMAIN got' = 1..(n + 1)
      /\ \A i \in 1..n : got'[i] = got[i]
      /\ got'[n + 1] = last
  <2> HIDE DEF last
  <2> QED BY <1>1, <1>3 DEF PoppedOK
<1>5. \A i \in 1..(n + 1) : i \in 1..n \/ i = n + 1
  BY <1>1
<1>6. last.kind = asked /\ last.value = As(asked, value)
  OBVIOUS
<1> HIDE DEF last
<1>7. PopTypeOK'
  <2>1. /\ transport \in {"none", "dbus", "pipe"}
        /\ response \in Responses \cup {<<>>}
        /\ reading \in {"reading", "thrown", "cursor"}
    BY DEF PoppedOK, PopTypeOK
  <2>2. ASSUME NEW i \in 1..(n + 1)
        PROVE  /\ got'[i].kind \in Kinds
               /\ got'[i].kind = "int" => got'[i].value \in Signed(Word)
               /\ got'[i].kind = "unsigned" => got'[i].value \in Unsigned(Word)
    <3>1. CASE i \in 1..n
      BY <1>1, <1>4, <3>1 DEF PoppedOK, PopTypeOK
    <3>2. CASE i = n + 1
      BY <1>4, <1>6, <3>2, AsFits
    <3> QED BY <1>5, <3>1, <3>2
  <2> QED BY <1>4, <2>1, <2>2 DEF PopTypeOK
<1>8. PlaceOK'
  <2>1. transport = "pipe" => Len(got') <= Len(response) /\ place' = Offset(Len(got') + 1)
    <3>1. n + 2 = (n + 1) + 1
      BY <1>1
    <3> QED BY <1>4, <3>1
  <2>3. (\A j \in DOMAIN got' : got'[j].kind = "string") => Strings /\ asked = "string"
    BY <1>1, <1>4, <1>6 DEF Strings
  <2>4. n + 2 = (n + 1) + 1
    BY <1>1
  <2>5. transport' # "none" /\ transport' = transport /\ response' = response
    OBVIOUS
  <2>6. transport' = "pipe" => Len(got') <= Len(response') /\ place' = (Offset(Len(got) + 1))'
    <3>1. (Offset(Len(got) + 1))' = Offset(Len(got') + 1)
      BY DEF Offset
    <3> QED BY <2>1, <3>1
  <2>7. transport' = "dbus" =>
            /\ place' \in 1..(Len(response') + 1)
            /\ (\A j \in DOMAIN got' : got'[j].kind = "string") => place' = Len(got') + 1
    BY <1>1, <1>4, <2>3, <2>4, <2>5
  <2> HIDE DEF n
  <2> QED BY <2>5, <2>6, <2>7 DEF PlaceOK
<1>9. ReadInOrder'
  <2> SUFFICES ASSUME NEW i \in 1..(n + 1),
                      transport = "pipe" \/ \A j \in 1..(i - 1) : got'[j].kind = "string"
               PROVE  /\ i <= Len(response)
                      /\ Fits(got'[i].kind, response[i]) =>
                            got'[i].value = IF got'[i].kind = "bool"
                                            THEN (IF response[i].value = 0 THEN 0 ELSE 1)
                                            ELSE response[i].value
    BY <1>4 DEF ReadInOrder, Fits
  <2>1. CASE i \in 1..n
    <3>1. \A j \in 1..(i - 1) : j \in 1..n /\ got'[j] = got[j]
      BY <1>1, <1>4, <2>1
    <3>2. got'[i] = got[i] /\ i \in DOMAIN got
      BY <1>1, <1>4, <2>1
    <3>3. transport = "pipe" \/ \A j \in 1..(i - 1) : got[j].kind = "string"
      BY <3>1
    <3> QED BY <3>2, <3>3 DEF PoppedOK, ReadInOrder
  <2>2. CASE i = n + 1
    <3>1. (n + 1) - 1 = n
      BY <1>1
    <3>2. transport = "pipe" \/ Strings
      BY <1>1, <1>4, <2>2, <3>1 DEF Strings
    <3>3. i <= Len(response) /\ (Fits(asked, response[i]) => value = response[i].value)
      BY <2>2, <3>2
    <3>4. Fits(asked, response[i]) =>
              As(asked, value) = IF asked = "bool" THEN (IF value = 0 THEN 0 ELSE 1) ELSE value
      <4>1. Fits(asked, response[i]) /\ asked \in {"int", "unsigned"} => As(asked, value) = value
        <5>1. CASE asked = "int"
          BY <3>3, <5>1, AsFits, FitsIs
        <5>2. CASE asked = "unsigned"
          BY <3>3, <5>2, AsFits, FitsIs
        <5> QED BY <5>1, <5>2
      <4>2. asked = "bool" => As(asked, value) = IF value = 0 THEN 0 ELSE 1
        BY DEF As
      <4>3. asked = "string" => As(asked, value) = value
        BY DEF As
      <4> QED BY <4>1, <4>2, <4>3 DEF Kinds
    <3> QED BY <1>4, <1>6, <2>2, <3>3, <3>4
  <2> QED BY <1>5, <2>1, <2>2
<1>10. (response \in Seq(Arguments))'
  BY DEF PoppedOK, Arguments
<1> QED BY <1>4, <1>7, <1>8, <1>9, <1>10 DEF PoppedOK, Popping

\* A pop() that throws.
LEMMA ThrowPopped ==
    ASSUME PoppedOK, PopThrow, UNCHANGED <<transport, response>> PROVE PoppedOK'
<1>1. reading' = "thrown" /\ place' = place /\ got' = got
  BY DEF PopThrow
<1>2. \A i : Offset(i)' = Offset(i)
  BY DEF Offset
<1>3. PlaceOK'
  BY <1>1, <1>2 DEF PoppedOK, PlaceOK
<1>4. PopTypeOK' /\ ReadInOrder'
  BY <1>1 DEF PoppedOK, PopTypeOK, ReadInOrder, Fits
<1> QED BY <1>1, <1>3, <1>4 DEF PoppedOK, Arguments, Popping

LEMMA DBusPopPopped ==
    ASSUME PoppedOK, NEW asked \in Kinds, transport = "dbus",
           DBusPop(asked), UNCHANGED <<transport, response>>
    PROVE  PoppedOK'
<1> DEFINE values == IF place > Len(response) THEN {} ELSE DBusValue(asked, response[place])
<1>1. CASE PopThrow
  BY <1>1, ThrowPopped
<1>2. CASE ~ PopThrow
  <2>1. PICK value \in values : Popped(asked, value)
    BY <1>2 DEF DBusPop
  <2>2. place' = DBusNext(asked) /\ reading' = reading
    BY <1>2 DEF DBusPop
  <2>3. place \in 1..Len(response) /\ Len(response) \in Nat
    BY <2>1 DEF PoppedOK, PlaceOK
  <2>4. value \in DBusValue(asked, response[place])
    BY <2>1, <2>3
  <2>5. response[place] \in Arguments
    BY <2>3 DEF PoppedOK
  <2>6. /\ value \in Int
        /\ Fits(asked, response[place]) => value = response[place].value
    <3>1. response[place].value \in Int
      BY <2>5 DEF Arguments
    <3>2. \/ value = response[place].value
          \/ value = 0 /\ asked = "string" /\ response[place].type # "string"
      BY <2>4 DEF DBusValue, DBusTypes, DBusString
    <3> QED BY <3>1, <3>2, FitsIs
  <2>7. /\ place' \in 1..(Len(response) + 1)
        /\ asked = "string" => place' = place + 1
    BY <2>2, <2>3 DEF DBusNext
  <2>8. Strings => place = Len(got) + 1
    BY DEF PoppedOK, PlaceOK, Strings
  <2>9. Len(got) \in Nat
    BY DEF PoppedOK
  <2> HIDE DEF values
  <2> QED BY <2>1, <2>2, <2>3, <2>6, <2>7, <2>8, <2>9, OneMorePopped
<1> QED BY <1>1, <1>2

LEMMA PipePopPopped ==
    ASSUME PoppedOK, NEW asked \in Kinds, transport = "pipe",
           PipePop(asked), UNCHANGED <<transport, response>>
    PROVE  PoppedOK'
<1> DEFINE n == Len(got)
           here == {i \in DOMAIN response : Offset(i) = place}
<1>1. n \in Nat /\ Len(response) \in Nat /\ n <= Len(response) /\ DOMAIN response = 1..Len(response)
      /\ place = Offset(n + 1)
  BY DEF PoppedOK, PlaceOK
<1>2. CASE PopThrow
  BY <1>2, ThrowPopped
<1>3. CASE ~ PopThrow
  <2>1. ~ PipeAtEnd
    BY <1>3 DEF PipePop
  <2>2. n # Len(response)
    <3>1. n = Len(response) => place = Offset(Len(response) + 1) /\ place \in Nat
      BY <1>1 DEF PoppedOK, PopTypeOK
    <3> QED BY <2>1, <3>1 DEF PipeAtEnd
  <2>3. n + 1 \in 1..Len(response) /\ n + 1 \in 1..(Len(response) + 1)
    BY <1>1, <2>2
  <2>4. here = {n + 1}
    <3>1. n + 1 \in here
      BY <1>1, <2>3
    <3>2. ASSUME NEW i \in here PROVE i = n + 1
      <4>1. i \in 1..(Len(response) + 1) /\ Offset(i) = Offset(n + 1) /\ Offset(i) \in Nat
        <5>1. i \in 1..(Len(response) + 1)
          BY <1>1
        <5> QED BY <1>1, <5>1, Offsets DEF PoppedOK
      <4>2. (i < n + 1 => Offset(i) + 2 <= Offset(n + 1))
            /\ (n + 1 < i => Offset(n + 1) + 2 <= Offset(i))
        BY <2>3, <4>1, OffsetsIncrease DEF PoppedOK
      <4>3. ~ (i < n + 1) /\ ~ (n + 1 < i)
        BY <4>1, <4>2
      <4> QED BY <1>1, <4>1, <4>3
    <3> QED BY <3>1, <3>2
  <2>5. /\ Popped(asked, response[n + 1].value)
        /\ place' = PipeNext(response[n + 1])
        /\ reading' = reading
    <3>1. PICK i \in (IF here = {} THEN DOMAIN response ELSE here) :
              /\ Popped(asked, response[i].value)
              /\ place' = PipeNext(response[i])
              /\ reading' = reading
      BY <1>3 DEF PipePop
    <3>2. i = n + 1
      <4> HIDE DEF here
      <4> QED BY <2>4, <3>1
    <3> QED BY <3>1, <3>2
  <2>6. place' = Offset(n + 2) /\ place' \in Nat
    <3>1. n + 2 = (n + 1) + 1 /\ n + 2 \in 1..(Len(response) + 1)
      BY <1>1, <2>3
    <3>2. Offset(n + 2) = Offset(n + 1) + 1 + Size(response[n + 1]) /\ Offset(n + 2) \in Nat
      BY <2>3, <3>1, Offsets DEF PoppedOK
    <3> QED BY <1>1, <2>5, <3>2 DEF PipeNext
  <2>7. response[n + 1].value \in Int
    <3>1. response[n + 1] \in Arguments
      BY <2>3 DEF PoppedOK
    <3> QED BY <3>1 DEF Arguments
  <2> HIDE DEF here
  <2> QED BY <1>1, <2>3, <2>5, <2>6, <2>7, OneMorePopped
<1> QED BY <1>2, <1>3

LEMMA NextPopped ==
    ASSUME PoppedOK, [PopNext]_popVars PROVE PoppedOK'
<1>1. CASE \E t \in {"dbus", "pipe"}, arguments \in Responses : Receive(t, arguments)
  BY <1>1, ReceivePopped
<1>2. CASE \E asked \in Kinds : Len(got) <= Len(response) /\ Pop(asked)
  <2>1. PICK asked \in Kinds : Pop(asked)
    BY <1>2
  <2>2. UNCHANGED <<transport, response>>
    BY <2>1 DEF Pop
  <2>3. (transport = "dbus" /\ DBusPop(asked)) \/ (transport = "pipe" /\ PipePop(asked))
    BY <2>1 DEF Pop
  <2> QED BY <2>2, <2>3, DBusPopPopped, PipePopPopped
<1>3. CASE GetCursorPosition \/ UNCHANGED popVars
  <2>1. UNCHANGED <<transport, response, place, got>> /\ reading' \in {reading, "cursor"}
    BY <1>3 DEF GetCursorPosition, popVars
  <2>2. PlaceOK'
    BY <2>1 DEF PoppedOK, PlaceOK, Offset
  <2>3. PopTypeOK'
    BY <2>1 DEF PoppedOK, PopTypeOK
  <2>4. ReadInOrder'
    BY <2>1 DEF PoppedOK, ReadInOrder, Fits
  <2> QED BY <2>1, <2>2, <2>3, <2>4 DEF PoppedOK, Arguments, Popping
<1> QED BY <1>1, <1>2, <1>3 DEF PopNext

\* PoppedOK is an inductive invariant.
THEOREM PopInvariant == PopSpec => []PoppedOK
<1>1. PoppedOK /\ [PopNext]_popVars => PoppedOK'
  BY NextPopped
<1> QED BY <1>1, InitPopped, PTL DEF PopSpec

\* What pops return has the width and the sign of its type.
THEOREM PopTypes == PopSpec => []PopTypeOK
<1>1. PoppedOK => PopTypeOK
  BY DEF PoppedOK
<1> QED BY <1>1, PopInvariant, PTL

\* The values popped are those of the response, in its order and each once
\* (linux/request.cc, windows/pop.cc): on D-Bus up to the first pop() that stays.
THEOREM ReadsInOrder == PopSpec => []ReadInOrder
<1>1. PoppedOK => ReadInOrder
  BY DEF PoppedOK
<1> QED BY <1>1, PopInvariant, PTL

\* On a pipe no pop() takes the inside of a value for another value (windows/pop.cc).
THEOREM AlwaysOnArgument == PopSpec => []OnArgument
<1>1. PoppedOK => OnArgument
  <2> SUFFICES ASSUME PoppedOK, transport = "pipe"
               PROVE  \E i \in 1..(Len(response) + 1) : place = Offset(i)
    BY DEF OnArgument
  <2>1. Len(got) + 1 \in 1..(Len(response) + 1) /\ place = Offset(Len(got) + 1)
    BY DEF PoppedOK, PlaceOK
  <2> QED BY <2>1
<1> QED BY <1>1, PopInvariant, PTL

-----------------------------------------------------------------------------
(* Bytes of texts on the screen.                                           *)

\* FlattenSeq puts one sequence after the other.
LEMMA Flattened ==
    ASSUME NEW A, NEW seqs \in Seq(Seq(A)), seqs # <<>>
    PROVE  \E f \in [1..Len(seqs) -> Seq(A)] :
               /\ f[1] = seqs[1]
               /\ \A i \in 2..Len(seqs) : f[i] = f[i - 1] \o seqs[i]
               /\ FlattenSeq(seqs) = f[Len(seqs)]
<1> DEFINE n == Len(seqs)
           V == Seq(A)
           step == [k \in 1..(n - 1) |-> [v \in V |-> v \o seqs[k + 1]]]
           Is(g) == g = [i \in 1..Len(seqs) |-> IF i = 1 THEN seqs[i] ELSE g[i - 1] \o seqs[i]]
           g == CHOOSE g : Is(g)
<1>1. n \in Nat \ {0} /\ n - 1 \in Nat /\ \A i \in 1..n : seqs[i] \in V
  BY EmptySeq
<1>2. \A v, w \in V : v \o w \in V
  BY Appended
<1>3. FlattenSeq(seqs) = g[n]
  BY <1>1 DEF FlattenSeq
<1> HIDE DEF V
<1>4. \A k \in 1..(n - 1), v \in V : step[k][v] = v \o seqs[k + 1] /\ step[k][v] \in V
  <2>1. \A k \in 1..(n - 1) : k + 1 \in 1..n
    BY <1>1
  <2> HIDE DEF n
  <2> QED BY <1>1, <1>2, <2>1
<1>5. step \in [1..(n - 1) -> [V -> V]]
  <2>1. \A k \in 1..(n - 1) : step[k] \in [V -> V]
    BY <1>4
  <2> HIDE DEF n
  <2> QED BY <2>1
<1> HIDE DEF step
<1>6. PICK h : Follows(h, V, seqs[1], step, n - 1)
  <2>1. seqs[1] \in V
    BY <1>1
  <2> HIDE DEF n
  <2> QED BY <1>1, <1>5, <2>1, RecursionExists
<1>7. \E x : Is(x)
  <2> DEFINE f == [i \in 1..n |-> h[i - 1]]
  <2>1. /\ h \in [0..(n - 1) -> V] /\ h[0] = seqs[1]
        /\ \A k \in 1..(n - 1) : h[k] = step[k][h[k - 1]]
    BY <1>6 DEF Follows
  <2> HIDE DEF n
  <2>2. ASSUME NEW i \in 2..n PROVE f[i] = f[i - 1] \o seqs[i]
    <3>1. /\ i - 1 \in 1..(n - 1) /\ (i - 1) - 1 \in 0..(n - 1) /\ (i - 1) + 1 = i
          /\ i \in 1..n /\ i - 1 \in 1..n
      BY <1>1
    <3>2. h[(i - 1) - 1] \in V
      BY <2>1, <3>1
    <3>3. h[i - 1] = h[(i - 1) - 1] \o seqs[i]
      BY <1>4, <2>1, <3>1, <3>2
    <3> QED BY <3>1, <3>3
  <2>3. f[1] = seqs[1]
    <3>1. 1 \in 1..n /\ 1 - 1 = 0
      BY <1>1
    <3> QED BY <2>1, <3>1
  <2>4. f = [i \in 1..n |-> f[i]]
    OBVIOUS
  <2>5. \A i \in 1..n : i = 1 \/ i \in 2..n
    BY <1>1
  <2> HIDE DEF f
  <2>6. \A i \in 1..n : f[i] = IF i = 1 THEN seqs[i] ELSE f[i - 1] \o seqs[i]
    BY <2>2, <2>3, <2>5
  <2>7. f = [i \in 1..n |-> IF i = 1 THEN seqs[i] ELSE f[i - 1] \o seqs[i]]
    BY <2>4, <2>6
  <2> QED BY <2>7 DEF n
<1> HIDE DEF Is
<1>8. Is(g)
  BY <1>7
<1> HIDE DEF g
<1>9. g = [i \in 1..n |-> IF i = 1 THEN seqs[i] ELSE g[i - 1] \o seqs[i]]
  BY <1>8 DEF Is
<1> HIDE DEF n
<1>10. g[1] = seqs[1] /\ \A i \in 2..n : g[i] = g[i - 1] \o seqs[i]
  <2>1. 1 \in 1..n /\ \A i \in 2..n : i \in 1..n /\ i # 1
    BY <1>1
  <2> QED BY <1>9, <2>1
<1>11. \A i \in 1..n : g[i] \in V
  <2> DEFINE P == {k \in 0..(n - 1) : g[k + 1] \in V}
  <2>1. 0 \in P
    <3>1. 0 + 1 = 1 /\ 1 \in 1..n /\ 0 \in 0..(n - 1)
      BY <1>1
    <3> QED BY <1>1, <1>10, <3>1
  <2>2. ASSUME NEW k \in 1..(n - 1), k - 1 \in P PROVE k \in P
    <3>1. (k - 1) + 1 = k /\ k + 1 \in 2..n /\ k + 1 \in 1..n /\ (k + 1) - 1 = k /\ k \in 0..(n - 1)
      BY <1>1
    <3>2. g[k] \in V /\ seqs[k + 1] \in V
      BY <1>1, <2>2, <3>1
    <3>3. g[k + 1] = g[k] \o seqs[k + 1]
      BY <1>10, <3>1
    <3>4. g[k + 1] \in V
      BY <1>2, <3>2, <3>3
    <3> QED BY <3>1, <3>4
  <2> HIDE DEF P
  <2>3. \A k \in 0..(n - 1) : k \in P
    BY <1>1, <2>1, <2>2, Induction
  <2>4. \A i \in 1..n : i - 1 \in 0..(n - 1) /\ (i - 1) + 1 = i
    BY <1>1
  <2> QED BY <2>3, <2>4 DEF P
<1>12. g \in [1..n -> V]
  BY <1>9, <1>11
<1> QED BY <1>3, <1>10, <1>12 DEF n, V

\* The bytes of each character of a text.
Codes(line, charset) == [i \in DOMAIN line |-> Code[charset][line[i]]]

LEMMA CodesTypes ==
    ASSUME NEW charset \in Known, NEW line \in Seq(Char)
    PROVE  /\ Codes(line, charset) \in Seq(Seq(Byte)) /\ Len(Codes(line, charset)) = Len(line)
           /\ Len(line) \in Nat
           /\ \A i \in 1..Len(line) : Codes(line, charset)[i] = Code[charset][line[i]]
           /\ \A i \in 1..Len(line) : Len(Codes(line, charset)[i]) = Bytes[line[i]][charset]
           /\ BytesIn(line, charset) = FlattenSeq(Codes(line, charset))
<1> DEFINE n == Len(line)
           V == Seq(Byte)
<1>1. n \in Nat /\ DOMAIN line = 1..n /\ \A i \in 1..n : line[i] \in Char
  OBVIOUS
<1>2. \A c \in Char : Code[charset][c] \in V /\ Len(Code[charset][c]) = Bytes[c][charset]
  BY CodeAssumption
<1> HIDE DEF V, n
<1>3. Codes(line, charset) = [i \in 1..n |-> Code[charset][line[i]]]
  BY <1>1 DEF Codes
<1>4. /\ Codes(line, charset) \in [1..n -> V]
      /\ \A i \in 1..n : Codes(line, charset)[i] = Code[charset][line[i]]
  BY <1>1, <1>2, <1>3
<1>5. Codes(line, charset) \in Seq(V) /\ Len(Codes(line, charset)) = n
  BY <1>1, <1>4
<1>6. BytesIn(line, charset) = FlattenSeq(Codes(line, charset))
  BY DEF BytesIn, Codes
<1>7. \A i \in 1..n : Len(Codes(line, charset)[i]) = Bytes[line[i]][charset]
  BY <1>1, <1>2, <1>4
<1> QED BY <1>1, <1>4, <1>5, <1>6, <1>7 DEF V, n

LEMMA FlattenTypes == ASSUME NEW seqs \in Seq(Seq(Byte)) PROVE FlattenSeq(seqs) \in Seq(Byte)
<1>1. CASE seqs = <<>>
  <2>1. FlattenSeq(seqs) = <<>>
    BY <1>1 DEF FlattenSeq
  <2> QED BY <2>1, EmptySeq
<1>2. CASE seqs # <<>>
  <2>1. PICK f \in [1..Len(seqs) -> Seq(Byte)] : FlattenSeq(seqs) = f[Len(seqs)]
    BY <1>2, Flattened
  <2>2. Len(seqs) \in 1..Len(seqs)
    BY <1>2
  <2> QED BY <2>1, <2>2
<1> QED BY <1>1, <1>2

LEMMA BytesInTypes ==
    ASSUME NEW charset \in Known, NEW line \in Seq(Char)
    PROVE  BytesIn(line, charset) \in Seq(Byte) /\ Len(BytesIn(line, charset)) \in Nat
<1>1. BytesIn(line, charset) \in Seq(Byte)
  BY CodesTypes, FlattenTypes
<1> DEFINE bytes == BytesIn(line, charset)
<1> HIDE DEF bytes
<1>2. bytes \in Seq(Byte) => Len(bytes) \in Nat
  OBVIOUS
<1> QED BY <1>1, <1>2 DEF bytes

\* Sequences of one byte each: what is flattened has the same places.
LEMMA FlatOfOnes ==
    ASSUME NEW seqs \in Seq(Seq(Byte)), \A i \in 1..Len(seqs) : Len(seqs[i]) = 1
    PROVE  /\ Len(FlattenSeq(seqs)) = Len(seqs)
           /\ \A i \in 1..Len(seqs) : FlattenSeq(seqs)[i] = seqs[i][1]
<1> DEFINE n == Len(seqs)
           bytes == FlattenSeq(seqs)
<1>1. n \in Nat
  OBVIOUS
<1>2. \A i \in 1..n : seqs[i] \in Seq(Byte) /\ Len(seqs[i]) = 1
  OBVIOUS
<1>3. SUFFICES Len(bytes) = n /\ \A i \in 1..n : bytes[i] = seqs[i][1]
  BY DEF n
<1>4. bytes = FlattenSeq(seqs)
  OBVIOUS
<1>5. seqs # <<>> => n > 0
  OBVIOUS
<1>6. seqs = <<>> => n = 0
  OBVIOUS
<1> HIDE DEF n, bytes
<1>7. CASE seqs = <<>>
  <2>1. FlattenSeq(seqs) = <<>> /\ n = 0
    BY <1>7, <1>6 DEF FlattenSeq
  <2> QED BY <1>4, <2>1
<1>8. CASE seqs # <<>>
  <2>1. PICK f \in [1..n -> Seq(Byte)] :
            /\ f[1] = seqs[1]
            /\ \A i \in 2..n : f[i] = f[i - 1] \o seqs[i]
            /\ FlattenSeq(seqs) = f[n]
    BY <1>8, Flattened DEF n
  <2>2. n > 0
    BY <1>8, <1>5
  <2> DEFINE P == {k \in 0..(n - 1) : /\ Len(f[k + 1]) = k + 1
                                      /\ \A j \in 1..(k + 1) : f[k + 1][j] = seqs[j][1]}
  <2>3. 0 \in P
    <3>1. 0 + 1 = 1 /\ 1 \in 1..n /\ 0 \in 0..(n - 1)
      BY <1>1, <2>2
    <3> QED BY <1>2, <2>1, <3>1
  <2>4. ASSUME NEW k \in 1..(n - 1), k - 1 \in P PROVE k \in P
    <3>1. /\ (k - 1) + 1 = k /\ k + 1 \in 2..n /\ k + 1 \in 1..n /\ (k + 1) - 1 = k
          /\ k \in 0..(n - 1) /\ k \in 1..n
      BY <1>1
    <3>2. Len(f[k]) = k /\ \A j \in 1..k : f[k][j] = seqs[j][1]
      BY <2>4, <3>1
    <3>3. f[k + 1] = f[k] \o seqs[k + 1]
      BY <2>1, <3>1
    <3>4. f[k] \in Seq(Byte) /\ seqs[k + 1] \in Seq(Byte) /\ Len(seqs[k + 1]) = 1
      BY <1>2, <2>1, <3>1
    <3> DEFINE left == f[k]
               right == seqs[k + 1]
               both == left \o right
    <3>5. left \in Seq(Byte) /\ right \in Seq(Byte) /\ Len(left) = k /\ Len(right) = 1
      BY <3>2, <3>4
    <3> HIDE DEF left, right
    <3>6. /\ Len(both) = k + 1
          /\ \A j \in 1..(k + 1) : both[j] = IF j <= k THEN left[j] ELSE right[j - k]
      <4>1. /\ Len(left \o right) = Len(left) + Len(right)
            /\ \A j \in 1..(Len(left) + Len(right)) :
                  (left \o right)[j] = IF j <= Len(left) THEN left[j] ELSE right[j - Len(left)]
        BY <3>5, ConcatProperties
      <4>2. /\ Len(both) = Len(left) + Len(right)
            /\ \A j \in 1..(Len(left) + Len(right)) :
                  both[j] = IF j <= Len(left) THEN left[j] ELSE right[j - Len(left)]
        BY <4>1
      <4> HIDE DEF both
      <4> QED BY <3>5, <4>2
    <3> HIDE DEF both
    <3>7. \A j \in 1..(k + 1) : both[j] = seqs[j][1]
      <4> SUFFICES ASSUME NEW j \in 1..(k + 1) PROVE both[j] = seqs[j][1]
        OBVIOUS
      <4>1. CASE j \in 1..k
        <5>1. left[j] = seqs[j][1]
          BY <3>2, <4>1 DEF left
        <5>2. j <= k
          BY <4>1
        <5> QED BY <3>6, <5>1, <5>2
      <4>2. CASE j = k + 1
        <5>1. ~ (j <= k) /\ j - k = 1
          BY <3>1, <4>2
        <5> QED BY <3>6, <4>2, <5>1 DEF right
      <4> QED BY <3>1, <4>1, <4>2
    <3>8. f[k + 1] = both
      BY <3>3 DEF both, left, right
    <3> QED BY <3>1, <3>6, <3>7, <3>8
  <2> HIDE DEF P
  <2>5. \A k \in 0..(n - 1) : k \in P
    <3>1. n - 1 \in Nat
      BY <1>1, <2>2
    <3> QED BY <2>3, <2>4, <3>1, Induction
  <2>6. n - 1 \in 0..(n - 1) /\ (n - 1) + 1 = n
    BY <1>1, <2>2
  <2>7. Len(f[n]) = n /\ \A j \in 1..n : f[n][j] = seqs[j][1]
    BY <2>5, <2>6 DEF P
  <2> QED BY <1>4, <2>1, <2>7
<1> QED BY <1>7, <1>8

\* A text all of whose characters have bytes has as many of them, or more.
LEMMA FlatOfMore ==
    ASSUME NEW seqs \in Seq(Seq(Byte)), \A i \in 1..Len(seqs) : Len(seqs[i]) >= 1
    PROVE  Len(FlattenSeq(seqs)) >= Len(seqs)
<1> DEFINE n == Len(seqs)
<1>1. n \in Nat
  OBVIOUS
<1>2. \A i \in 1..n : seqs[i] \in Seq(Byte) /\ Len(seqs[i]) >= 1
  OBVIOUS
<1>3. seqs # <<>> => n > 0
  OBVIOUS
<1>4. CASE seqs = <<>>
  <2>1. FlattenSeq(seqs) = <<>> /\ Len(seqs) = 0
    BY <1>4 DEF FlattenSeq
  <2> QED BY <2>1
<1>5. CASE seqs # <<>>
  <2>1. PICK f \in [1..n -> Seq(Byte)] :
            /\ f[1] = seqs[1]
            /\ \A i \in 2..n : f[i] = f[i - 1] \o seqs[i]
            /\ FlattenSeq(seqs) = f[n]
    BY <1>5, Flattened
  <2> HIDE DEF n
  <2> DEFINE P == {k \in 0..(n - 1) : Len(f[k + 1]) >= k + 1}
  <2>2. 0 \in P
    <3>1. 0 + 1 = 1 /\ 1 \in 1..n /\ 0 \in 0..(n - 1)
      BY <1>1, <1>3, <1>5
    <3> QED BY <1>2, <2>1, <3>1
  <2>3. ASSUME NEW k \in 1..(n - 1), k - 1 \in P PROVE k \in P
    <3>1. /\ (k - 1) + 1 = k /\ k + 1 \in 2..n /\ k + 1 \in 1..n /\ (k + 1) - 1 = k
          /\ k \in 0..(n - 1) /\ k \in 1..n
      BY <1>1
    <3>2. Len(f[k]) >= k
      BY <2>3, <3>1
    <3>3. f[k + 1] = f[k] \o seqs[k + 1]
      BY <2>1, <3>1
    <3>4. f[k] \in Seq(Byte) /\ seqs[k + 1] \in Seq(Byte) /\ Len(seqs[k + 1]) >= 1
      BY <1>2, <2>1, <3>1
    <3>5. Len(f[k + 1]) = Len(f[k]) + Len(seqs[k + 1])
      BY <3>3, <3>4, ConcatProperties
    <3>6. Len(f[k]) \in Nat /\ Len(seqs[k + 1]) \in Nat
      BY <3>4, LenProperties
    <3>7. Len(f[k + 1]) >= k + 1
      BY <3>1, <3>2, <3>4, <3>5, <3>6
    <3> QED BY <3>1, <3>7
  <2> HIDE DEF P
  <2>4. \A k \in 0..(n - 1) : k \in P
    <3>1. n - 1 \in Nat
      BY <1>1, <1>3, <1>5
    <3> QED BY <2>2, <2>3, <3>1, Induction
  <2>5. n - 1 \in 0..(n - 1) /\ (n - 1) + 1 = n
    BY <1>1, <1>3, <1>5
  <2>6. Len(f[n]) >= n
    BY <2>4, <2>5 DEF P
  <2> QED BY <2>1, <2>6 DEF n
<1> QED BY <1>4, <1>5

\* Each character of it is one byte in that charset.
OneByte(line, charset) == \A i \in 1..Len(line) : Bytes[line[i]][charset] = 1

\* Then bytes and characters have the same places.
LEMMA OneByteEach ==
    ASSUME NEW charset \in Known, NEW line \in Seq(Char), OneByte(line, charset)
    PROVE  /\ Len(BytesIn(line, charset)) = Len(line)
           /\ \A i \in 1..Len(line) : BytesIn(line, charset)[i] = Code[charset][line[i]][1]
<1> DEFINE seqs == Codes(line, charset)
<1>1. /\ seqs \in Seq(Seq(Byte)) /\ Len(seqs) = Len(line)
      /\ BytesIn(line, charset) = FlattenSeq(seqs)
      /\ \A i \in 1..Len(line) : seqs[i] = Code[charset][line[i]]
      /\ \A i \in 1..Len(line) : Len(seqs[i]) = Bytes[line[i]][charset]
  BY CodesTypes
<1> HIDE DEF seqs
<1>2. \A i \in 1..Len(seqs) : Len(seqs[i]) = 1
  BY <1>1 DEF OneByte
<1>3. /\ Len(FlattenSeq(seqs)) = Len(seqs)
      /\ \A i \in 1..Len(seqs) : FlattenSeq(seqs)[i] = seqs[i][1]
  BY <1>1, <1>2, FlatOfOnes
<1> QED BY <1>1, <1>3

\* Characters that a terminal can show: they have bytes in its charset and in UTF-8.
Shown == {c \in Char : Bytes[c][Display] > 0 /\ Bytes[c]["UTF-8"] > 0}

LEMMA ShownLength ==
    ASSUME NEW charset \in {"UTF-8", Display}, NEW line \in Seq(Shown)
    PROVE  Len(BytesIn(line, charset)) >= Len(line)
<1> DEFINE seqs == Codes(line, charset)
<1>1. line \in Seq(Char) /\ charset \in Known /\ \A i \in 1..Len(line) : line[i] \in Shown
  BY DEF Shown, Known
<1>2. \A c \in Shown : Bytes[c][charset] \in Nat /\ Bytes[c][charset] > 0
  BY BytesAssumption DEF Shown, Known
<1>3. \A i \in 1..Len(line) : Bytes[line[i]][charset] >= 1
  BY <1>1, <1>2
<1>4. /\ seqs \in Seq(Seq(Byte)) /\ Len(seqs) = Len(line)
      /\ BytesIn(line, charset) = FlattenSeq(seqs)
      /\ \A i \in 1..Len(line) : Len(seqs[i]) = Bytes[line[i]][charset]
  BY <1>1, CodesTypes
<1> HIDE DEF seqs
<1>5. \A i \in 1..Len(seqs) : Len(seqs[i]) >= 1
  BY <1>3, <1>4
<1> QED BY <1>4, <1>5, FlatOfMore

-----------------------------------------------------------------------------
(* Searching, and what convertCharset() makes of a text.                   *)

Hits(s, key, pos) == {p \in Occurrences(s, key) : p >= pos}

\* find() gives the first of the hits, if there is one.
LEMMA FindIs ==
    ASSUME NEW s \in Seq(Byte), NEW key \in Seq(Byte), NEW pos \in Nat
    PROVE  /\ Find(s, key, pos) = NPos => Hits(s, key, pos) = {}
           /\ Find(s, key, pos) # NPos => Find(s, key, pos) \in Hits(s, key, pos)
           /\ Hits(s, key, pos) \subseteq Nat
<1> DEFINE hits == Hits(s, key, pos)
<1>1. Find(s, key, pos) = IF hits = {} THEN NPos ELSE Min(hits)
  BY DEF Find, Hits
<1>2. hits \subseteq Nat
  BY DEF Hits, Occurrences
<1> HIDE DEF hits
<1>3. hits # {} => Min(hits) \in hits
  BY <1>2, LeastExists DEF Min
<1>4. hits # {} => Min(hits) # NPos
  BY <1>2, <1>3 DEF NPos
<1> QED BY <1>1, <1>2, <1>3, <1>4 DEF hits

\* The part of a sequence that begins behind p.
LEMMA PartIs ==
    ASSUME NEW A, NEW s \in Seq(A), NEW p \in Nat, NEW k \in Nat, p + k <= Len(s)
    PROVE  /\ SubSeq(s, p + 1, p + k) = [i \in 1..k |-> s[p + i]]
           /\ SubSeq(s, p + 1, p + k) \in Seq(A)
           /\ Len(SubSeq(s, p + 1, p + k)) = k
<1>1. /\ SubSeq(s, p + 1, p + k) \in Seq(A)
      /\ Len(SubSeq(s, p + 1, p + k)) = k
      /\ \A i \in 1..k : SubSeq(s, p + 1, p + k)[i] = s[p + i]
  <2>1. p + 1 \in Int /\ p + k \in Int /\ \A i \in (p + 1)..(p + k) : s[i] \in A
    OBVIOUS
  <2>2. /\ SubSeq(s, p + 1, p + k) \in Seq(A)
        /\ Len(SubSeq(s, p + 1, p + k)) =
              IF p + 1 <= p + k THEN (p + k) - (p + 1) + 1 ELSE 0
        /\ \A i \in 1..((p + k) - (p + 1) + 1) : SubSeq(s, p + 1, p + k)[i] = s[(p + 1) + i - 1]
    BY <2>1, SubSeqProperties
  <2> DEFINE part == SubSeq(s, p + 1, p + k)
  <2> HIDE DEF part
  <2>3. part \in Seq(A) /\ Len(part) = k
    BY <2>2 DEF part
  <2>4. \A i \in 1..k : i \in 1..((p + k) - (p + 1) + 1) /\ (p + 1) + i - 1 = p + i
    OBVIOUS
  <2>5. \A i \in 1..k : part[i] = s[p + i]
    BY <2>2, <2>4 DEF part
  <2> QED BY <2>3, <2>5 DEF part
<1> DEFINE part == SubSeq(s, p + 1, p + k)
<1>2. part = [i \in 1..Len(part) |-> part[i]]
  <2>1. part \in Seq(A)
    BY <1>1
  <2> HIDE DEF part
  <2> QED BY <2>1
<1> HIDE DEF part
<1>3. Len(part) = k /\ \A i \in 1..k : part[i] = s[p + i]
  BY <1>1 DEF part
<1>4. part = [i \in 1..k |-> s[p + i]]
  BY <1>2, <1>3
<1> QED BY <1>1, <1>4 DEF part

LEMMA LesserIs ==
    ASSUME NEW a \in Nat, NEW b \in Nat
    PROVE  Min({a, b}) = IF a <= b THEN a ELSE b
<1> DEFINE S == {a, b}
           least == IF a <= b THEN a ELSE b
<1>1. least \in S /\ \A y \in S : least <= y
  OBVIOUS
<1>2. \A x \in S : (\A y \in S : x <= y) => x = least
  OBVIOUS
<1> HIDE DEF least
<1>3. Min(S) = least
  <2> HIDE DEF S
  <2> QED BY <1>1, <1>2 DEF Min
<1> QED BY <1>3 DEF least

\* The session of a search.
SessionTyped ==
    /\ kind \in {"none", "local", "remote"}
    /\ mine \in Known
    /\ converter \in [local : Descriptor, host : Descriptor]

LEMMA SessionTypes ==
    ASSUME SessionTyped
    PROVE  /\ HostCharset \in {"UTF-8", Display} /\ HostCharset \in Known /\ mine \in Known
           /\ converter.local # Closed =>
                  converter.local.from \in Known /\ converter.local.to \in Known
<1>1. converter.local \in Descriptor
  BY DEF SessionTyped
<1> QED BY <1>1 DEF SessionTyped, HostCharset, Known, Descriptor

AllAscii(line) == \A i \in 1..Len(line) : line[i] \in Ascii

\* A text in ASCII is the same in every charset, a byte each.
LEMMA AsciiSame ==
    ASSUME NEW line \in Seq(Char), AllAscii(line), NEW s \in Known, NEW t \in Known
    PROVE  BytesIn(line, s) = BytesIn(line, t) /\ OneByte(line, s)
<1>1. DOMAIN line = 1..Len(line)
  OBVIOUS
<1>2. \A c \in Ascii : Code[s][c] = Code[t][c] /\ Bytes[c][s] = 1
  BY CodeAssumption DEF Ascii
<1>3. \A i \in DOMAIN line : Code[s][line[i]] = Code[t][line[i]]
  BY <1>1, <1>2 DEF AllAscii
<1>4. Codes(line, s) = Codes(line, t)
  BY <1>3 DEF Codes
<1>5. OneByte(line, s)
  BY <1>2 DEF AllAscii, OneByte
<1> QED BY <1>4, <1>5, CodesTypes

\* Taken for ISO-8859-1 it stays what it is.
LEMMA AsciiReread ==
    ASSUME SessionTyped, NEW line \in Seq(Char), AllAscii(line)
    PROVE  FlattenSeq([i \in DOMAIN Delivered(line) |-> Reread[Delivered(line)[i]]])
               = Delivered(line)
<1> DEFINE s == HostCharset
           d == Delivered(line)
<1>1. s \in Known
  BY SessionTypes
<1>2. d = BytesIn(line, s)
  BY DEF Delivered
<1> HIDE DEF s, d
<1>3. OneByte(line, s)
  BY <1>1, AsciiSame
<1>4. /\ Len(d) = Len(line) /\ d \in Seq(Byte)
      /\ \A i \in 1..Len(line) : d[i] = Code[s][line[i]][1]
  BY <1>1, <1>2, <1>3, OneByteEach, BytesInTypes
<1>5. DOMAIN d = 1..Len(line) /\ DOMAIN line = 1..Len(line)
  BY <1>4
<1>6. \A c \in Ascii : Reread[Code[s][c][1]] = Code[s][c]
  BY <1>1, CodeAssumption
<1>7. \A i \in 1..Len(line) : Reread[d[i]] = Code[s][line[i]]
  BY <1>4, <1>6 DEF AllAscii
<1>8. [i \in DOMAIN d |-> Reread[d[i]]] = Codes(line, s)
  BY <1>5, <1>7 DEF Codes
<1>9. d = FlattenSeq(Codes(line, s))
  BY <1>1, <1>2, CodesTypes
<1> QED BY <1>8, <1>9 DEF d

LEMMA ReadTypes ==
    ASSUME SessionTyped, NEW line \in Seq(Char)
    PROVE  /\ BytesOf(line) \in Seq(Byte) /\ Delivered(line) \in Seq(Byte)
           /\ converter.local # Closed => Recoded(line) \in Seq(Byte)
<1>1. BytesOf(line) \in Seq(Byte) /\ Delivered(line) \in Seq(Byte)
  BY SessionTypes, BytesInTypes DEF BytesOf, Delivered
<1>2. ASSUME converter.local # Closed PROVE Recoded(line) \in Seq(Byte)
  <2> DEFINE d == Delivered(line)
             seqs == [i \in DOMAIN d |-> Reread[d[i]]]
  <2>1. converter.local.to \in Known
    BY <1>2, SessionTypes
  <2>2. BytesIn(line, converter.local.to) \in Seq(Byte)
    BY <2>1, BytesInTypes
  <2>3. d \in Seq(Byte)
    BY <1>1
  <2> HIDE DEF d
  <2>4. seqs \in Seq(Seq(Byte))
    <3>1. \A b \in Byte : Reread[b] \in Seq(Byte)
      BY CodeAssumption
    <3>2. DOMAIN d = 1..Len(d) /\ Len(d) \in Nat /\ \A i \in 1..Len(d) : d[i] \in Byte
      BY <2>3
    <3>3. seqs \in [1..Len(d) -> Seq(Byte)]
      BY <3>1, <3>2
    <3> HIDE DEF seqs
    <3> QED BY <3>2, <3>3
  <2>5. FlattenSeq(seqs) \in Seq(Byte)
    <3> HIDE DEF seqs
    <3> QED BY <2>4, FlattenTypes
  <2>6. Recoded(line) = BytesIn(line, converter.local.to) \/ Recoded(line) = FlattenSeq(seqs)
    BY DEF Recoded, d
  <2> HIDE DEF seqs
  <2> QED BY <2>2, <2>5, <2>6
<1> QED BY <1>1, <1>2

\* A session that reads in the application's charset, or reads a text in ASCII.
LEMMA ReadTrue ==
    ASSUME SessionTyped, NEW line \in Seq(Char), ~ Misread(line)
    PROVE  /\ converter.local = Closed => Delivered(line) = BytesOf(line)
           /\ converter.local # Closed => Recoded(line) = BytesOf(line)
<1>1. CASE Agrees
  <2>1. CASE converter.local = [from |-> HostCharset, to |-> mine]
    <3>1. Recoded(line) = BytesOf(line)
      BY <2>1 DEF Recoded, BytesOf
    <3>2. converter.local = Closed => mine = HostCharset
      BY <2>1 DEF Closed
    <3> QED BY <3>1, <3>2 DEF Delivered, BytesOf
  <2>2. CASE converter.local = Closed /\ mine = HostCharset
    BY <2>2 DEF Delivered, BytesOf
  <2> QED BY <1>1, <2>1, <2>2 DEF Agrees
<1>2. CASE ~ Agrees
  <2>1. AllAscii(line)
    <3>1. DOMAIN line = 1..Len(line)
      OBVIOUS
    <3> QED BY <1>2, <3>1 DEF Misread, AllAscii
  <2>2. \A s \in Known : BytesIn(line, s) = BytesOf(line)
    BY <2>1, SessionTypes, AsciiSame DEF BytesOf
  <2>3. Delivered(line) = BytesOf(line)
    BY <2>2, SessionTypes DEF Delivered
  <2>4. ASSUME converter.local # Closed PROVE Recoded(line) = BytesOf(line)
    <3>1. BytesIn(line, converter.local.to) = BytesOf(line)
      BY <2>2, <2>4, SessionTypes
    <3> DEFINE reread == FlattenSeq([i \in DOMAIN Delivered(line) |-> Reread[Delivered(line)[i]]])
    <3>2. reread = BytesOf(line)
      BY <2>1, <2>3, AsciiReread
    <3>3. Recoded(line) = BytesIn(line, converter.local.to) \/ Recoded(line) = reread
      BY DEF Recoded
    <3> HIDE DEF reread
    <3> QED BY <3>1, <3>2, <3>3
  <2> QED BY <2>3, <2>4
<1> QED BY <1>1, <1>2

\* convertCharset() gives all that came, all of it recoded, nothing, or all of it
\* and something more.
LEMMA ConversionCases ==
    ASSUME NEW line, NEW contents \in Conversions(line)
    PROVE  \/ converter.local = Closed /\ contents = Delivered(line)
           \/ converter.local # Closed /\ contents = <<>> /\ Unreadable(line)
           \/ converter.local # Closed /\ contents = Recoded(line)
           \/ /\ converter.local # Closed /\ Unterminated(line)
              /\ \E garbage \in Seq(Byte) : contents = Recoded(line) \o garbage
<1> DEFINE behind == {<<>>} \cup {<<b>> : b \in Byte}
<1>1. behind \subseteq Seq(Byte)
  <2>1. <<>> \in Seq(Byte)
    BY EmptySeq
  <2>2. \A b \in Byte : <<b>> \in Seq(Byte)
    OBVIOUS
  <2> QED BY <2>1, <2>2
<1>2. CASE converter.local = Closed
  BY <1>2 DEF Conversions
<1>3. CASE converter.local # Closed /\ Unreadable(line)
  <2>1. Conversions(line) = {<<>>}
    BY <1>3 DEF Conversions
  <2> QED BY <1>3, <2>1
<1>4. CASE converter.local # Closed /\ ~ Unreadable(line) /\ Unterminated(line)
  <2>1. Conversions(line) = {Recoded(line) \o garbage : garbage \in behind}
    BY <1>4 DEF Conversions
  <2> HIDE DEF behind
  <2>2. PICK garbage \in behind : contents = Recoded(line) \o garbage
    BY <2>1
  <2> QED BY <1>1, <1>4, <2>2
<1>5. CASE converter.local # Closed /\ ~ Unreadable(line) /\ ~ Unterminated(line)
  <2>1. Conversions(line) = {Recoded(line)}
    BY <1>5 DEF Conversions
  <2> QED BY <1>5, <2>1
<1> QED BY <1>2, <1>3, <1>4, <1>5

\* What is not misread comes as the application would write it, or not at all, or
\* with something more.
LEMMA ConversionIs ==
    ASSUME SessionTyped, NEW line \in Seq(Char), ~ Misread(line), NEW contents \in Conversions(line)
    PROVE  \/ contents = BytesOf(line)
           \/ contents = <<>> /\ Unreadable(line)
           \/ /\ Unterminated(line)
              /\ \E garbage \in Seq(Byte) : contents = BytesOf(line) \o garbage
<1>1. /\ converter.local = Closed => Delivered(line) = BytesOf(line)
      /\ converter.local # Closed => Recoded(line) = BytesOf(line)
  BY ReadTrue
<1> QED BY <1>1, ConversionCases, Zenon

LEMMA ConversionTypes ==
    ASSUME SessionTyped, NEW line \in Seq(Char), NEW contents \in Conversions(line)
    PROVE  contents \in Seq(Byte)
<1>1. /\ Delivered(line) \in Seq(Byte)
      /\ converter.local # Closed => Recoded(line) \in Seq(Byte)
  BY ReadTypes
<1>2. <<>> \in Seq(Byte)
  BY EmptySeq
<1>3. \A s \in Seq(Byte), garbage \in Seq(Byte) : s \o garbage \in Seq(Byte)
  BY Appended
<1> DEFINE d == Delivered(line)
           r == Recoded(line)
<1>4. \/ converter.local = Closed /\ contents = d
      \/ converter.local # Closed /\ contents = <<>>
      \/ converter.local # Closed /\ contents = r
      \/ converter.local # Closed /\ \E garbage \in Seq(Byte) : contents = r \o garbage
  BY ConversionCases
<1>5. d \in Seq(Byte) /\ (converter.local # Closed => r \in Seq(Byte))
  BY <1>1
<1> HIDE DEF d, r
<1> QED BY <1>2, <1>3, <1>4, <1>5

\* Each character is one byte for the application, and nothing is misread.
Sound(line) == OneByte(line, mine) /\ ~ Misread(line)

\* A text of single bytes comes as it is.
LEMMA SoundConverts ==
    ASSUME SessionTyped, NEW line \in Seq(Shown), Sound(line), NEW contents \in Conversions(line)
    PROVE  contents = BytesOf(line)
<1>1. line \in Seq(Char) /\ Len(line) \in Nat /\ DOMAIN line = 1..Len(line)
  BY DEF Shown
<1>2. Len(BytesOf(line)) = Len(line)
  BY <1>1, SessionTypes, OneByteEach DEF Sound, BytesOf
<1>3. Len(Delivered(line)) >= Len(line) /\ Len(Delivered(line)) \in Nat
  BY <1>1, SessionTypes, ShownLength, BytesInTypes DEF Delivered
<1>4. converter.local # Closed => Len(Recoded(line)) = Len(line)
  BY <1>1, <1>2, ReadTrue DEF Sound
<1>5. ~ (converter.local # Closed /\ Len(Recoded(line)) > Room(line))
  BY <1>1, <1>3, <1>4 DEF Room
<1>6. ~ (converter.local # Closed /\ line # <<>> /\ Len(Recoded(line)) = Room(line))
  <2>1. line # <<>> => Len(line) > 0
    BY <1>1
  <2> QED BY <1>1, <1>3, <1>4, <2>1 DEF Room
<1>7. ~ (/\ converter.local # Closed
         /\ converter.local.from = HostCharset /\ Lacks(line, converter.local.to))
  <2> SUFFICES ASSUME converter.local # Closed, converter.local.from = HostCharset,
                      NEW i \in 1..Len(line), Code[converter.local.to][line[i]] = <<>>
               PROVE  FALSE
    BY <1>1 DEF Lacks
  <2>1. converter.local.to \in Known /\ line[i] \in Char
    BY <1>1, SessionTypes
  <2>2. Bytes[line[i]][converter.local.to] = 1
    <3>1. CASE Agrees
      BY <3>1 DEF Agrees, Sound, OneByte
    <3>2. CASE ~ Agrees
      BY <1>1, <2>1, <3>2 DEF Sound, Misread, Ascii
    <3> QED BY <3>1, <3>2
  <2>3. Len(Code[converter.local.to][line[i]]) = 1
    BY <2>1, <2>2, CodeAssumption
  <2> QED BY <2>3
<1>8. ~ Unreadable(line)
  BY <1>5, <1>7 DEF Unreadable
<1>9. ~ Unterminated(line)
  BY <1>6 DEF Unterminated
<1> QED BY <1>1, <1>8, <1>9, ConversionIs DEF Sound

\* What is found in a text is there when more follows it.
LEMMA KeptBefore ==
    ASSUME NEW s \in Seq(Byte), NEW more \in Seq(Byte), NEW key \in Seq(Byte),
           NEW p \in Occurrences(s, key)
    PROVE  p \in Occurrences(s \o more, key)
<1> DEFINE m == Len(s)
           k == Len(key)
           both == s \o more
<1>1. m \in Nat /\ k \in Nat /\ p \in 0..(m - k) /\ SubSeq(s, p + 1, p + k) = key
  BY DEF Occurrences
<1>2. /\ both \in Seq(Byte) /\ Len(both) >= m
      /\ \A i \in 1..m : both[i] = s[i]
  <2>1. /\ Len(s \o more) = Len(s) + Len(more)
        /\ \A i \in 1..(Len(s) + Len(more)) :
              (s \o more)[i] = IF i <= Len(s) THEN s[i] ELSE more[i - Len(s)]
    BY ConcatProperties
  <2>2. s \o more \in Seq(Byte)
    BY Appended
  <2>3. Len(more) \in Nat
    OBVIOUS
  <2> HIDE DEF m
  <2>4. \A i \in 1..Len(s) : i \in 1..(Len(s) + Len(more)) /\ i <= Len(s)
    BY <2>3
  <2> QED BY <2>1, <2>2, <2>3, <2>4 DEF m
<1> HIDE DEF both
<1>3. SubSeq(both, p + 1, p + k) = SubSeq(s, p + 1, p + k)
  <2>1. SubSeq(both, p + 1, p + k) = [i \in 1..k |-> both[p + i]]
    BY <1>1, <1>2, PartIs
  <2>2. SubSeq(s, p + 1, p + k) = [i \in 1..k |-> s[p + i]]
    BY <1>1, PartIs
  <2>3. \A i \in 1..k : p + i \in 1..m
    BY <1>1
  <2>4. \A i \in 1..k : both[p + i] = s[p + i]
    BY <1>2, <2>3
  <2> HIDE DEF k
  <2> QED BY <2>1, <2>2, <2>4
<1>4. p \in 0..(Len(both) - k)
  <2>1. Len(both) \in Nat
    BY <1>2
  <2> HIDE DEF m, k
  <2> QED BY <1>1, <1>2, <2>1
<1> QED BY <1>1, <1>3, <1>4 DEF Occurrences, both

\* A text that is found in nothing is empty, and found everywhere.
LEMMA EmptyFound ==
    ASSUME NEW s \in Seq(Byte), NEW key \in Seq(Byte), NEW pos \in Nat,
           NEW p \in Hits(<<>>, key, pos)
    PROVE  p \in Hits(s, key, pos)
<1>1. p \in 0..(0 - Len(key)) /\ Len(key) \in Nat /\ p >= pos
  <2>1. Len(<<>>) = 0
    OBVIOUS
  <2> QED BY <2>1 DEF Hits, Occurrences
<1>2. p = 0 /\ Len(key) = 0
  BY <1>1
<1>3. key = <<>> /\ Len(s) \in Nat
  BY <1>2
<1>4. SubSeq(s, 0 + 1, 0 + Len(key)) = key
  <2>1. SubSeq(s, 1, 0) = <<>>
    OBVIOUS
  <2> QED BY <1>2, <1>3, <2>1
<1>5. 0 \in 0..(Len(s) - Len(key))
  BY <1>2, <1>3
<1> QED BY <1>1, <1>2, <1>4, <1>5 DEF Hits, Occurrences

-----------------------------------------------------------------------------
(* The inductive invariant of searching.                                   *)

Operation ==
    [name : Names \cup {"none"}, key : Seq(Byte), at : Nat, len : Nat, given : BOOLEAN,
     stage : {"idle", "read", "look", "returned", "thrown"}, contents : Seq(Byte),
     look : Screens \cup {<<>>}, result : Nat \cup {NPos}, rc : 0..(SizeLimit - 1)]

SearchTyped ==
    /\ SessionTyped
    /\ screen \in Screens
    /\ changes \in 0..MaxChanges
    /\ lastFind \in [key : Seq(Byte), at : Nat \cup {NPos}]
    /\ op \in Operation

\* The part of a screen that an operation looks at.
Looked(o, line) == IF o.name = "compare" THEN SubSeq(line, o.at + 1, Min({o.at + o.len, Cells}))
                                         ELSE line

\* The contents are what the conversion made of the screen that was read.
ReadOK == op.stage \in {"look", "returned"} =>
              op.look \in Screens /\ op.contents \in Conversions(Looked(op, op.look))

\* The result is that of the search in them.
AnswerOK ==
    /\ Returned({"find", "contains"}) => op.result = Find(op.contents, op.key, op.at)
    /\ Returned({"compare"}) => op.result = Compare(op.contents, op.key, op.len)
    /\ op.name = "compare" /\ ~ op.given => op.len = Len(op.key)

\* On a screen of single bytes the last find() was right.
FoundOK == lastFind.at # NPos /\ Sound(screen) =>
               lastFind.at \in Occurrences(BytesOf(screen), lastFind.key)

SInv == SearchTyped /\ ReadOK /\ AnswerOK /\ FoundOK

\* What the session is, and with it what the bytes of a text are, does not change.
SameSession == kind' = kind /\ mine' = mine /\ converter' = converter

LEMMA NewReading ==
    ASSUME SameSession, NEW line, Looked(op, op.look)' = line, op'.contents \in Conversions(line)
    PROVE  (op.contents \in Conversions(Looked(op, op.look)))'
BY DEF SameSession, Conversions, BytesIn, Lacks, Delivered, Recoded, Room, Unreadable, Unterminated,
       HostCharset

LEMMA SameReading ==
    ASSUME SameSession, op'.contents = op.contents,
           Looked(op, op.look)' = Looked(op, op.look),
           op.contents \in Conversions(Looked(op, op.look))
    PROVE  (op.contents \in Conversions(Looked(op, op.look)))'
BY NewReading

LEMMA SameTyped == ASSUME SameSession, SessionTyped PROVE SessionTyped'
BY DEF SameSession, SessionTyped, Known, Descriptor

LEMMA NewFound ==
    ASSUME SameSession, screen' = screen,
           lastFind'.at # NPos /\ Sound(screen) =>
               lastFind'.at \in Occurrences(BytesOf(screen), lastFind'.key)
    PROVE  FoundOK'
BY DEF SameSession, FoundOK, Sound, OneByte, Misread, Agrees, Ascii, Known, HostCharset, Occurrences,
       BytesOf, BytesIn

LEMMA SameFound ==
    ASSUME SameSession, screen' = screen, lastFind' = lastFind, FoundOK
    PROVE  FoundOK'
BY NewFound DEF FoundOK

LEMMA ScreenTypes ==
    ASSUME NEW line \in Screens
    PROVE  line \in Seq(Shown) /\ line \in Seq(Char) /\ Len(line) = Cells
<1>1. line \in [1..Cells -> Shown] /\ line \in [1..Cells -> Char]
  BY ScreensAssumption DEF Shown
<1> QED BY <1>1, CellsAssumption

LEMMA LookedTypes ==
    ASSUME NEW o \in Operation, NEW line \in Screens
    PROVE  Looked(o, line) \in Seq(Shown)
<1>1. line \in Seq(Shown) /\ Len(line) = Cells /\ Cells \in Nat
  BY ScreenTypes, CellsAssumption
<1>2. o.at \in Nat /\ o.len \in Nat
  BY DEF Operation
<1>3. Min({o.at + o.len, Cells}) \in 0..Cells
  <2>1. o.at + o.len \in Nat
    BY <1>2
  <2> QED BY <1>1, <2>1, LesserIs
<1>4. \A m, n \in Nat : n <= Len(line) => SubSeq(line, m + 1, n) \in Seq(Shown)
  BY <1>1
<1> DEFINE end == Min({o.at + o.len, Cells})
<1>5. end \in Nat /\ end <= Len(line)
  <2> HIDE DEF end
  <2>1. end \in 0..Cells
    BY <1>3 DEF end
  <2> QED BY <1>1, <2>1
<1>6. Looked(o, line) = line \/ Looked(o, line) = SubSeq(line, o.at + 1, end)
  BY DEF Looked
<1> HIDE DEF end
<1> QED BY <1>1, <1>2, <1>4, <1>5, <1>6

LEMMA ShownChar == Seq(Shown) \subseteq Seq(Char)
<1>1. Shown \subseteq Char
  BY DEF Shown
<1> QED BY <1>1, SeqMonotonic

LEMMA PartIsLooked ==
    Part = Looked(op, screen)
BY DEF Part, Looked

LEMMA SoughtTypes ==
    ASSUME SessionTyped, NEW key \in Sought
    PROVE  BytesOf(key) \in Seq(Byte) /\ Len(BytesOf(key)) \in Nat
<1>1. BytesOf(key) \in Seq(Byte)
  BY ReadTypes, SoughtAssumption
<1> DEFINE bytes == BytesOf(key)
<1> HIDE DEF bytes
<1>2. bytes \in Seq(Byte) => Len(bytes) \in Nat
  OBVIOUS
<1> QED BY <1>1, <1>2 DEF bytes

LEMMA FindTypes ==
    ASSUME NEW s \in Seq(Byte), NEW key \in Seq(Byte), NEW pos \in Nat
    PROVE  Find(s, key, pos) \in Nat \cup {NPos}
BY FindIs

LEMMA IdleTypes == Idle \in Operation
<1>1. <<>> \in Seq(Byte) /\ 0 \in 0..(SizeLimit - 1)
  BY EmptySeq, BoundsAssumption
<1> QED BY <1>1 DEF Idle, Operation

LEMMA SearchInitInv == SearchInit => SInv
<1> SUFFICES ASSUME SearchInit PROVE SInv
  OBVIOUS
<1>1. op = Idle /\ lastFind = Nothing
  BY DEF SearchInit
<1>2. <<>> \in Seq(Byte)
  BY EmptySeq
<1>3. Idle \in Operation
  BY IdleTypes
<1>4. SearchTyped
  <2>1. SessionTyped
    BY DEF SearchInit, Init, SessionTyped, Known, Descriptor, NoConverter
  <2>2. op \in Operation
    BY <1>1, <1>3
  <2>3. lastFind \in [key : Seq(Byte), at : Nat \cup {NPos}]
    BY <1>1, <1>2 DEF Nothing
  <2> QED BY <2>1, <2>2, <2>3, BoundsAssumption DEF SearchInit, SearchTyped
<1>5. ReadOK
  BY <1>1 DEF ReadOK, Idle
<1>6. AnswerOK
  BY <1>1 DEF AnswerOK, Idle, Returned
<1>7. FoundOK
  BY <1>1 DEF FoundOK, Nothing
<1> QED BY <1>4, <1>5, <1>6, <1>7 DEF SInv

LEMMA SetupInv == SInv /\ Setup => SInv'
<1> SUFFICES ASSUME SInv, Setup PROVE SInv'
  OBVIOUS
<1>1. op' = Idle /\ lastFind' = Nothing /\ screen' = screen /\ changes' = changes
  BY DEF Setup
<1>2. SessionTyped'
  <2>1. ASSUME NEW k \in {"local", "remote"}, Open(k) PROVE SessionTyped'
    <3>1. converter' \in [local : Descriptor, host : Descriptor]
      BY <2>1, ConverterTypes DEF Open, Known
    <3>2. kind' = k /\ mine' = mine
      BY <2>1 DEF Open
    <3> QED BY <3>1, <3>2 DEF SInv, SearchTyped, SessionTyped, Known, Descriptor
  <2>2. ASSUME NEW charset \in Charset, SetCharSet(charset) PROVE SessionTyped'
    <3>1. charset \in Known /\ HostCharset \in Known
      BY DEF Known, HostCharset
    <3>2. converter' \in [local : Descriptor, host : Descriptor]
      BY <2>2, <3>1, ConverterTypes DEF SetCharSet
    <3>3. kind' = kind /\ mine' = charset
      BY <2>2 DEF SetCharSet
    <3> QED BY <3>1, <3>2, <3>3 DEF SInv, SearchTyped, SessionTyped, Known, Descriptor
  <2> QED BY <2>1, <2>2 DEF Setup
<1>3. op' \in Operation
  BY <1>1, IdleTypes DEF Operation
<1>4. lastFind' \in [key : Seq(Byte), at : Nat \cup {NPos}]
  BY <1>1, EmptySeq DEF Nothing
<1>5. SearchTyped'
  BY <1>1, <1>2, <1>3, <1>4 DEF SInv, SearchTyped
<1>6. ReadOK' /\ AnswerOK'
  BY <1>1 DEF ReadOK, AnswerOK, Idle, Returned
<1>7. FoundOK'
  BY <1>1 DEF FoundOK, Nothing
<1> QED BY <1>5, <1>6, <1>7 DEF SInv

LEMMA BeginInv ==
    ASSUME SInv,
           NEW name \in Names, NEW key \in Sought, NEW pos \in Nat, NEW len \in Nat,
           NEW given \in BOOLEAN,
           name = "compare" /\ ~ given => len = Len(BytesOf(key)),
           Begin(name, key, pos, len, given)
    PROVE  SInv'
<1> DEFINE bytes == BytesOf(key)
           new == [Idle EXCEPT !.name = name, !.key = bytes, !.at = pos, !.len = len,
                               !.given = given, !.stage = "read"]
<1>1. /\ op' = new /\ SameSession /\ screen' = screen
      /\ changes' = changes /\ lastFind' \in {lastFind, Nothing}
  BY DEF Begin, vars, SameSession
<1>2. bytes \in Seq(Byte) /\ <<>> \in Seq(Byte) /\ 0 \in 0..(SizeLimit - 1)
  BY SoughtTypes, EmptySeq, BoundsAssumption DEF SInv, SearchTyped
<1>3. name = "compare" /\ ~ given => len = Len(bytes)
  OBVIOUS
<1> HIDE DEF bytes
<1>4. /\ new.name = name /\ new.key = bytes /\ new.len = len
      /\ new.stage = "read"
  BY DEF Idle
<1>5. new.given = given
  BY Zenon DEF Idle
<1>6. new \in Operation
  BY <1>2 DEF Idle, Operation
<1> HIDE DEF new
<1>7. SearchTyped'
  <2>1. lastFind' \in [key : Seq(Byte), at : Nat \cup {NPos}]
    <3>1. Nothing \in [key : Seq(Byte), at : Nat \cup {NPos}]
      BY EmptySeq DEF Nothing
    <3> QED BY <1>1, <3>1 DEF SInv, SearchTyped
  <2> QED BY <1>1, <1>6, <2>1, SameTyped DEF SInv, SearchTyped
<1>8. ReadOK'
  BY <1>1, <1>4 DEF ReadOK
<1>9. AnswerOK'
  BY <1>1, <1>3, <1>4, <1>5 DEF AnswerOK, Returned
<1>10. FoundOK'
  <2>1. lastFind' = Nothing => FoundOK'
    BY DEF FoundOK, Nothing
  <2> QED BY <1>1, <2>1, SameFound DEF SInv
<1> QED BY <1>7, <1>8, <1>9, <1>10 DEF SInv

LEMMA BeginSearchInv == SInv /\ BeginSearch => SInv'
<1> SUFFICES ASSUME SInv, BeginSearch PROVE SInv'
  OBVIOUS
<1>1. PICK key \in Sought, name \in {"contains", "find", "count"}, pos \in Places \cup {0} :
          Begin(name, key, pos, Cells, FALSE)
  BY DEF BeginSearch
<1>2. pos \in Nat /\ Cells \in Nat /\ name \in Names /\ name # "compare"
  BY CellsAssumption, PlacesAssumption DEF Names
<1> QED BY <1>1, <1>2, BeginInv

LEMMA BeginCompareInv == SInv /\ BeginCompare => SInv'
<1> SUFFICES ASSUME SInv, BeginCompare PROVE SInv'
  OBVIOUS
<1>1. PICK key \in Sought, baddr \in Places, len \in Lengths :
          Begin("compare", key, baddr, IF len < 0 THEN Len(BytesOf(key)) ELSE len, len >= 0)
  BY DEF BeginCompare
<1> DEFINE size == IF len < 0 THEN Len(BytesOf(key)) ELSE len
           given == len >= 0
<1>2. baddr \in Nat /\ "compare" \in Names /\ given \in BOOLEAN
  BY CellsAssumption, PlacesAssumption DEF Names
<1>3. Len(BytesOf(key)) \in Nat
  BY SoughtTypes DEF SInv, SearchTyped
<1>4. size \in Nat /\ (~ given => size = Len(BytesOf(key)))
  BY <1>3, LengthsAssumption
<1>5. Begin("compare", key, baddr, size, given)
  BY <1>1
<1> HIDE DEF size, given
<1> QED BY <1>2, <1>4, <1>5, BeginInv

LEMMA LookInv == SInv /\ Look => SInv'
<1> SUFFICES ASSUME SInv, Look PROVE SInv'
  OBVIOUS
<1>1. op.stage = "read" /\ op \in Operation /\ SessionTyped /\ screen \in Screens
  BY DEF Look, SInv, SearchTyped
<1>2. PICK contents \in Conversions(Part) : Seen(contents)
  BY DEF Look
<1>3. /\ op' = [op EXCEPT !.stage = "look", !.contents = contents, !.look = screen]
      /\ SameSession /\ screen' = screen /\ changes' = changes /\ lastFind' = lastFind
  BY <1>2 DEF Seen, vars, SameSession
<1>4. contents \in Seq(Byte)
  <2>1. Part \in Seq(Char)
    BY <1>1, LookedTypes, PartIsLooked, ShownChar
  <2> QED BY <1>1, <2>1, ConversionTypes
<1>5. SearchTyped'
  BY <1>1, <1>3, <1>4, SameTyped DEF SInv, SearchTyped, Operation
<1>6. /\ op'.name = op.name /\ op'.at = op.at /\ op'.len = op.len /\ op'.given = op.given
      /\ op'.key = op.key
      /\ op'.stage = "look" /\ op'.contents = contents /\ op'.look = screen
  BY <1>1, <1>3 DEF Operation
<1>7. ReadOK'
  <2>1. Looked(op, op.look)' = Part
    BY <1>6 DEF Looked, Part
  <2>2. (op.contents \in Conversions(Looked(op, op.look)))'
    BY <1>2, <1>3, <1>6, <2>1, NewReading
  <2> QED BY <1>1, <1>6, <2>2 DEF ReadOK
<1>8. AnswerOK'
  BY <1>1, <1>6 DEF SInv, AnswerOK, Returned
<1>9. FoundOK'
  BY <1>3, SameFound DEF SInv
<1> QED BY <1>5, <1>7, <1>8, <1>9 DEF SInv

LEMMA ThrowInv == SInv /\ Throw => SInv'
<1> SUFFICES ASSUME SInv, Throw PROVE SInv'
  OBVIOUS
<1>1. /\ op' = [op EXCEPT !.stage = "thrown"] /\ op \in Operation
      /\ SameSession /\ screen' = screen /\ changes' = changes /\ lastFind' = lastFind
  BY DEF Throw, SInv, SearchTyped, vars, SameSession
<1>2. SearchTyped'
  BY <1>1, SameTyped DEF SInv, SearchTyped, Operation
<1>3. /\ op'.name = op.name /\ op'.len = op.len /\ op'.given = op.given
      /\ op'.key = op.key /\ op'.stage = "thrown"
  BY <1>1 DEF Operation
<1>4. ReadOK' /\ AnswerOK'
  BY <1>3 DEF SInv, ReadOK, AnswerOK, Returned
<1>5. FoundOK'
  BY <1>1, SameFound DEF SInv
<1> QED BY <1>2, <1>4, <1>5 DEF SInv

\* Every return: the operation stays as it is but for the result.
LEMMA FinishTypes ==
    ASSUME SInv, op.stage = "look", NEW result \in Nat \cup {NPos}, Finish(result),
           SameSession, screen' = screen, changes' = changes
    PROVE  /\ ReadOK' /\ op' \in Operation
           /\ op'.name = op.name /\ op'.key = op.key /\ op'.at = op.at /\ op'.len = op.len
           /\ op'.given = op.given /\ op'.contents = op.contents /\ op'.look = op.look
           /\ op'.stage = "returned" /\ op'.result = result
           /\ SessionTyped /\ screen \in Screens
           /\ op.key \in Seq(Byte) /\ op.contents \in Seq(Byte) /\ op.at \in Nat /\ op.len \in Nat
<1>1. /\ op' = [op EXCEPT !.stage = "returned", !.result = result] /\ op \in Operation
      /\ SessionTyped /\ screen \in Screens
  BY DEF Finish, SInv, SearchTyped
<1>2. /\ op'.name = op.name /\ op'.key = op.key /\ op'.at = op.at /\ op'.len = op.len
      /\ op'.given = op.given /\ op'.contents = op.contents /\ op'.look = op.look
      /\ op'.stage = "returned" /\ op'.result = result /\ op' \in Operation
  BY <1>1 DEF Operation
<1>3. ReadOK'
  <2>1. op.look \in Screens /\ op.contents \in Conversions(Looked(op, op.look))
    BY DEF SInv, ReadOK
  <2>2. Looked(op, op.look)' = Looked(op, op.look)
    BY <1>2 DEF Looked
  <2>3. (op.contents \in Conversions(Looked(op, op.look)))'
    BY <1>2, <2>1, <2>2, SameReading
  <2> QED BY <1>2, <2>1, <2>3 DEF ReadOK
<1> QED BY <1>1, <1>2, <1>3 DEF Operation

LEMMA ReturnFindInv == SInv /\ ReturnFind => SInv'
<1> SUFFICES ASSUME SInv, ReturnFind PROVE SInv'
  OBVIOUS
<1> DEFINE answer == Find(op.contents, op.key, op.at)
<1>1. /\ op.stage = "look" /\ op.name \in {"contains", "find"} /\ Finish(answer)
      /\ SameSession /\ screen' = screen /\ changes' = changes
      /\ lastFind' = IF op.name = "find" /\ op.look = screen
                     THEN [key |-> op.key, at |-> op'.result] ELSE lastFind
  BY DEF ReturnFind, vars, SameSession
<1>2. op.key \in Seq(Byte) /\ op.contents \in Seq(Byte) /\ op.at \in Nat
  BY DEF SInv, SearchTyped, Operation
<1>3. answer \in Nat \cup {NPos}
  BY <1>2, FindTypes
<1> HIDE DEF answer
<1>4. /\ ReadOK' /\ op' \in Operation
      /\ op'.name = op.name /\ op'.key = op.key /\ op'.at = op.at /\ op'.contents = op.contents
      /\ op'.stage = "returned" /\ op'.result = answer
      /\ SessionTyped /\ screen \in Screens
  BY <1>1, <1>3, FinishTypes
<1>5. SearchTyped'
  BY <1>1, <1>2, <1>3, <1>4, SameTyped DEF SInv, SearchTyped
<1>6. AnswerOK'
  BY <1>1, <1>4 DEF AnswerOK, Returned, Find, Occurrences, answer
<1>7. FoundOK'
  <2>1. CASE op.name = "find" /\ op.look = screen
    <3>1. lastFind'.at = answer /\ lastFind'.key = op.key
      BY <1>1, <1>4, <2>1
    <3>2. ASSUME answer # NPos, Sound(screen) PROVE answer \in Occurrences(BytesOf(screen), op.key)
      <4>1. op.contents \in Conversions(screen)
        BY <1>1, <2>1 DEF SInv, ReadOK, Looked
      <4>2. op.contents = BytesOf(screen)
        BY <1>4, <3>2, <4>1, ScreenTypes, SoundConverts
      <4>3. answer \in Hits(op.contents, op.key, op.at)
        BY <1>2, <3>2, FindIs DEF answer
      <4> QED BY <4>2, <4>3 DEF Hits
    <3> QED BY <1>1, <3>1, <3>2, NewFound
  <2>2. CASE ~ (op.name = "find" /\ op.look = screen)
    BY <1>1, <2>2, SameFound DEF SInv
  <2> QED BY <2>1, <2>2
<1> QED BY <1>4, <1>5, <1>6, <1>7 DEF SInv

LEMMA ReturnCompareInv == SInv /\ ReturnCompare => SInv'
<1> SUFFICES ASSUME SInv, ReturnCompare PROVE SInv'
  OBVIOUS
<1> DEFINE answer == Compare(op.contents, op.key, op.len)
<1>1. /\ op.stage = "look" /\ op.name = "compare" /\ Finish(answer)
      /\ SameSession /\ screen' = screen /\ changes' = changes /\ lastFind' = lastFind
  BY DEF ReturnCompare, vars, SameSession
<1>2. answer \in Nat \cup {NPos}
  BY DEF Compare
<1> HIDE DEF answer
<1>3. /\ ReadOK' /\ op' \in Operation
      /\ op'.name = op.name /\ op'.key = op.key /\ op'.len = op.len /\ op'.given = op.given
      /\ op'.contents = op.contents /\ op'.stage = "returned" /\ op'.result = answer
  BY <1>1, <1>2, FinishTypes
<1>4. SearchTyped'
  BY <1>1, <1>3, SameTyped DEF SInv, SearchTyped
<1>5. AnswerOK'
  BY <1>1, <1>3 DEF SInv, AnswerOK, Returned, Compare, answer
<1>6. FoundOK'
  BY <1>1, SameFound DEF SInv
<1> QED BY <1>3, <1>4, <1>5, <1>6 DEF SInv

\* A round of count(), the last one or not: nothing is answered.
LEMMA CountRoundInv == SInv /\ CountRound => SInv'
<1> SUFFICES ASSUME SInv, CountRound PROVE SInv'
  OBVIOUS
<1> DEFINE pos == Find(op.contents, op.key, op.at)
<1>1. /\ op.stage = "look" /\ op.name = "count" /\ SameSession
      /\ screen' = screen /\ changes' = changes /\ lastFind' = lastFind
      /\ op' = IF pos = NPos THEN [op EXCEPT !.stage = "returned"]
               ELSE [op EXCEPT !.at = pos, !.rc = (@ + 1) % SizeLimit]
  BY DEF CountRound, vars, SameSession
<1>2. /\ op \in Operation /\ op.key \in Seq(Byte) /\ op.contents \in Seq(Byte) /\ op.at \in Nat
      /\ op.rc \in 0..(SizeLimit - 1)
  BY DEF SInv, SearchTyped, Operation
<1>3. pos # NPos => pos \in Nat
  BY <1>2, FindTypes
<1>4. (op.rc + 1) % SizeLimit \in 0..(SizeLimit - 1)
  BY <1>2, BoundsAssumption
<1> HIDE DEF pos
<1>5. /\ op' \in Operation /\ op'.name = "count" /\ op'.contents = op.contents
      /\ op'.look = op.look
  BY <1>1, <1>2, <1>3, <1>4 DEF Operation
<1>6. SearchTyped'
  BY <1>1, <1>5, SameTyped DEF SInv, SearchTyped
<1>7. ReadOK'
  <2>1. op.look \in Screens /\ op.contents \in Conversions(Looked(op, op.look))
    BY <1>1 DEF SInv, ReadOK
  <2>2. Looked(op, op.look)' = Looked(op, op.look)
    BY <1>1, <1>5 DEF Looked
  <2>3. (op.contents \in Conversions(Looked(op, op.look)))'
    BY <1>1, <1>5, <2>1, <2>2, SameReading
  <2> QED BY <1>5, <2>1, <2>3 DEF ReadOK
<1>8. AnswerOK'
  BY <1>5 DEF AnswerOK, Returned
<1>9. FoundOK'
  BY <1>1, SameFound DEF SInv
<1> QED BY <1>6, <1>7, <1>8, <1>9 DEF SInv

LEMMA ChangeInv == SInv /\ Change => SInv'
<1> SUFFICES ASSUME SInv, Change PROVE SInv'
  OBVIOUS
<1>1. /\ changes < MaxChanges /\ screen' \in Screens /\ changes' = changes + 1
      /\ lastFind' = Nothing /\ SameSession /\ op' = op
  BY DEF Change, vars, SameSession
<1>2. SearchTyped'
  BY <1>1, EmptySeq, BoundsAssumption, SameTyped DEF SInv, SearchTyped, Nothing
<1>3. ReadOK'
  <2>1. Looked(op, op.look)' = Looked(op, op.look)
    BY <1>1 DEF Looked
  <2>2. op.stage \in {"look", "returned"} => (op.contents \in Conversions(Looked(op, op.look)))'
    BY <1>1, <2>1, SameReading DEF SInv, ReadOK
  <2> QED BY <1>1, <2>2 DEF SInv, ReadOK
<1>4. AnswerOK'
  BY <1>1 DEF SInv, AnswerOK, Returned, Find, Occurrences, Compare
<1>5. FoundOK'
  BY <1>1 DEF FoundOK, Nothing
<1> QED BY <1>2, <1>3, <1>4, <1>5 DEF SInv

LEMMA SearchStutterInv == SInv /\ UNCHANGED searchVars => SInv'
<1> SUFFICES ASSUME SInv, UNCHANGED searchVars PROVE SInv'
  OBVIOUS
<1>1. /\ SameSession /\ screen' = screen /\ changes' = changes
      /\ lastFind' = lastFind /\ op' = op
  BY DEF searchVars, vars, SameSession
<1>2. SearchTyped'
  BY <1>1, SameTyped DEF SInv, SearchTyped
<1>3. ReadOK'
  <2>1. Looked(op, op.look)' = Looked(op, op.look)
    BY <1>1 DEF Looked
  <2>2. op.stage \in {"look", "returned"} => (op.contents \in Conversions(Looked(op, op.look)))'
    BY <1>1, <2>1, SameReading DEF SInv, ReadOK
  <2> QED BY <1>1, <2>2 DEF SInv, ReadOK
<1>4. AnswerOK'
  BY <1>1 DEF SInv, AnswerOK, Returned, Find, Occurrences, Compare
<1>5. FoundOK'
  BY <1>1, SameFound DEF SInv
<1> QED BY <1>2, <1>3, <1>4, <1>5 DEF SInv

LEMMA SearchNextInv == SInv /\ [SearchNext]_searchVars => SInv'
BY SetupInv, BeginSearchInv, BeginCompareInv, LookInv, ThrowInv, ReturnFindInv, ReturnCompareInv,
   CountRoundInv, ChangeInv, SearchStutterInv DEF SearchNext, Operate

\* A part of a text of single bytes is that part of its bytes.
LEMMA PartOfBytes ==
    ASSUME SessionTyped, NEW line \in Seq(Shown), Sound(line),
           NEW p \in Nat, NEW k \in Nat, p + k <= Len(line)
    PROVE  /\ Sound(SubSeq(line, p + 1, p + k))
           /\ SubSeq(line, p + 1, p + k) \in Seq(Shown)
           /\ BytesOf(SubSeq(line, p + 1, p + k)) = SubSeq(BytesOf(line), p + 1, p + k)
<1> DEFINE part == SubSeq(line, p + 1, p + k)
           bytes == BytesOf(line)
           few == BytesOf(part)
<1>1. /\ part = [i \in 1..k |-> line[p + i]]
      /\ part \in Seq(Shown) /\ Len(part) = k
  BY PartIs
<1> HIDE DEF part
<1>2. /\ \A i \in 1..k : part[i] = line[p + i]
      /\ \A i \in 1..k : p + i \in 1..Len(line)
  <2>1. Len(line) \in Nat
    OBVIOUS
  <2> QED BY <1>1, <2>1
<1>3. Sound(part)
  <2>1. OneByte(part, mine)
    BY <1>1, <1>2 DEF Sound, OneByte
  <2>2. DOMAIN part = 1..k /\ DOMAIN line = 1..Len(line)
    BY <1>1
  <2>3. ~ Misread(part)
    BY <1>2, <2>2 DEF Sound, Misread
  <2> QED BY <2>1, <2>3 DEF Sound
<1>4. part \in Seq(Char) /\ line \in Seq(Char)
  BY <1>1 DEF Shown
<1>5. bytes \in Seq(Byte) /\ few \in Seq(Byte)
  BY <1>4, ReadTypes
<1>6. Len(bytes) = Len(line) /\ \A i \in 1..Len(line) : bytes[i] = Code[mine][line[i]][1]
  BY <1>4, SessionTypes, OneByteEach DEF Sound, BytesOf
<1>7. Len(few) = k /\ \A i \in 1..k : few[i] = Code[mine][part[i]][1]
  BY <1>1, <1>3, <1>4, SessionTypes, OneByteEach DEF Sound, BytesOf
<1> HIDE DEF bytes, few
<1>8. SubSeq(bytes, p + 1, p + k) = [i \in 1..k |-> bytes[p + i]]
  BY <1>5, <1>6, PartIs
<1>9. \A i \in 1..k : few[i] = bytes[p + i]
  BY <1>2, <1>6, <1>7
<1>10. few = [i \in 1..k |-> bytes[p + i]]
  <2>1. few = [i \in 1..Len(few) |-> few[i]]
    BY <1>5
  <2> QED BY <1>7, <1>9, <2>1
<1> QED BY <1>1, <1>3, <1>8, <1>10 DEF part, bytes, few

-----------------------------------------------------------------------------
(* Theorems about searching.                                               *)

\* Every state is in order.
THEOREM SearchInvariant == SearchSpec => []SInv
<1>1. SearchInit => SInv
  BY SearchInitInv
<1>2. SInv /\ [SearchNext]_searchVars => SInv'
  BY SearchNextInv
<1> QED BY <1>1, <1>2, PTL DEF SearchSpec

\* A search keeps to its types: places are numbers or npos, texts are bytes.
THEOREM SearchTypes == SearchSpec => []SearchTypeOK
<1>1. SInv => SearchTypeOK
  BY DEF SInv, SearchTyped, Operation, SearchTypeOK
<1> QED BY <1>1, SearchInvariant, PTL

\* find() and contains() never find what is not on the screen they read, and miss
\* nothing on one that converts; a place may be wrong only when the buffer is full.  Of a
\* session that does not agree with the application this holds for screens in ASCII
\* (core/session.cc, remote/session.cc).
THEOREM SearchTrue == SearchSpec => []SearchIsTrue
<1>1. SInv => SearchIsTrue
  <2> SUFFICES ASSUME SInv, Returned({"find", "contains"}), ~ Misread(op.look) PROVE
                   LET places == {p \in Occurrences(BytesOf(op.look), op.key) : p >= op.at}
                   IN  IF op.result = NPos THEN places = {} \/ Unreadable(op.look)
                       ELSE op.result \in places \/ Unterminated(op.look)
    BY DEF SearchIsTrue
  <2> DEFINE bytes == BytesOf(op.look)
             places == Hits(bytes, op.key, op.at)
  <2>1. /\ op.key \in Seq(Byte) /\ op.at \in Nat /\ op.contents \in Seq(Byte)
        /\ SessionTyped /\ op.look \in Screens
        /\ op.contents \in Conversions(op.look)
        /\ op.result = Find(op.contents, op.key, op.at)
    BY DEF SInv, SearchTyped, Operation, ReadOK, AnswerOK, Looked, Returned
  <2>2. op.look \in Seq(Char) /\ bytes \in Seq(Byte)
    BY <2>1, ScreenTypes, ReadTypes
  <2>3. /\ op.result = NPos => Hits(op.contents, op.key, op.at) = {}
        /\ op.result # NPos => op.result \in Hits(op.contents, op.key, op.at)
    BY <2>1, FindIs
  <2>4. CASE op.contents = bytes
    BY <2>3, <2>4 DEF Hits
  <2>5. CASE op.contents = <<>> /\ Unreadable(op.look)
    <3>1. op.result # NPos => op.result \in places
      BY <2>1, <2>2, <2>3, <2>5, EmptyFound
    <3> QED BY <2>5, <3>1 DEF Hits
  <2>6. CASE Unterminated(op.look) /\ \E garbage \in Seq(Byte) : op.contents = bytes \o garbage
    <3> HIDE DEF bytes
    <3>1. \A p \in Occurrences(bytes, op.key) : p \in Occurrences(op.contents, op.key)
      BY <2>1, <2>2, <2>6, KeptBefore
    <3>2. op.result = NPos => places = {}
      BY <2>3, <3>1 DEF Hits
    <3> QED BY <2>6, <3>2 DEF Hits, bytes
  <2> QED BY <2>1, <2>2, <2>4, <2>5, <2>6, ConversionIs
<1> QED BY <1>1, SearchInvariant, PTL

\* An address that find() returned on this screen is one at which compare() finds the
\* text, if each character of the screen is one byte and the session reads it right.
THEOREM FoundEqual == SearchSpec => []FoundComparesEqual
<1>1. SInv => FoundComparesEqual
  <2> SUFFICES ASSUME SInv, Returned({"compare"}), ~ op.given, op.look = screen,
                      lastFind # Nothing, op.key = lastFind.key, op.at = lastFind.at,
                      \A i \in DOMAIN screen : Bytes[screen[i]][mine] = 1, ~ Misread(screen)
               PROVE  op.result = 0
    BY DEF FoundComparesEqual
  <2> DEFINE p == op.at
             k == Len(op.key)
             part == SubSeq(screen, p + 1, p + k)
  <2>1. /\ op.key \in Seq(Byte) /\ p \in Nat /\ op.contents \in Seq(Byte)
        /\ SessionTyped /\ screen \in Screens
        /\ op.name = "compare" /\ op.len = k
        /\ op.contents \in Conversions(Looked(op, screen))
        /\ op.result = Compare(op.contents, op.key, op.len)
    BY DEF SInv, SearchTyped, Operation, ReadOK, AnswerOK, Returned
  <2>2. screen \in Seq(Shown) /\ Len(screen) = Cells /\ Cells \in Nat /\ k \in Nat
    BY <2>1, ScreenTypes, CellsAssumption
  <2>3. Sound(screen) /\ screen \in Seq(Char)
    <3>1. DOMAIN screen = 1..Len(screen)
      BY <2>2
    <3> QED BY <2>2, <3>1 DEF Sound, OneByte, Shown
  <2>4. p \in Occurrences(BytesOf(screen), op.key)
    BY <2>1, <2>3 DEF SInv, FoundOK, NPos
  <2>5. Len(BytesOf(screen)) = Cells
    BY <2>1, <2>2, <2>3, SessionTypes, OneByteEach DEF Sound, BytesOf
  <2>6. p + k <= Cells /\ SubSeq(BytesOf(screen), p + 1, p + k) = op.key
    <3> DEFINE bytes == BytesOf(screen)
    <3>1. p \in 0..(Len(bytes) - k) /\ SubSeq(bytes, p + 1, p + k) = op.key
      BY <2>4 DEF Occurrences
    <3>2. Len(bytes) = Cells
      BY <2>5
    <3> HIDE DEF bytes, p, k
    <3>3. p + k <= Cells
      BY <2>1, <2>2, <3>1, <3>2
    <3> QED BY <3>1, <3>3 DEF bytes
  <2> HIDE DEF p, k
  <2>7. Min({p + k, Cells}) = p + k
    <3>1. p + k \in Nat
      BY <2>1, <2>2
    <3> QED BY <2>2, <2>6, <3>1, LesserIs
  <2>8. Looked(op, screen) = part
    BY <2>1, <2>7 DEF Looked, p
  <2>9. Sound(part) /\ part \in Seq(Shown) /\ BytesOf(part) = op.key
    BY <2>1, <2>2, <2>3, <2>6, PartOfBytes
  <2> HIDE DEF part
  <2>10. op.contents = op.key
    BY <2>1, <2>8, <2>9, SoundConverts
  <2>11. Min({op.len, Len(op.contents)}) = k
    BY <2>1, <2>2, <2>10, LesserIs DEF k
  <2>12. SubSeq(op.key, 1, Len(op.key)) = op.key
    BY <2>1
  <2> QED BY <2>1, <2>10, <2>11, <2>12 DEF Compare, k
<1> QED BY <1>1, SearchInvariant, PTL
=============================================================================
