-------------------------- MODULE ComplexUriProofs --------------------------
(***************************************************************************)
(* Theorems about ComplexUri, for paths of every length.                   *)
(*                                                                         *)
(* The invariants are not inductive one by one.  That the output pointer   *)
(* finds a slash when it moves back needs to know that the copy begins     *)
(* with one and has no empty names; that it has none needs to know what it *)
(* ends with; and what it ends with is what the automaton's state says, or *)
(* while a quote is read the state it will come back to.                   *)
(*                                                                         *)
(* That the copy is the resolved path is proved last.  Names and Written   *)
(* are recursive functions; what they are for one byte, or one name, more  *)
(* is shown by induction on the length, which the least element of a set   *)
(* of numbers gives (WFMin of WellFoundedInduction).                       *)
(***************************************************************************)
EXTENDS ComplexUri, SequenceTheorems, WellFoundedInduction, TLAPS

\* The state the copy is in, whether or not a quote is being read.
Eff == IF state \in Quotes THEN back ELSE state

\* More bytes have been taken than written, and a quote took two or three.
RoomInv ==
  /\ u < p
  /\ state = "quoted" => u + 1 < p
  /\ state = "quoted_second" => u + 2 < p
  /\ p <= Len(uri) => ch \in Bytes

\* Before its first byte the copy is empty; then it begins with a slash.
BeginInv ==
  /\ out = <<>> => state = "usual" /\ p = 1 /\ ch = "slash"
  /\ out # <<>> => out[1] = "slash"

\* The end of the copy is what the state says.
EndsSlash == u >= 1 /\ out[u] = "slash"
EndsDot == u >= 2 /\ out[u] = "dot" /\ out[u - 1] = "slash"
EndsDotDot == u >= 3 /\ out[u] = "dot" /\ out[u - 1] = "dot" /\ out[u - 2] = "slash"
EndInv ==
  /\ Eff = "slash" => EndsSlash /\ ext = 0
  /\ Eff = "dot" => EndsDot /\ ext = 0
  /\ Eff = "dot_dot" => EndsDotDot /\ ext = 0
  /\ Eff = "usual" /\ out # <<>> => ~EndsSlash /\ ~EndsDot /\ ~EndsDotDot

UriInv ==
  /\ TypeOK /\ state # "underrun"
  /\ RoomInv /\ BeginInv /\ EndInv /\ NormalForm /\ ExtensionOfName

-----------------------------------------------------------------------------
(***************************************************************************)
(* What the two ways of changing the copy do to its bytes.                 *)
(***************************************************************************)
LEMMA AppendFacts ==
  ASSUME NEW s \in Seq(Bytes), NEW c \in Bytes
  PROVE  /\ Append(s, c) \in Seq(Bytes) /\ Append(s, c) # <<>>
         /\ Len(Append(s, c)) = Len(s) + 1
         /\ Append(s, c)[Len(s) + 1] = c
         /\ \A i \in 1..Len(s) : Append(s, c)[i] = s[i]
  OBVIOUS

LEMMA PrefixFacts ==
  ASSUME NEW s \in Seq(Bytes), NEW k \in 1..Len(s)
  PROVE  /\ SubSeq(s, 1, k) \in Seq(Bytes) /\ SubSeq(s, 1, k) # <<>>
         /\ Len(SubSeq(s, 1, k)) = k
         /\ \A i \in 1..k : SubSeq(s, 1, k)[i] = s[i]
  OBVIOUS

LEMMA EmptyFacts ==
  ASSUME NEW s \in Seq(Bytes)
  PROVE  Len(s) \in Nat /\ (s = <<>> <=> Len(s) = 0)
  OBVIOUS

LEMMA TakeFacts ==
  ASSUME TypeOK, p <= Len(uri), Take, uri' = uri
  PROVE  /\ p' = p + 1 /\ p' \in 1..(Len(uri) + 1)
         /\ ch' \in Bytes \cup {Behind}
         /\ p' <= Len(uri) => ch' \in Bytes
  BY DEF TypeOK, Take

-----------------------------------------------------------------------------
(***************************************************************************)
(* The steps of the automaton, by what they do to the copy: put a byte     *)
(* behind it, cut it back to a slash, or leave it alone.                   *)
(***************************************************************************)
PutByte(c) == out' = Append(out, c)
CutTo(k) == out' = SubSeq(out, 1, k)

\* A byte is put behind the copy.
LEMMA PutSafe ==
  ASSUME UriInv, p <= Len(uri), Take, uri' = uri, back' = back,
         NEW c \in Bytes, PutByte(c), seen' \in Seq(Bytes),
         state' \in Plain,
         out = <<>> => c = "slash",
         c = "slash" /\ out # <<>> => ~EndsSlash /\ ~EndsDot /\ ~EndsDotDot,
         state' = "slash" => c = "slash" /\ ext' = 0,
         state' = "dot" => c = "dot" /\ EndsSlash /\ ext' = 0,
         state' = "dot_dot" => c = "dot" /\ EndsDot /\ ext' = 0,
         state' = "usual" => c # "slash" /\ ~(c = "dot" /\ (EndsSlash \/ EndsDot)),
         \/ ext' = 0
         \/ ext' = ext /\ c \notin {"dot", "slash"}
         \/ ext' = u + 1 /\ c = "dot"
  PROVE  UriInv'
<1>1. /\ out' \in Seq(Bytes) /\ out' # <<>> /\ u' = u + 1 /\ out'[u + 1] = c
      /\ \A i \in 1..u : out'[i] = out[i]
      /\ u \in Nat /\ (out = <<>> <=> u = 0)
  BY AppendFacts, EmptyFacts DEF PutByte, UriInv, TypeOK, u
<1>2. /\ p' = p + 1 /\ p' \in 1..(Len(uri) + 1) /\ ch' \in Bytes \cup {Behind}
      /\ p' <= Len(uri) => ch' \in Bytes
  BY TakeFacts DEF UriInv
<1>3. TypeOK'
  BY <1>1, <1>2 DEF UriInv, TypeOK
<1>4. RoomInv' /\ state' # "underrun"
  BY <1>1, <1>2 DEF UriInv, RoomInv, TypeOK, Plain
<1>5. BeginInv'
  BY <1>1 DEF UriInv, BeginInv
<1>6. EndInv'
  <2>1. Eff' = state'
    BY DEF Eff, Plain, Quotes
  <2>0. /\ u' - 1 = u /\ u' - 2 = u - 1
        /\ u >= 1 => out'[u] = out[u]
        /\ u >= 2 => out'[u - 1] = out[u - 1]
    BY <1>1
  <2>2. EndsSlash' <=> c = "slash"
    BY <1>1 DEF EndsSlash
  <2>3. EndsDot' <=> c = "dot" /\ EndsSlash
    BY <1>1, <2>0 DEF EndsSlash, EndsDot
  <2>4. EndsDotDot' <=> c = "dot" /\ EndsDot
    BY <1>1, <2>0 DEF EndsDot, EndsDotDot
  <2> QED
    BY <2>1, <2>2, <2>3, <2>4 DEF EndInv, Plain
<1>7. NormalForm'
  <2>1. \A i \in 2..u' : i <= u \/ (i = u + 1 /\ out'[i] = c)
    BY <1>1
  <2>2. SUFFICES ASSUME NEW i \in 2..u', out'[i] = "slash"
                 PROVE  /\ out'[i - 1] # "slash"
                        /\ ~(i > 2 /\ out'[i - 1] = "dot" /\ out'[i - 2] = "slash")
                        /\ ~(i > 3 /\ out'[i - 1] = "dot" /\ out'[i - 2] = "dot"
                                   /\ out'[i - 3] = "slash")
    BY DEF NormalForm
  <2>3. CASE i <= u
    <3>1. i \in 2..u /\ u \in Nat
      BY <1>1, <2>3
    <3>2. /\ out'[i] = out[i] /\ out'[i - 1] = out[i - 1]
          /\ i > 2 => out'[i - 2] = out[i - 2]
          /\ i > 3 => out'[i - 3] = out[i - 3]
      BY <1>1, <3>1
    <3>3. /\ out[i - 1] # "slash"
          /\ ~(i > 2 /\ out[i - 1] = "dot" /\ out[i - 2] = "slash")
          /\ ~(i > 3 /\ out[i - 1] = "dot" /\ out[i - 2] = "dot" /\ out[i - 3] = "slash")
      BY <2>2, <3>1, <3>2 DEF UriInv, NormalForm
    <3> QED BY <3>2, <3>3
  <2>4. CASE i = u + 1
    BY <1>1, <2>2, <2>4 DEF EndsSlash, EndsDot, EndsDotDot
  <2> QED BY <2>1, <2>3, <2>4
<1>8. ExtensionOfName'
  <2>1. ext \in Nat /\ ExtensionOfName
    BY DEF UriInv, TypeOK
  <2>2. CASE ext' = 0
    BY <2>2 DEF ExtensionOfName
  <2>3. CASE ext' # 0 /\ ext' = ext /\ c \notin {"dot", "slash"}
    BY <1>1, <2>1, <2>3 DEF ExtensionOfName
  <2>4. CASE ext' = u + 1 /\ c = "dot"
    BY <1>1, <2>4 DEF ExtensionOfName
  <2> QED BY <2>2, <2>3, <2>4
<1> QED BY <1>3, <1>4, <1>5, <1>6, <1>7, <1>8 DEF UriInv

\* The copy is cut back behind one of its slashes.
LEMMA CutSafe ==
  ASSUME UriInv, p <= Len(uri), Take, uri' = uri, back' = back,
         NEW k \in 1..u, out[k] = "slash", CutTo(k),
         seen' \in Seq(Bytes), state' = "slash", ext = 0, ext' = ext
  PROVE  UriInv'
<1>0. out \in Seq(Bytes) /\ u \in Nat /\ k \in 1..Len(out) /\ out # <<>>
  BY EmptyFacts DEF UriInv, TypeOK, u
<1>1. /\ out' \in Seq(Bytes) /\ out' # <<>> /\ u' = k
      /\ \A i \in 1..k : out'[i] = out[i]
  BY <1>0, PrefixFacts DEF CutTo, u
<1>2. /\ p' = p + 1 /\ p' \in 1..(Len(uri) + 1) /\ ch' \in Bytes \cup {Behind}
      /\ p' <= Len(uri) => ch' \in Bytes
  BY TakeFacts DEF UriInv
<1>3. TypeOK'
  BY <1>1, <1>2 DEF UriInv, TypeOK, Plain
<1>4. RoomInv' /\ state' # "underrun"
  BY <1>0, <1>1, <1>2 DEF UriInv, RoomInv, TypeOK
<1>5. BeginInv'
  BY <1>0, <1>1 DEF UriInv, BeginInv
<1>6. EndInv'
  BY <1>1 DEF EndInv, EndsSlash, Eff, Quotes
<1>7. NormalForm'
  <2>1. NormalForm /\ u \in Nat
    BY <1>0 DEF UriInv
  <2>2. ASSUME NEW i \in 2..k
        PROVE  /\ i \in 2..u /\ out'[i] = out[i] /\ out'[i - 1] = out[i - 1]
               /\ i > 2 => out'[i - 2] = out[i - 2]
               /\ i > 3 => out'[i - 3] = out[i - 3]
    BY <1>0, <1>1
  <2>3. SUFFICES ASSUME NEW i \in 2..k, out'[i] = "slash"
                 PROVE  /\ out'[i - 1] # "slash"
                        /\ ~(i > 2 /\ out'[i - 1] = "dot" /\ out'[i - 2] = "slash")
                        /\ ~(i > 3 /\ out'[i - 1] = "dot" /\ out'[i - 2] = "dot"
                                   /\ out'[i - 3] = "slash")
    BY <1>1 DEF NormalForm
  <2>4. /\ i \in 2..u /\ out[i] = "slash" /\ out'[i - 1] = out[i - 1]
        /\ i > 2 => out'[i - 2] = out[i - 2]
        /\ i > 3 => out'[i - 3] = out[i - 3]
    BY <2>2, <2>3
  <2>5. /\ out[i - 1] # "slash"
        /\ ~(i > 2 /\ out[i - 1] = "dot" /\ out[i - 2] = "slash")
        /\ ~(i > 3 /\ out[i - 1] = "dot" /\ out[i - 2] = "dot" /\ out[i - 3] = "slash")
    BY <2>1, <2>4 DEF NormalForm
  <2> QED BY <2>4, <2>5
<1>8. ExtensionOfName'
  BY DEF ExtensionOfName
<1> QED BY <1>3, <1>4, <1>5, <1>6, <1>7, <1>8 DEF UriInv

\* The copy is left alone, and the automaton's state means the same end of it.
LEMMA StaySafe ==
  ASSUME UriInv, uri' = uri, out' = out, ext' = ext,
         TypeOK', RoomInv', state' # "underrun",
         out # <<>> \/ (state' = state /\ p' = p /\ ch' = ch),
         Eff' = Eff \/ Eff' \in Ends
  PROVE  UriInv'
<1>1. u' = u
  BY DEF u
<1>2. BeginInv'
  BY DEF UriInv, BeginInv
<1>3. EndInv'
  BY <1>1 DEF UriInv, EndInv, EndsSlash, EndsDot, EndsDotDot, Ends
<1>4. NormalForm' /\ ExtensionOfName'
  BY <1>1 DEF UriInv, NormalForm, ExtensionOfName
<1> QED BY <1>2, <1>3, <1>4 DEF UriInv

-----------------------------------------------------------------------------
(***************************************************************************)
(* The actions.                                                            *)
(***************************************************************************)
LEMMA RejectSafe ==
  ASSUME UriInv, NEW why \in Ends \ {"underrun"}, Reject(why), out # <<>>
  PROVE  UriInv'
<1>1. TypeOK' /\ RoomInv' /\ Eff' \in Ends
  BY DEF UriInv, TypeOK, RoomInv, Reject, Eff, Ends, Quotes, u
<1> QED BY <1>1, StaySafe DEF Reject

LEMMA QuoteSafe ==
  ASSUME UriInv, p <= Len(uri), state \in Plain, Quote
  PROVE  UriInv'
<1>1. /\ p' = p + 1 /\ p' \in 1..(Len(uri) + 1) /\ ch' \in Bytes \cup {Behind}
      /\ p' <= Len(uri) => ch' \in Bytes
  BY TakeFacts DEF UriInv, Quote
<1>2. out # <<>>
  BY DEF UriInv, BeginInv, Quote
<1>3. TypeOK'
  BY <1>1 DEF UriInv, TypeOK, Quote, Quotes
<1>4. RoomInv'
  BY <1>1, EmptyFacts DEF UriInv, TypeOK, RoomInv, Quote, u
<1>5. Eff' = Eff
  BY DEF Quote, Eff, Plain, Quotes
<1> QED BY <1>2, <1>3, <1>4, <1>5, StaySafe DEF Quote

LEMMA UsualSafe == UriInv /\ Usual => UriInv'
<1> SUFFICES ASSUME UriInv, Usual PROVE UriInv'
  OBVIOUS
<1>1. /\ p <= Len(uri) /\ ch \in Bytes /\ state = "usual" /\ Eff = "usual"
      /\ seen \in Seq(Bytes)
  BY DEF UriInv, RoomInv, TypeOK, Usual, In, Eff, Quotes
<1>2. /\ out = <<>> => ch = "slash"
      /\ out # <<>> => ~EndsSlash /\ ~EndsDot /\ ~EndsDotDot
      /\ out = <<>> => ~EndsSlash /\ ~EndsDot /\ ~EndsDotDot
  BY <1>1 DEF UriInv, BeginInv, EndInv, EndsSlash, EndsDot, EndsDotDot, u
<1>3. ASSUME NEW s \in Plain, Eat(s)
      PROVE  /\ Take /\ uri' = uri /\ back' = back /\ seen' \in Seq(Bytes)
             /\ state' = s
  BY <1>1, <1>3, AppendFacts DEF Eat
<1>4. CASE ch = "slash" /\ Eat("slash") /\ Put /\ ext' = 0
  BY <1>1, <1>2, <1>3, <1>4, PutSafe DEF Put, PutByte, Plain
<1>5. CASE ch = "dot" /\ Eat("usual") /\ Put /\ ext' = u + 1
  BY <1>1, <1>2, <1>3, <1>5, PutSafe DEF Put, PutByte, Plain
<1>6. CASE ch \in {"hex", "other"} /\ Eat("usual") /\ Put /\ UNCHANGED ext
  BY <1>1, <1>2, <1>3, <1>6, PutSafe DEF Put, PutByte, Plain
<1>7. CASE Quote
  BY <1>1, <1>7, QuoteSafe DEF Plain
<1> QED BY <1>4, <1>5, <1>6, <1>7 DEF Usual

LEMMA SlashSafe == UriInv /\ Slash => UriInv'
<1> SUFFICES ASSUME UriInv, Slash PROVE UriInv'
  OBVIOUS
<1>1. /\ p <= Len(uri) /\ ch \in Bytes /\ state = "slash" /\ Eff = "slash"
      /\ seen \in Seq(Bytes)
  BY DEF UriInv, RoomInv, TypeOK, Slash, In, Eff, Quotes
<1>2. EndsSlash /\ ~EndsDot /\ ~EndsDotDot /\ ext = 0 /\ out # <<>>
  BY <1>1 DEF UriInv, EndInv, BeginInv, EndsSlash, EndsDot, EndsDotDot
<1>3. ASSUME NEW s \in Plain, Eat(s)
      PROVE  /\ Take /\ uri' = uri /\ back' = back /\ seen' \in Seq(Bytes)
             /\ state' = s
  BY <1>1, <1>3, AppendFacts DEF Eat
<1>4. CASE ch = "slash" /\ Eat("slash") /\ UNCHANGED <<out, ext>>
  <2>1. /\ p' = p + 1 /\ p' \in 1..(Len(uri) + 1) /\ ch' \in Bytes \cup {Behind}
        /\ p' <= Len(uri) => ch' \in Bytes
    BY <1>1, <1>3, <1>4, TakeFacts DEF UriInv, Plain
  <2>2. TypeOK' /\ RoomInv'
    BY <1>1, <1>3, <1>4, <2>1, EmptyFacts DEF UriInv, TypeOK, RoomInv, Plain, u
  <2>3. Eff' = Eff
    BY <1>1, <1>4 DEF Eff, Eat, Quotes
  <2> QED BY <1>1, <1>2, <1>3, <1>4, <2>2, <2>3, StaySafe DEF Plain
<1>5. CASE ch = "dot" /\ Eat("dot") /\ Put /\ UNCHANGED ext
  BY <1>1, <1>2, <1>3, <1>5, PutSafe DEF Put, PutByte, Plain
<1>6. CASE ch \in {"hex", "other"} /\ Eat("usual") /\ Put /\ UNCHANGED ext
  BY <1>1, <1>2, <1>3, <1>6, PutSafe DEF Put, PutByte, Plain
<1>7. CASE Quote
  BY <1>1, <1>7, QuoteSafe DEF Plain
<1> QED BY <1>4, <1>5, <1>6, <1>7 DEF Slash

LEMMA DotSafe == UriInv /\ Dot => UriInv'
<1> SUFFICES ASSUME UriInv, Dot PROVE UriInv'
  OBVIOUS
<1>1. /\ p <= Len(uri) /\ ch \in Bytes /\ state = "dot" /\ Eff = "dot"
      /\ seen \in Seq(Bytes)
  BY DEF UriInv, RoomInv, TypeOK, Dot, In, Eff, Quotes
<1>2. EndsDot /\ ~EndsSlash /\ ~EndsDotDot /\ ext = 0 /\ out # <<>>
  BY <1>1 DEF UriInv, EndInv, BeginInv, EndsSlash, EndsDot, EndsDotDot
<1>3. ASSUME NEW s \in Plain, Eat(s)
      PROVE  /\ Take /\ uri' = uri /\ back' = back /\ seen' \in Seq(Bytes)
             /\ state' = s
  BY <1>1, <1>3, AppendFacts DEF Eat
<1>4. CASE ch = "slash" /\ Eat("slash") /\ out' = SubSeq(out, 1, u - 1) /\ UNCHANGED ext
  <2>1. u - 1 \in 1..u /\ out[u - 1] = "slash"
    BY <1>2, EmptyFacts DEF EndsDot, UriInv, TypeOK, u
  <2> QED BY <1>1, <1>2, <1>3, <1>4, <2>1, CutSafe DEF CutTo, Plain
<1>5. CASE ch = "dot" /\ Eat("dot_dot") /\ Put /\ UNCHANGED ext
  BY <1>1, <1>2, <1>3, <1>5, PutSafe DEF Put, PutByte, Plain
<1>6. CASE ch \in {"hex", "other"} /\ Eat("usual") /\ Put /\ UNCHANGED ext
  BY <1>1, <1>2, <1>3, <1>6, PutSafe DEF Put, PutByte, Plain
<1>7. CASE Quote
  BY <1>1, <1>7, QuoteSafe DEF Plain
<1> QED BY <1>4, <1>5, <1>6, <1>7 DEF Dot

\* Behind at least four bytes that end in "/..", there is a slash to go back to.
LEMMA SlashFound ==
  ASSUME UriInv, EndsDotDot, u >= 4
  PROVE  SlashBefore(1)
<1>1. u \in Nat /\ out # <<>> /\ out[1] = "slash"
  BY EmptyFacts DEF UriInv, BeginInv, TypeOK, EndsDotDot, u
<1>2. u # 4
  BY <1>1 DEF UriInv, NormalForm, EndsDotDot
<1> QED BY <1>1, <1>2 DEF SlashBefore

LEMMA DotDotSafe == UriInv /\ DotDot => UriInv'
<1> SUFFICES ASSUME UriInv, DotDot PROVE UriInv'
  OBVIOUS
<1>1. /\ p <= Len(uri) /\ ch \in Bytes /\ state = "dot_dot" /\ Eff = "dot_dot"
      /\ seen \in Seq(Bytes)
  BY DEF UriInv, RoomInv, TypeOK, DotDot, In, Eff, Quotes
<1>2. EndsDotDot /\ ~EndsSlash /\ ~EndsDot /\ ext = 0 /\ out # <<>> /\ u \in Nat
  BY <1>1, EmptyFacts DEF UriInv, EndInv, BeginInv, EndsSlash, EndsDot, EndsDotDot, TypeOK, u
<1>3. ASSUME NEW s \in Plain, Eat(s)
      PROVE  /\ Take /\ uri' = uri /\ back' = back /\ seen' \in Seq(Bytes)
             /\ state' = s
  BY <1>1, <1>3, AppendFacts DEF Eat
<1>4. CASE ch = "slash" /\ Up
  <2>1. CASE u < 4 /\ Reject("above_root")
    BY <1>2, <2>1, RejectSafe DEF Ends
  <2>2. CASE u >= 4
    <3>1. \E k \in 1..(u - 4) : SlashBefore(k)
      BY <1>2, <2>2, SlashFound DEF SlashBefore
    <3>2. PICK k \in 1..(u - 4) : /\ SlashBefore(k) /\ Eat("slash")
                                  /\ out' = SubSeq(out, 1, k) /\ UNCHANGED ext
      BY <1>2, <1>4, <2>2, <3>1 DEF Up
    <3>3. k \in 1..u /\ out[k] = "slash"
      BY <1>2, <3>2 DEF SlashBefore
    <3> QED BY <1>1, <1>2, <1>3, <3>2, <3>3, CutSafe DEF CutTo, Plain
  <2> QED BY <1>4, <2>1, <2>2 DEF Up
<1>5. CASE ch \in {"dot", "hex", "other"} /\ Eat("usual") /\ Put /\ UNCHANGED ext
  BY <1>1, <1>2, <1>3, <1>5, PutSafe DEF Put, PutByte, Plain
<1>6. CASE Quote
  BY <1>1, <1>6, QuoteSafe DEF Plain
<1> QED BY <1>4, <1>5, <1>6 DEF DotDot

\* In a quote the copy is not empty.
LEMMA QuotedNotEmpty ==
  ASSUME UriInv, state \in Quotes
  PROVE  out # <<>>
  BY DEF UriInv, BeginInv, Quotes

LEMMA QuotedSafe == UriInv /\ Quoted => UriInv'
<1> SUFFICES ASSUME UriInv, Quoted PROVE UriInv'
  OBVIOUS
<1>1. p <= Len(uri) /\ state = "quoted" /\ out # <<>>
  BY QuotedNotEmpty DEF Quoted, In, Quotes
<1>2. CASE /\ ch = "hex" /\ state' = "quoted_second" /\ Take
           /\ UNCHANGED <<uri, back, out, ext, seen>>
  <2>1. /\ p' = p + 1 /\ p' \in 1..(Len(uri) + 1) /\ ch' \in Bytes \cup {Behind}
        /\ p' <= Len(uri) => ch' \in Bytes
    BY <1>1, <1>2, TakeFacts DEF UriInv
  <2>2. TypeOK' /\ RoomInv'
    BY <1>1, <1>2, <2>1, EmptyFacts DEF UriInv, TypeOK, RoomInv, Quotes, u
  <2>3. Eff' = Eff
    BY <1>1, <1>2 DEF Eff, Quotes
  <2> QED BY <1>1, <1>2, <2>2, <2>3, StaySafe
<1>3. CASE Reject("bad_quote")
  BY <1>1, <1>3, RejectSafe DEF Ends
<1> QED BY <1>2, <1>3 DEF Quoted

LEMMA QuotedSecondSafe == UriInv /\ QuotedSecond => UriInv'
<1> SUFFICES ASSUME UriInv, QuotedSecond PROVE UriInv'
  OBVIOUS
<1>1. p <= Len(uri) /\ state = "quoted_second" /\ out # <<>> /\ back \in Plain
  BY QuotedNotEmpty DEF QuotedSecond, In, Quotes, UriInv, TypeOK
<1>2. ASSUME NEW c \in Bytes \ {"percent"}, ch' = c, state' = back,
             UNCHANGED <<uri, p, back, out, ext, seen>>
      PROVE  UriInv'
  <2>1. TypeOK' /\ RoomInv'
    BY <1>1, <1>2, EmptyFacts DEF UriInv, TypeOK, RoomInv, Plain, u
  <2>2. Eff' = Eff
    BY <1>1, <1>2 DEF Eff, Plain, Quotes
  <2>3. state' # "underrun"
    BY <1>1, <1>2 DEF Plain
  <2> QED BY <1>1, <1>2, <2>1, <2>2, <2>3, StaySafe
<1>3. CASE /\ ch = "hex" /\ state' = "usual" /\ Take
           /\ out' = Append(out, "percent") /\ seen' = Append(seen, "percent")
           /\ UNCHANGED <<uri, back, ext>>
  <2>1. seen' \in Seq(Bytes) /\ "percent" \in Bytes
    BY <1>3, AppendFacts DEF UriInv, TypeOK, Bytes
  <2> QED BY <1>1, <1>3, <2>1, PutSafe DEF PutByte, Plain
<1>4. CASE Reject("bad_quote")
  BY <1>1, <1>4, RejectSafe DEF Ends
<1> QED BY <1>2, <1>3, <1>4 DEF QuotedSecond

LEMMA FinishSafe == UriInv /\ Finish => UriInv'
<1> SUFFICES ASSUME UriInv, Finish PROVE UriInv'
  OBVIOUS
<1>1. p > Len(uri) /\ Len(uri) >= 1
  BY EmptyFacts DEF Finish, UriInv, TypeOK
<1>2. out # <<>>
  BY <1>1 DEF UriInv, BeginInv
<1>3. state' \in Ends \ {"underrun"} /\ Eff' \in Ends
  BY DEF Finish, Ends, Eff, Quotes
<1>4. TypeOK' /\ RoomInv'
  BY <1>3 DEF Finish, UriInv, TypeOK, RoomInv, Ends, u
<1> QED BY <1>2, <1>3, <1>4, StaySafe DEF Finish

-----------------------------------------------------------------------------
(***************************************************************************)
(* The invariant, and the theorems.                                        *)
(***************************************************************************)
LEMMA UriInit == Init => UriInv
<1> SUFFICES ASSUME Init PROVE UriInv
  OBVIOUS
<1>1. uri \in Seq(Bytes) /\ uri # <<>> /\ uri[1] = "slash" /\ Len(uri) \in Nat /\ Len(uri) >= 1
  <2>1. PICK n \in 1..MaxLen : uri \in [1..n -> Bytes]
    BY DEF Init, Paths
  <2>2. n \in Nat /\ n >= 1
    BY MaxLenAssumption
  <2> QED BY <2>1, <2>2 DEF Init, Paths
<1>2. u = 0
  BY DEF Init, u
<1>3. TypeOK /\ state # "underrun"
  BY <1>1 DEF Init, TypeOK, Bytes, Plain
<1> QED BY <1>1, <1>2, <1>3
        DEF Init, UriInv, RoomInv, BeginInv, EndInv, Eff, NormalForm, ExtensionOfName, Quotes, Bytes

LEMMA UriStep == UriInv /\ [Next]_vars => UriInv'
<1> SUFFICES ASSUME UriInv, [Next]_vars PROVE UriInv'
  OBVIOUS
<1>1. CASE UNCHANGED vars
  BY <1>1 DEF UriInv, TypeOK, RoomInv, BeginInv, EndInv, EndsSlash, EndsDot, EndsDotDot,
              Eff, NormalForm, ExtensionOfName, vars, u
<1>2. CASE Over
  BY <1>1, <1>2 DEF Over
<1> QED BY <1>1, <1>2, UsualSafe, SlashSafe, DotSafe, DotDotSafe, QuotedSafe,
           QuotedSecondSafe, FinishSafe DEF Next

LEMMA UriSafe == Spec => []UriInv
  BY UriInit, UriStep, PTL DEF Spec

\* Every variable of the automaton keeps its type, however long the path.
THEOREM UriTypeCorrect == Spec => []TypeOK
<1>1. UriInv => TypeOK
  BY DEF UriInv
<1> QED BY <1>1, UriSafe, PTL

\* The output pointer never leaves the copy: it finds a slash when it moves
\* back, and stays behind the input pointer.
THEOREM CopyIsNotLeft == Spec => []StaysInCopy
<1>1. UriInv => StaysInCopy
  BY DEF UriInv, RoomInv, StaysInCopy
<1> QED BY <1>1, UriSafe, PTL

\* The copied path is not empty and begins with a slash.
THEOREM CopyIsRooted == Spec => []Rooted
<1>1. UriInv => Rooted
  BY DEF UriInv, BeginInv, Rooted
<1> QED BY <1>1, UriSafe, PTL

\* The copy has no empty names and no "." or ".." that a slash ends.
THEOREM CopyIsNormal == Spec => []NormalForm
<1>1. UriInv => NormalForm
  BY DEF UriInv
<1> QED BY <1>1, UriSafe, PTL

\* The extension lies in the last name and has no dot in it.
THEOREM ExtensionIsInName == Spec => []ExtensionOfName
<1>1. UriInv => ExtensionOfName
  BY DEF UriInv
<1> QED BY <1>1, UriSafe, PTL

-----------------------------------------------------------------------------
\* Induction on a set of natural numbers.
LEMMA NumbersByInduction ==
  ASSUME NEW S, 0 \in S, \A n \in Nat : n \in S => n + 1 \in S
  PROVE  \A n \in Nat : n \in S
<1> DEFINE T == Nat \ S
           R == OpToRel(<, Nat)
<1> SUFFICES ASSUME T # {} PROVE FALSE
  OBVIOUS
<1>1. IsWellFoundedOn(R, Nat)
  BY NatLessThanWellFounded
<1>2. PICK x \in T : \A y \in T : <<y, x>> \notin R
  <2> HIDE DEF R
  <2>1. T \subseteq Nat
    OBVIOUS
  <2> QED BY <1>1, <2>1, WFMin
<1>3. x \in Nat /\ x \notin S /\ x # 0
  OBVIOUS
<1>4. x - 1 \in Nat /\ x - 1 + 1 = x
  BY <1>3
<1>5. x - 1 \in T
  BY <1>3, <1>4
<1>6. <<x - 1, x>> \in R
  BY <1>3, <1>4 DEF OpToRel
<1> QED BY <1>2, <1>5, <1>6

-----------------------------------------------------------------------------
(***************************************************************************)
(* The recursive functions inside Names and Written, by what defines them: *)
(* there is one of every length, and two of them agree where the sequences *)
(* they go through do.                                                     *)
(***************************************************************************)
NamesFrom(f, path, n) ==
  f = [i \in 1..n |-> IF i = 1 THEN <<<<>>>> ELSE AddByte(f[i - 1], path[i])]
WrittenFrom(f, names, n) ==
  f = [i \in 0..n |-> IF i = 0 THEN <<>> ELSE f[i - 1] \o <<"slash">> \o names[i]]

LEMMA NamesExist ==
  ASSUME NEW path, NEW n \in Nat
  PROVE  \E f : NamesFrom(f, path, n)
<1> DEFINE S == {k \in Nat : \E f : NamesFrom(f, path, k)}
<1>1. 0 \in S
  <2>1. NamesFrom([i \in 1..0 |-> <<>>], path, 0)
    BY DEF NamesFrom
  <2> QED BY <2>1
<1>2. ASSUME NEW k \in Nat, k \in S PROVE k + 1 \in S
  <2>1. PICK f : NamesFrom(f, path, k)
    BY <1>2
  <2> DEFINE v == IF k + 1 = 1 THEN <<<<>>>> ELSE AddByte(f[k], path[k + 1])
             g == [i \in 1..(k + 1) |-> IF i = k + 1 THEN v ELSE f[i]]
  <2>2. \A i \in 1..k : f[i] = IF i = 1 THEN <<<<>>>> ELSE AddByte(f[i - 1], path[i])
    BY <2>1 DEF NamesFrom
  <2>3. \A i \in 1..(k + 1) : g[i] = IF i = 1 THEN <<<<>>>> ELSE AddByte(g[i - 1], path[i])
    <3> TAKE i \in 1..(k + 1)
    <3>1. CASE i = k + 1
      BY <3>1
    <3>2. CASE i \in 1..k
      BY <2>2, <3>2
    <3> QED BY <3>1, <3>2
  <2>4. NamesFrom(g, path, k + 1)
    BY <2>3 DEF NamesFrom
  <2> QED BY <2>4
<1> HIDE DEF S
<1>3. n \in S
  BY <1>1, <1>2, NumbersByInduction
<1> QED BY <1>3 DEF S

LEMMA WrittenExist ==
  ASSUME NEW names, NEW n \in Nat
  PROVE  \E f : WrittenFrom(f, names, n)
<1> DEFINE S == {k \in Nat : \E f : WrittenFrom(f, names, k)}
<1>1. 0 \in S
  <2>1. WrittenFrom([i \in 0..0 |-> <<>>], names, 0)
    BY DEF WrittenFrom
  <2> QED BY <2>1
<1>2. ASSUME NEW k \in Nat, k \in S PROVE k + 1 \in S
  <2>1. PICK f : WrittenFrom(f, names, k)
    BY <1>2
  <2> DEFINE g == [i \in 0..(k + 1) |->
                     IF i = k + 1 THEN f[k] \o <<"slash">> \o names[k + 1] ELSE f[i]]
  <2>2. \A i \in 0..k : f[i] = IF i = 0 THEN <<>> ELSE f[i - 1] \o <<"slash">> \o names[i]
    BY <2>1 DEF WrittenFrom
  <2>3. \A i \in 0..(k + 1) :
          g[i] = IF i = 0 THEN <<>> ELSE g[i - 1] \o <<"slash">> \o names[i]
    <3> TAKE i \in 0..(k + 1)
    <3>1. CASE i = k + 1
      BY <3>1
    <3>2. CASE i \in 0..k
      BY <2>2, <3>2
    <3> QED BY <3>1, <3>2
  <2>4. WrittenFrom(g, names, k + 1)
    BY <2>3 DEF WrittenFrom
  <2> QED BY <2>4
<1> HIDE DEF S
<1>3. n \in S
  BY <1>1, <1>2, NumbersByInduction
<1> QED BY <1>3 DEF S

LEMMA NamesAgree ==
  ASSUME NEW m \in Nat, NEW n \in Nat, m <= n, NEW path, NEW longer,
         \A i \in 1..m : path[i] = longer[i],
         NEW f, NamesFrom(f, path, m), NEW g, NamesFrom(g, longer, n)
  PROVE  \A i \in 1..m : f[i] = g[i]
<1> DEFINE S == {k \in Nat : k \in 1..m => f[k] = g[k]}
<1>1. 0 \in S
  OBVIOUS
<1>2. ASSUME NEW k \in Nat, k \in S PROVE k + 1 \in S
  <2>1. CASE k + 1 \notin 1..m
    BY <2>1
  <2>2. CASE k + 1 \in 1..m
    <3>1. /\ f[k + 1] = IF k + 1 = 1 THEN <<<<>>>> ELSE AddByte(f[k], path[k + 1])
          /\ g[k + 1] = IF k + 1 = 1 THEN <<<<>>>> ELSE AddByte(g[k], longer[k + 1])
          /\ path[k + 1] = longer[k + 1]
      <4>1. k + 1 \in 1..m /\ k + 1 \in 1..n /\ (k + 1) - 1 = k
        BY <2>2
      <4> QED BY <4>1 DEF NamesFrom
    <3>2. k + 1 # 1 => f[k] = g[k]
      BY <1>2, <2>2
    <3> QED BY <3>1, <3>2
  <2> QED BY <2>1, <2>2
<1> HIDE DEF S
<1>3. \A k \in Nat : k \in S
  BY <1>1, <1>2, NumbersByInduction
<1> QED BY <1>3 DEF S

LEMMA WrittenAgree ==
  ASSUME NEW m \in Nat, NEW n \in Nat, m <= n, NEW names, NEW longer,
         \A i \in 1..m : names[i] = longer[i],
         NEW f, WrittenFrom(f, names, m), NEW g, WrittenFrom(g, longer, n)
  PROVE  \A i \in 0..m : f[i] = g[i]
<1> DEFINE S == {k \in Nat : k \in 0..m => f[k] = g[k]}
<1>1. 0 \in S
  BY DEF WrittenFrom
<1>2. ASSUME NEW k \in Nat, k \in S PROVE k + 1 \in S
  <2>1. CASE k + 1 \notin 0..m
    BY <2>1
  <2>2. CASE k + 1 \in 0..m
    <3>1. /\ f[k + 1] = f[k] \o <<"slash">> \o names[k + 1]
          /\ g[k + 1] = g[k] \o <<"slash">> \o longer[k + 1]
          /\ names[k + 1] = longer[k + 1]
      <4>1. k + 1 \in 1..m /\ k + 1 \in 0..n /\ k + 1 # 0 /\ (k + 1) - 1 = k
        BY <2>2
      <4> QED BY <2>2, <4>1 DEF WrittenFrom
    <3>2. f[k] = g[k]
      <4>1. k \in 0..m
        BY <2>2
      <4> QED BY <1>2, <4>1
    <3>3. f[k + 1] = g[k + 1]
      BY <3>1, <3>2, Zenon
    <3> QED BY <3>3
  <2> QED BY <2>1, <2>2
<1> HIDE DEF S
<1>3. \A k \in Nat : k \in S
  BY <1>1, <1>2, NumbersByInduction
<1> QED BY <1>3 DEF S

LEMMA NamesDefined ==
  ASSUME NEW path, Len(path) \in Nat
  PROVE  \E f : NamesFrom(f, path, Len(path)) /\ Names(path) = f[Len(path)]
<1>1. \E f : NamesFrom(f, path, Len(path))
  BY NamesExist
<1> QED BY <1>1 DEF Names, NamesFrom

LEMMA WrittenDefined ==
  ASSUME NEW names, Len(names) \in Nat
  PROVE  \E f : WrittenFrom(f, names, Len(names)) /\ Written(names) = f[Len(names)]
<1>1. \E f : WrittenFrom(f, names, Len(names))
  BY WrittenExist
<1> QED BY <1>1 DEF Written, WrittenFrom

-----------------------------------------------------------------------------
(***************************************************************************)
(* What Names and Written are for a path, or names, one longer.            *)
(***************************************************************************)
LEMMA NamesOfSlash ==
  ASSUME NEW c \in Bytes
  PROVE  Names(Append(<<>>, c)) = <<<<>>>>
<1> DEFINE path == Append(<<>>, c)
<1>1. Len(path) = 1 /\ Len(path) \in Nat
  OBVIOUS
<1> HIDE DEF path
<1>2. PICK f : NamesFrom(f, path, Len(path)) /\ Names(path) = f[Len(path)]
  BY <1>1, NamesDefined
<1>3. f[1] = <<<<>>>>
  BY <1>1, <1>2 DEF NamesFrom
<1>4. Names(path) = <<<<>>>>
  BY <1>1, <1>2, <1>3
<1> QED BY <1>4 DEF path

LEMMA NamesOfMore ==
  ASSUME NEW path \in Seq(Bytes), path # <<>>, NEW c \in Bytes
  PROVE  Names(Append(path, c)) = AddByte(Names(path), c)
<1> DEFINE longer == Append(path, c)
           n == Len(path)
<1>1. /\ n \in Nat \ {0} /\ Len(longer) = n + 1 /\ longer[n + 1] = c
      /\ \A i \in 1..n : path[i] = longer[i]
  BY AppendFacts, EmptyFacts
<1> HIDE DEF longer
<1>2. PICK f : NamesFrom(f, path, n) /\ Names(path) = f[n]
  BY <1>1, NamesDefined
<1>3. PICK g : NamesFrom(g, longer, n + 1) /\ Names(longer) = g[n + 1]
  <2>1. \E g : NamesFrom(g, longer, Len(longer)) /\ Names(longer) = g[Len(longer)]
    BY <1>1, NamesDefined
  <2> QED BY <1>1, <2>1
<1> HIDE DEF n
<1>4. f[n] = g[n]
  <2>1. n <= n + 1 /\ n + 1 \in Nat /\ n \in 1..n
    BY <1>1
  <2> QED BY <1>1, <1>2, <1>3, <2>1, NamesAgree
<1>5. g[n + 1] = AddByte(g[n], c)
  BY <1>1, <1>3 DEF NamesFrom
<1>6. Names(longer) = AddByte(Names(path), c)
  BY <1>2, <1>3, <1>4, <1>5
<1> QED BY <1>6 DEF longer

LEMMA WrittenOfNone == Written(<<>>) = <<>>
<1> DEFINE none == <<>>
<1>1. Len(none) = 0
  OBVIOUS
<1> HIDE DEF none
<1>2. PICK f : WrittenFrom(f, none, Len(none)) /\ Written(none) = f[Len(none)]
  BY <1>1, WrittenDefined
<1>3. f[0] = <<>>
  BY <1>1, <1>2 DEF WrittenFrom
<1>4. Written(none) = <<>>
  BY <1>1, <1>2, <1>3
<1> QED BY <1>4 DEF none

LEMMA WrittenOfMore ==
  ASSUME NEW names \in Seq(Seq(Bytes)), NEW name \in Seq(Bytes)
  PROVE  Written(Append(names, name)) = Written(names) \o <<"slash">> \o name
<1> DEFINE longer == Append(names, name)
           n == Len(names)
<1>1. /\ n \in Nat /\ Len(longer) = n + 1 /\ longer[n + 1] = name
      /\ \A i \in 1..n : names[i] = longer[i]
  BY LenProperties, AppendProperties
<1> HIDE DEF longer
<1>2. PICK f : WrittenFrom(f, names, n) /\ Written(names) = f[n]
  BY <1>1, WrittenDefined
<1>3. PICK g : WrittenFrom(g, longer, n + 1) /\ Written(longer) = g[n + 1]
  <2>1. \E g : WrittenFrom(g, longer, Len(longer)) /\ Written(longer) = g[Len(longer)]
    BY <1>1, WrittenDefined
  <2> QED BY <1>1, <2>1
<1> HIDE DEF n
<1>4. f[n] = g[n]
  <2>1. n <= n + 1 /\ n + 1 \in Nat /\ n \in 0..n
    BY <1>1
  <2> QED BY <1>1, <1>2, <1>3, <2>1, WrittenAgree
<1>5. g[n + 1] = g[n] \o <<"slash">> \o name
  <2>1. n + 1 \in 0..(n + 1) /\ n + 1 # 0 /\ (n + 1) - 1 = n
    BY <1>1
  <2> QED BY <1>1, <1>3, <2>1 DEF WrittenFrom
<1>6. Written(longer) = Written(names) \o <<"slash">> \o name
  BY <1>2, <1>3, <1>4, <1>5
<1> QED BY <1>6 DEF longer

-----------------------------------------------------------------------------
(***************************************************************************)
(* The names of the path: those that a slash has ended, which are proper   *)
(* ones, and the one on top, which the state knows.  The copy is all of    *)
(* them with a slash before each.                                          *)
(***************************************************************************)
NameBytes == Bytes \ {"slash"}
ProperNames == Seq(NameBytes) \ {<<>>, <<"dot">>, <<"dot", "dot">>}

Behave(s, top) ==
  /\ s = "slash" => top = <<>>
  /\ s = "dot" => top = <<"dot">>
  /\ s = "dot_dot" => top = <<"dot", "dot">>
  /\ s = "usual" => top \in ProperNames

NamesAre(front, top) ==
  /\ Names(seen) = Append(front, top)
  /\ out = Written(front) \o <<"slash">> \o top
  /\ Behave(Eff, top)

NamesInv ==
  /\ seen = <<>> => out = <<>>
  /\ seen # <<>> => \E front \in Seq(ProperNames), top \in Seq(NameBytes) : NamesAre(front, top)
  /\ state = "above_root" => seen # <<>> /\ ch = "slash" /\ Names(Append(seen, ch)) = NoPath

LEMMA NamesInSeq ==
  /\ Seq(NameBytes) \subseteq Seq(Bytes) /\ ProperNames \subseteq Seq(Bytes)
  /\ Seq(ProperNames) \subseteq Seq(Seq(Bytes)) /\ <<>> \in Seq(ProperNames)
<1>1. Seq(NameBytes) \subseteq Seq(Bytes)
  BY SeqMonotonic DEF NameBytes
<1>2. ProperNames \subseteq Seq(Bytes)
  BY <1>1 DEF ProperNames
<1>3. Seq(ProperNames) \subseteq Seq(Seq(Bytes))
  BY <1>2, SeqMonotonic
<1> QED BY <1>1, <1>2, <1>3, EmptySeq

\* What is written is a sequence of bytes.
LEMMA WrittenType ==
  ASSUME NEW names \in Seq(Seq(Bytes))
  PROVE  Written(names) \in Seq(Bytes)
<1> DEFINE S == {k \in Nat : \A s \in Seq(Seq(Bytes)) : Len(s) = k => Written(s) \in Seq(Bytes)}
<1>1. 0 \in S
  <2>1. ASSUME NEW s \in Seq(Seq(Bytes)), Len(s) = 0
        PROVE  Written(s) \in Seq(Bytes)
    <3>1. s = <<>>
      BY <2>1, EmptySeq
    <3> QED BY <3>1, WrittenOfNone, EmptySeq
  <2> QED BY <2>1
<1>2. ASSUME NEW k \in Nat, k \in S PROVE k + 1 \in S
  <2>1. ASSUME NEW s \in Seq(Seq(Bytes)), Len(s) = k + 1
        PROVE  Written(s) \in Seq(Bytes)
    <3>1. s # <<>>
      BY <2>1, EmptySeq
    <3>2. PICK front \in Seq(Seq(Bytes)), top \in Seq(Bytes) : s = Append(front, top)
      BY <3>1, SequenceEmptyOrAppend
    <3>3. Len(front) = k
      BY <2>1, <3>2, LenProperties, AppendProperties
    <3>4. Written(front) \in Seq(Bytes)
      BY <1>2, <3>3
    <3>5. Written(s) = Written(front) \o <<"slash">> \o top
      BY <3>2, WrittenOfMore
    <3>6. <<"slash">> \in Seq(Bytes)
      BY DEF Bytes
    <3> QED BY <3>4, <3>5, <3>6, ConcatProperties
  <2> QED BY <2>1
<1> HIDE DEF S
<1>3. Len(names) \in Nat
  BY LenProperties
<1>4. Len(names) \in S
  BY <1>1, <1>2, <1>3, NumbersByInduction
<1> QED BY <1>4 DEF S

LEMMA DotNames ==
  /\ <<>> # <<"dot">> /\ <<>> # <<"dot", "dot">> /\ <<"dot">> # <<"dot", "dot">>
  /\ <<>> \in Seq(NameBytes) /\ <<"dot">> \in Seq(NameBytes)
  /\ <<"dot", "dot">> \in Seq(NameBytes)
<1>1. Len(<<"dot", "dot">>) = 2 /\ Len(<<>>) = 0 /\ Len(<<"dot">>) = 1
  OBVIOUS
<1> QED BY <1>1 DEF NameBytes, Bytes

-----------------------------------------------------------------------------
(***************************************************************************)
(* The name on top is taken off, ended or made longer.                     *)
(***************************************************************************)
LEMMA BelowTop ==
  ASSUME NEW S, NEW front \in Seq(S), NEW top \in S
  PROVE  /\ Append(front, top) # <<>>
         /\ Append(front, top)[Len(Append(front, top))] = top
         /\ Below(Append(front, top), 1) = front
<1> DEFINE names == Append(front, top)
<1>1. /\ names \in Seq(S) /\ names # <<>> /\ Len(names) = Len(front) + 1
      /\ \A i \in 1..Len(front) : names[i] = front[i]
      /\ names[Len(front) + 1] = top /\ Len(front) \in Nat
  BY AppendProperties, LenProperties
<1> HIDE DEF names
<1>2. /\ SubSeq(names, 1, Len(front)) \in Seq(S)
      /\ Len(SubSeq(names, 1, Len(front))) = Len(front)
      /\ \A i \in 1..Len(front) : SubSeq(names, 1, Len(front))[i] = names[i]
  <2>1. \A i \in 1..Len(front) : names[i] \in S
    BY <1>1, ElementOfSeq
  <2>2. /\ SubSeq(names, 1, Len(front)) \in Seq(S)
        /\ Len(SubSeq(names, 1, Len(front)))
             = IF 1 <= Len(front) THEN Len(front) - 1 + 1 ELSE 0
        /\ \A i \in 1..(Len(front) - 1 + 1) :
             SubSeq(names, 1, Len(front))[i] = names[1 + i - 1]
    BY <1>1, <2>1, SubSeqProperties
  <2> QED BY <1>1, <2>2
<1>3. SubSeq(names, 1, Len(front)) = front
  BY <1>1, <1>2, SeqEqual
<1>4. Below(names, 1) = front
  BY <1>1, <1>3 DEF Below
<1> QED BY <1>1, <1>4 DEF names

LEMMA BelowTwo ==
  ASSUME NEW S, NEW front \in Seq(S), NEW name \in S, NEW top \in S
  PROVE  /\ Len(Append(Append(front, name), top)) >= 2
         /\ Below(Append(Append(front, name), top), 2) = front
<1> DEFINE two == Append(front, name)
           names == Append(two, top)
<1>1. /\ two \in Seq(S) /\ Len(two) = Len(front) + 1 /\ Len(front) \in Nat
      /\ \A i \in 1..Len(front) : two[i] = front[i]
  BY AppendProperties, LenProperties
<1> HIDE DEF two
<1>2. /\ names \in Seq(S) /\ Len(names) = Len(two) + 1
      /\ \A i \in 1..Len(two) : names[i] = two[i]
  BY <1>1, AppendProperties
<1> HIDE DEF names
<1>3. \A i \in 1..Len(front) : names[i] = front[i]
  BY <1>1, <1>2
<1>4. /\ SubSeq(names, 1, Len(front)) \in Seq(S)
      /\ Len(SubSeq(names, 1, Len(front))) = Len(front)
      /\ \A i \in 1..Len(front) : SubSeq(names, 1, Len(front))[i] = names[i]
  <2>1. \A i \in 1..Len(front) : names[i] \in S
    BY <1>3, ElementOfSeq
  <2>2. /\ SubSeq(names, 1, Len(front)) \in Seq(S)
        /\ Len(SubSeq(names, 1, Len(front)))
             = IF 1 <= Len(front) THEN Len(front) - 1 + 1 ELSE 0
        /\ \A i \in 1..(Len(front) - 1 + 1) :
             SubSeq(names, 1, Len(front))[i] = names[1 + i - 1]
    BY <1>1, <2>1, SubSeqProperties
  <2> QED BY <1>1, <2>2
<1>5. SubSeq(names, 1, Len(front)) = front
  BY <1>1, <1>3, <1>4, SeqEqual
<1>6. Len(names) - 2 = Len(front) /\ Len(names) >= 2
  BY <1>1, <1>2
<1>7. Below(names, 2) = front
  BY <1>5, <1>6 DEF Below
<1> QED BY <1>6, <1>7 DEF names, two

\* A byte of a name, a slash behind a proper name, behind an empty name or
\* ".", behind ".." with a name below it, and behind ".." as the first name.
LEMMA AddByteFacts ==
  ASSUME NEW front \in Seq(ProperNames), NEW top \in Seq(NameBytes)
  PROVE  /\ \A c \in NameBytes :
              AddByte(Append(front, top), c) = Append(front, Append(top, c))
         /\ top \in ProperNames =>
              AddByte(Append(front, top), "slash") = Append(Append(front, top), <<>>)
         /\ top \in {<<>>, <<"dot">>} =>
              AddByte(Append(front, top), "slash") = Append(front, <<>>)
<1> DEFINE names == Append(front, top)
<1>1. /\ names # <<>> /\ names[Len(names)] = top /\ Below(names, 1) = front
      /\ front \in Seq(Seq(Bytes))
  BY NamesInSeq, BelowTop
<1> HIDE DEF names
<1>2. ASSUME NEW c \in NameBytes
      PROVE  AddByte(names, c) = Append(front, Append(top, c))
  BY <1>1 DEF AddByte, NoPath, NameBytes
<1>3. AddByte(names, "slash") = EndName(names)
  BY <1>1 DEF AddByte, NoPath
<1>4. ASSUME top \in ProperNames
      PROVE  AddByte(names, "slash") = Append(names, <<>>)
  <2>1. top \notin {<<>>, <<"dot">>} /\ top # <<"dot", "dot">>
    BY <1>4 DEF ProperNames
  <2> QED BY <1>1, <1>3, <2>1 DEF EndName
<1>5. ASSUME top \in {<<>>, <<"dot">>}
      PROVE  AddByte(names, "slash") = Append(front, <<>>)
  <2>0. <<>> # <<"dot", "dot">> /\ <<"dot">> # <<"dot", "dot">>
    BY DotNames
  <2>1. EndName(names) = Below(names, 1) \o <<<<>>>>
    BY <1>1, <1>5, <2>0 DEF EndName
  <2>2. Append(front, <<>>) = front \o <<<<>>>>
    BY <1>1, AppendIsConcat, EmptySeq
  <2> QED BY <1>1, <1>3, <2>1, <2>2
<1> QED BY <1>2, <1>4, <1>5 DEF names

LEMMA DotDotEnds ==
  ASSUME NEW front \in Seq(ProperNames)
  PROVE  /\ front = <<>> => AddByte(Append(front, <<"dot", "dot">>), "slash") = NoPath
         /\ \A lower \in Seq(ProperNames), name \in ProperNames :
              front = Append(lower, name) =>
                AddByte(Append(front, <<"dot", "dot">>), "slash") = Append(lower, <<>>)
<1> DEFINE top == <<"dot", "dot">>
           names == Append(front, top)
<1>1. /\ names # <<>> /\ names[Len(names)] = top
      /\ front \in Seq(Seq(Bytes)) /\ top \in Seq(Bytes)
  <2>1. front \in Seq(Seq(Bytes)) /\ top \in Seq(Bytes)
    BY NamesInSeq DEF Bytes
  <2> QED BY <2>1, BelowTop
<1>2. top \notin {<<>>, <<"dot">>}
  BY DotNames
<1>3. Len(names) = Len(front) + 1
  BY <1>1, AppendProperties
<1> HIDE DEF names
<1>4. AddByte(names, "slash") = IF Len(names) < 2 THEN NoPath ELSE Below(names, 2) \o <<<<>>>>
  <2>1. AddByte(names, "slash") = EndName(names)
    BY <1>1 DEF AddByte, NoPath
  <2>2. EndName(names) = IF Len(names) < 2 THEN NoPath ELSE Below(names, 2) \o <<<<>>>>
    BY <1>1, <1>2 DEF EndName
  <2> QED BY <2>1, <2>2
<1>5. ASSUME front = <<>> PROVE AddByte(names, "slash") = NoPath
  <2>1. Len(front) = 0
    BY <1>5
  <2> QED BY <1>3, <1>4, <2>1
<1>6. ASSUME NEW lower \in Seq(ProperNames), NEW name \in ProperNames,
             front = Append(lower, name)
      PROVE  AddByte(names, "slash") = Append(lower, <<>>)
  <2>1. lower \in Seq(Seq(Bytes)) /\ name \in Seq(Bytes)
    BY NamesInSeq
  <2>2. Len(names) >= 2 /\ Below(names, 2) = lower
    BY <1>1, <1>6, <2>1, BelowTwo DEF names
  <2>3. Append(lower, <<>>) = lower \o <<<<>>>>
    BY <2>1, AppendIsConcat, EmptySeq
  <2>4. Len(front) \in Nat
    BY <1>1, LenProperties
  <2> QED BY <1>3, <1>4, <2>2, <2>3, <2>4
<1> QED BY <1>5, <1>6 DEF names

\* What a byte makes of the name on top.
LEMMA TopGrows ==
  ASSUME NEW top \in Seq(NameBytes), NEW c \in NameBytes
  PROVE  /\ Append(top, c) \in Seq(NameBytes)
         /\ top = <<>> /\ c = "dot" => Append(top, c) = <<"dot">>
         /\ top = <<"dot">> /\ c = "dot" => Append(top, c) = <<"dot", "dot">>
         /\ (top \in {<<>>, <<"dot">>} => c # "dot") => Append(top, c) \in ProperNames
<1> DEFINE longer == Append(top, c)
<1>1. /\ longer \in Seq(NameBytes) /\ longer # <<>>
      /\ Len(longer) = Len(top) + 1 /\ Len(top) \in Nat
      /\ longer[Len(top) + 1] = c /\ \A i \in 1..Len(top) : longer[i] = top[i]
  BY AppendProperties, LenProperties
<1>2. top = <<>> /\ c = "dot" => longer = <<"dot">>
  OBVIOUS
<1> HIDE DEF longer
<1>3. ASSUME top = <<"dot">>, c = "dot" PROVE longer = <<"dot", "dot">>
  <2>1. Len(top) = 1 /\ top[1] = "dot"
    BY <1>3
  <2>2. Len(longer) = 2 /\ longer[1] = "dot" /\ longer[2] = "dot"
    BY <1>1, <1>3, <2>1
  <2> DEFINE dots == <<"dot", "dot">>
  <2>3. dots \in Seq(NameBytes) /\ Len(dots) = 2 /\ dots[1] = "dot" /\ dots[2] = "dot"
    BY DEF NameBytes, Bytes
  <2> HIDE DEF dots
  <2>4. \A i \in 1..Len(longer) : longer[i] = dots[i]
    BY <2>2, <2>3
  <2>5. longer = dots
    BY <1>1, <2>2, <2>3, <2>4, SeqEqual
  <2> QED BY <2>5 DEF dots
<1>4. ASSUME top \in {<<>>, <<"dot">>} => c # "dot"
      PROVE  longer \in ProperNames
  <2>1. ASSUME longer = <<"dot">> PROVE FALSE
    <3>1. Len(longer) = 1 /\ longer[1] = "dot"
      BY <2>1
    <3>2. Len(top) = 0 /\ c = "dot"
      BY <1>1, <3>1
    <3>3. top = <<>>
      BY <3>2, EmptySeq
    <3> QED BY <1>4, <3>2, <3>3
  <2>2. ASSUME longer = <<"dot", "dot">> PROVE FALSE
    <3>1. Len(longer) = 2 /\ longer[1] = "dot" /\ longer[2] = "dot"
      BY <2>2
    <3>2. Len(top) = 1 /\ top[1] = "dot" /\ c = "dot"
      <4>1. Len(top) = 1
        <5>1. Len(longer) = Len(top) + 1 /\ Len(top) \in Nat
          BY <1>1
        <5> HIDE DEF longer
        <5>2. \A m, n \in Nat : m = n + 1 /\ m = 2 => n = 1
          OBVIOUS
        <5>3. Len(longer) = 2
          BY <3>1
        <5> QED BY ONLY <5>1, <5>2, <5>3, Zenon
      <4>2. longer[1] = top[1] /\ longer[2] = c
        BY <1>1, <4>1
      <4> QED BY <3>1, <4>1, <4>2
    <3>3. /\ <<"dot">> \in Seq(NameBytes) /\ Len(<<"dot">>) = 1
          /\ <<"dot">>[1] = "dot"
      BY DEF NameBytes, Bytes
    <3>4. top = <<"dot">>
      <4>1. \A i \in 1..Len(top) : top[i] = <<"dot">>[i]
        BY <3>2, <3>3
      <4> HIDE DEF NameBytes
      <4> QED BY <3>2, <3>3, <4>1, SeqEqual
    <3> QED BY <1>4, <3>2, <3>4
  <2> QED BY <1>1, <2>1, <2>2 DEF ProperNames
<1> QED BY <1>1, <1>2, <1>3, <1>4 DEF longer

-----------------------------------------------------------------------------
(***************************************************************************)
(* The steps of the automaton and the names.                               *)
(***************************************************************************)
\* What is written for one more name, and for a byte more of the last one.
LEMMA WrittenTop ==
  ASSUME NEW front \in Seq(ProperNames), NEW top \in Seq(NameBytes)
  PROVE  /\ Written(front) \in Seq(Bytes) /\ <<"slash">> \in Seq(Bytes)
         /\ Written(Append(front, top)) = Written(front) \o <<"slash">> \o top
         /\ \A c \in NameBytes :
              Append(Written(front) \o <<"slash">> \o top, c)
                = Written(front) \o <<"slash">> \o Append(top, c)
         /\ Append(Written(front) \o <<"slash">> \o top, "slash")
              = (Written(front) \o <<"slash">> \o top) \o <<"slash">> \o <<>>
<1>1. /\ front \in Seq(Seq(Bytes)) /\ top \in Seq(Bytes) /\ Written(front) \in Seq(Bytes)
      /\ <<"slash">> \in Seq(Bytes) /\ "slash" \in Bytes
  BY NamesInSeq, WrittenType DEF Bytes
<1>2. Written(Append(front, top)) = Written(front) \o <<"slash">> \o top
  BY <1>1, WrittenOfMore
<1> DEFINE w == Written(front) \o <<"slash">>
<1>3. w \in Seq(Bytes) /\ w \o top \in Seq(Bytes)
  BY <1>1, ConcatProperties
<1> HIDE DEF w
<1>4. ASSUME NEW c \in NameBytes
      PROVE  Append(w \o top, c) = w \o Append(top, c)
  <2>1. c \in Bytes /\ <<c>> \in Seq(Bytes)
    BY DEF NameBytes
  <2>2. Append(w \o top, c) = (w \o top) \o <<c>> /\ Append(top, c) = top \o <<c>>
    BY <1>1, <1>3, <2>1, AppendIsConcat
  <2>3. (w \o top) \o <<c>> = w \o (top \o <<c>>)
    BY <1>1, <1>3, <2>1, ConcatAssociative
  <2> QED BY <2>2, <2>3
<1>5. Append(w \o top, "slash") = (w \o top) \o <<"slash">> \o <<>>
  <2>1. Append(w \o top, "slash") = (w \o top) \o <<"slash">>
    BY <1>1, <1>3, AppendIsConcat
  <2>2. (w \o top) \o <<"slash">> \in Seq(Bytes)
    BY <1>1, <1>3, ConcatProperties
  <2> QED BY <2>1, <2>2, ConcatEmptySeq
<1> QED BY <1>1, <1>2, <1>4, <1>5 DEF w

\* A byte of a name is put behind the copy.
LEMMA NameByteNamed ==
  ASSUME UriInv, NamesInv, out # <<>>, NEW c \in NameBytes,
         seen' = Append(seen, c), out' = Append(out, c), state' \in Plain,
         \A top \in Seq(NameBytes) : Behave(Eff, top) => Behave(state', Append(top, c))
  PROVE  NamesInv'
<1>1. seen # <<>> /\ seen \in Seq(Bytes) /\ c \in Bytes /\ Eff' = state' /\ state' # "above_root"
  BY DEF NamesInv, UriInv, TypeOK, NameBytes, Eff, Plain, Quotes
<1>2. PICK front \in Seq(ProperNames), top \in Seq(NameBytes) : NamesAre(front, top)
  BY <1>1 DEF NamesInv
<1>3. seen' # <<>> /\ Names(seen') = AddByte(Names(seen), c)
  BY <1>1, NamesOfMore, AppendProperties
<1>4. Names(seen') = Append(front, Append(top, c))
  BY <1>2, <1>3, AddByteFacts DEF NamesAre
<1>5. out' = Written(front) \o <<"slash">> \o Append(top, c)
  BY <1>2, WrittenTop DEF NamesAre
<1>6. Append(top, c) \in Seq(NameBytes) /\ Behave(state', Append(top, c))
  BY <1>2, TopGrows DEF NamesAre
<1>7. NamesAre(front, Append(top, c))'
  BY <1>1, <1>4, <1>5, <1>6 DEF NamesAre
<1> QED BY <1>1, <1>3, <1>6, <1>7 DEF NamesInv

\* A slash ends the name on top, and an empty one is on top.
LEMMA NewNameNamed ==
  ASSUME UriInv, NamesInv, seen # <<>>, seen' = Append(seen, "slash"), state' = "slash",
         NEW front \in Seq(ProperNames),
         AddByte(Names(seen), "slash") = Append(front, <<>>),
         out' = Written(front) \o <<"slash">> \o <<>>
  PROVE  NamesInv'
<1>1. seen \in Seq(Bytes) /\ "slash" \in Bytes /\ Eff' = "slash"
  BY DEF UriInv, TypeOK, Bytes, Eff, Quotes
<1>2. seen' # <<>> /\ Names(seen') = AddByte(Names(seen), "slash")
  BY <1>1, NamesOfMore, AppendProperties
<1>3. <<>> \in Seq(NameBytes)
  BY EmptySeq
<1>4. NamesAre(front, <<>>)'
  BY <1>1, <1>2 DEF NamesAre, Behave
<1> QED BY <1>2, <1>3, <1>4 DEF NamesInv

\* Nothing is taken into the path.
LEMMA StayNamed ==
  ASSUME NamesInv, seen' = seen, out' = out, Eff' = Eff \/ Eff' \in Ends,
         state' = "above_root" =>
           seen # <<>> /\ ch' = "slash" /\ Names(Append(seen, ch')) = NoPath
  PROVE  NamesInv'
<1>1. ASSUME NEW front, NEW top, NamesAre(front, top) PROVE NamesAre(front, top)'
  BY <1>1 DEF NamesAre, Behave, Ends
<1> QED BY <1>1 DEF NamesInv

LEMMA RejectNamed ==
  ASSUME NamesInv, NEW why \in {"bad_quote", "underrun"}, Reject(why)
  PROVE  NamesInv'
<1>1. Eff' \in Ends /\ state' # "above_root"
  BY DEF Reject, Eff, Quotes, Ends
<1> QED BY <1>1, StayNamed DEF Reject

LEMMA QuoteNamed ==
  ASSUME NamesInv, state \in Plain, Quote
  PROVE  NamesInv'
<1>1. Eff' = Eff /\ state' # "above_root"
  BY DEF Quote, Eff, Plain, Quotes
<1> QED BY <1>1, StayNamed DEF Quote

\* The byte is one of a name, in each of the four states.
LEMMA PutNamed ==
  ASSUME UriInv, NamesInv, out # <<>>, state \in Plain, NEW s \in Plain, Eat(s), Put,
         ch \in NameBytes,
         state = "usual" => s = "usual",
         state = "slash" => s = IF ch = "dot" THEN "dot" ELSE "usual",
         state = "dot" => s = IF ch = "dot" THEN "dot_dot" ELSE "usual",
         state = "dot_dot" => s = "usual"
  PROVE  NamesInv'
<1>1. Eff = state
  BY DEF Eff, Plain, Quotes
<1>2. ASSUME NEW top \in Seq(NameBytes), Behave(state, top)
      PROVE  Behave(s, Append(top, ch))
  <2>1. CASE state = "usual"
    <3>1. top \notin {<<>>, <<"dot">>}
      BY <1>2, <2>1 DEF Behave, ProperNames
    <3> QED BY <2>1, <3>1, TopGrows DEF Behave
  <2>2. CASE state = "slash"
    <3>1. top = <<>>
      BY <1>2, <2>2 DEF Behave
    <3>2. CASE ch = "dot"
      BY <2>2, <3>1, <3>2, TopGrows DEF Behave
    <3>3. CASE ch # "dot"
      BY <2>2, <3>1, <3>3, TopGrows DEF Behave
    <3> QED BY <3>2, <3>3
  <2>3. CASE state = "dot"
    <3>1. top = <<"dot">>
      BY <1>2, <2>3 DEF Behave
    <3>2. CASE ch = "dot"
      BY <2>3, <3>1, <3>2, TopGrows DEF Behave
    <3>3. CASE ch # "dot"
      BY <2>3, <3>1, <3>3, TopGrows DEF Behave
    <3> QED BY <3>2, <3>3
  <2>4. CASE state = "dot_dot"
    <3>1. top \notin {<<>>, <<"dot">>}
      BY <1>2, <2>4, DotNames DEF Behave
    <3> QED BY <2>4, <3>1, TopGrows DEF Behave
  <2> QED BY <2>1, <2>2, <2>3, <2>4 DEF Plain
<1>3. seen' = Append(seen, ch) /\ out' = Append(out, ch) /\ state' = s
  BY DEF Eat, Put
<1> QED BY <1>1, <1>2, <1>3, NameByteNamed

LEMMA UsualNamed == UriInv /\ NamesInv /\ Usual => NamesInv'
<1> SUFFICES ASSUME UriInv, NamesInv, Usual PROVE NamesInv'
  OBVIOUS
<1>1. /\ ch \in Bytes /\ state = "usual" /\ Eff = "usual" /\ seen \in Seq(Bytes)
      /\ out = <<>> => ch = "slash"
  BY DEF UriInv, RoomInv, BeginInv, TypeOK, Usual, In, Eff, Quotes
<1>2. CASE ch = "slash" /\ Eat("slash") /\ Put /\ ext' = 0
  <2>1. seen' = Append(seen, "slash") /\ state' = "slash" /\ out' = Append(out, "slash")
    BY <1>2 DEF Eat, Put
  <2>2. CASE seen = <<>>
    <3>1. out = <<>>
      BY <2>2 DEF NamesInv
    <3>2. Names(seen') = Append(<<>>, <<>>) /\ seen' # <<>>
      <4>1. Names(seen') = <<<<>>>>
        BY <1>1, <1>2, <2>1, <2>2, NamesOfSlash
      <4> QED BY <2>1, <2>2, <4>1
    <3>3. out' = Written(<<>>) \o <<"slash">> \o <<>>
      BY <2>1, <3>1, WrittenOfNone
    <3>4. NamesAre(<<>>, <<>>)'
      BY <2>1, <3>2, <3>3 DEF NamesAre, Behave, Eff, Quotes
    <3> QED BY <2>1, <3>2, <3>4, NamesInSeq, EmptySeq DEF NamesInv
  <2>3. CASE seen # <<>>
    <3>1. PICK front \in Seq(ProperNames), top \in Seq(NameBytes) : NamesAre(front, top)
      BY <2>3 DEF NamesInv
    <3>2. top \in ProperNames
      BY <1>1, <3>1 DEF NamesAre, Behave
    <3>3. Append(front, top) \in Seq(ProperNames)
      BY <3>2, AppendProperties
    <3>4. AddByte(Names(seen), "slash") = Append(Append(front, top), <<>>)
      BY <3>1, <3>2, AddByteFacts DEF NamesAre
    <3>5. out' = Written(Append(front, top)) \o <<"slash">> \o <<>>
      BY <2>1, <3>1, WrittenTop DEF NamesAre
    <3> QED BY <2>1, <2>3, <3>3, <3>4, <3>5, NewNameNamed
  <2> QED BY <2>2, <2>3
<1>3. CASE ch = "dot" /\ Eat("usual") /\ Put /\ ext' = u + 1
  BY <1>1, <1>3, PutNamed DEF Plain, NameBytes, Bytes
<1>4. CASE ch \in {"hex", "other"} /\ Eat("usual") /\ Put /\ UNCHANGED ext
  BY <1>1, <1>4, PutNamed DEF Plain, NameBytes, Bytes
<1>5. CASE Quote
  BY <1>1, <1>5, QuoteNamed DEF Plain
<1> QED BY <1>2, <1>3, <1>4, <1>5 DEF Usual

LEMMA SlashNamed == UriInv /\ NamesInv /\ Slash => NamesInv'
<1> SUFFICES ASSUME UriInv, NamesInv, Slash PROVE NamesInv'
  OBVIOUS
<1>1. /\ ch \in Bytes /\ state = "slash" /\ Eff = "slash" /\ seen \in Seq(Bytes)
      /\ out # <<>> /\ seen # <<>>
  BY DEF UriInv, NamesInv, RoomInv, BeginInv, TypeOK, Slash, In, Eff, Quotes
<1>2. CASE ch = "slash" /\ Eat("slash") /\ UNCHANGED <<out, ext>>
  <2>1. seen' = Append(seen, "slash") /\ state' = "slash" /\ out' = out
    BY <1>2 DEF Eat
  <2>2. PICK front \in Seq(ProperNames), top \in Seq(NameBytes) : NamesAre(front, top)
    BY <1>1 DEF NamesInv
  <2>3. top = <<>>
    BY <1>1, <2>2 DEF NamesAre, Behave
  <2>4. AddByte(Names(seen), "slash") = Append(front, <<>>)
    BY <2>2, <2>3, AddByteFacts DEF NamesAre
  <2> QED BY <1>1, <2>1, <2>2, <2>3, <2>4, NewNameNamed DEF NamesAre
<1>3. CASE ch = "dot" /\ Eat("dot") /\ Put /\ UNCHANGED ext
  BY <1>1, <1>3, PutNamed DEF Plain, NameBytes, Bytes
<1>4. CASE ch \in {"hex", "other"} /\ Eat("usual") /\ Put /\ UNCHANGED ext
  BY <1>1, <1>4, PutNamed DEF Plain, NameBytes, Bytes
<1>5. CASE Quote
  BY <1>1, <1>5, QuoteNamed DEF Plain
<1> QED BY <1>2, <1>3, <1>4, <1>5 DEF Slash

\* What is left of w, a slash and more when it is cut back to its slash.
LEMMA CutToSlash ==
  ASSUME NEW w \in Seq(Bytes), NEW rest \in Seq(Bytes)
  PROVE  /\ SubSeq(w \o <<"slash">> \o rest, 1, Len(w) + 1) = w \o <<"slash">> \o <<>>
         /\ Len(w \o <<"slash">> \o rest) = Len(w) + 1 + Len(rest)
         /\ (w \o <<"slash">> \o rest)[Len(w) + 1] = "slash"
         /\ \A i \in 1..Len(rest) : (w \o <<"slash">> \o rest)[Len(w) + 1 + i] = rest[i]
<1> DEFINE ws == w \o <<"slash">>
           n == Len(w) + 1
<1>1. <<"slash">> \in Seq(Bytes) /\ Len(<<"slash">>) = 1 /\ <<"slash">>[1] = "slash"
  BY DEF Bytes
<1>2. /\ ws \in Seq(Bytes) /\ Len(ws) = n /\ Len(w) \in Nat /\ ws[n] = "slash"
  BY <1>1, ConcatProperties, LenProperties
<1> HIDE DEF ws
<1>3. /\ Len(rest) \in Nat /\ ws \o rest \in Seq(Bytes) /\ Len(ws \o rest) = n + Len(rest)
      /\ \A i \in 1..(n + Len(rest)) :
           (ws \o rest)[i] = IF i <= n THEN ws[i] ELSE rest[i - n]
  <2>1. /\ ws \o rest \in Seq(Bytes) /\ Len(ws \o rest) = Len(ws) + Len(rest)
        /\ \A i \in 1..(Len(ws) + Len(rest)) :
             (ws \o rest)[i] = IF i <= Len(ws) THEN ws[i] ELSE rest[i - Len(ws)]
    BY <1>2, ConcatProperties
  <2> QED BY <1>2, <2>1, LenProperties
<1>4. n \in 1..Len(ws) /\ 1 \in 1..Len(ws)
  BY <1>2
<1>5. SubSeq(ws \o rest, 1, n) = SubSeq(ws, 1, n)
  BY <1>2, <1>4, SubSeqOfConcat1
<1>6. SubSeq(ws, 1, n) = ws /\ ws \o <<>> = ws
  BY <1>2, SubSeqFull, ConcatEmptySeq
<1>7. (ws \o rest)[n] = "slash"
  BY <1>2, <1>3
<1>8. \A i \in 1..Len(rest) : (ws \o rest)[n + i] = rest[i]
  <2> TAKE i \in 1..Len(rest)
  <2>1. n + i \in 1..(n + Len(rest)) /\ ~(n + i <= n) /\ (n + i) - n = i
    BY <1>2, <1>3
  <2> QED BY <1>3, <2>1
<1> QED BY <1>3, <1>5, <1>6, <1>7, <1>8 DEF ws

LEMMA DotNamed == UriInv /\ NamesInv /\ Dot => NamesInv'
<1> SUFFICES ASSUME UriInv, NamesInv, Dot PROVE NamesInv'
  OBVIOUS
<1>1. /\ ch \in Bytes /\ state = "dot" /\ Eff = "dot" /\ seen \in Seq(Bytes)
      /\ out # <<>> /\ seen # <<>>
  BY DEF UriInv, NamesInv, RoomInv, BeginInv, TypeOK, Dot, In, Eff, Quotes
<1>2. CASE ch = "slash" /\ Eat("slash") /\ out' = SubSeq(out, 1, u - 1) /\ UNCHANGED ext
  <2>1. seen' = Append(seen, "slash") /\ state' = "slash"
    BY <1>2 DEF Eat
  <2>2. PICK front \in Seq(ProperNames), top \in Seq(NameBytes) : NamesAre(front, top)
    BY <1>1 DEF NamesInv
  <2>3. top = <<"dot">> /\ Len(top) = 1 /\ top \in Seq(Bytes)
    BY <1>1, <2>2, NamesInSeq DEF NamesAre, Behave
  <2>4. AddByte(Names(seen), "slash") = Append(front, <<>>)
    BY <2>2, <2>3, AddByteFacts DEF NamesAre
  <2> DEFINE w == Written(front)
  <2>5. w \in Seq(Bytes) /\ Len(w) \in Nat
    BY WrittenTop, EmptyFacts
  <2> HIDE DEF w
  <2>6. out = w \o <<"slash">> \o top
    BY <2>2 DEF NamesAre, w
  <2>7. u = Len(w) + 1 + 1
    BY <2>3, <2>5, <2>6, CutToSlash DEF u
  <2>8. u - 1 = Len(w) + 1
    BY <2>5, <2>7
  <2>9. out' = w \o <<"slash">> \o <<>>
    BY <1>2, <2>3, <2>5, <2>6, <2>8, CutToSlash
  <2> QED BY <1>1, <2>1, <2>4, <2>9, NewNameNamed DEF w
<1>3. CASE ch = "dot" /\ Eat("dot_dot") /\ Put /\ UNCHANGED ext
  BY <1>1, <1>3, PutNamed DEF Plain, NameBytes, Bytes
<1>4. CASE ch \in {"hex", "other"} /\ Eat("usual") /\ Put /\ UNCHANGED ext
  BY <1>1, <1>4, PutNamed DEF Plain, NameBytes, Bytes
<1>5. CASE Quote
  BY <1>1, <1>5, QuoteNamed DEF Plain
<1> QED BY <1>2, <1>3, <1>4, <1>5 DEF Dot

\* The slash that Up goes back to is the one before the name below "..".
LEMMA SlashIsFound ==
  ASSUME NEW w \in Seq(Bytes), NEW name \in ProperNames, NEW top, top = <<"dot", "dot">>,
         out = (w \o <<"slash">> \o name) \o <<"slash">> \o top
  PROVE  /\ u >= 4
         /\ \A k \in 1..(u - 4) :
              SlashBefore(k) /\ (\A j \in (k + 1)..(u - 4) : ~SlashBefore(j)) => k = Len(w) + 1
         /\ SubSeq(out, 1, Len(w) + 1) = w \o <<"slash">> \o <<>>
<1> DEFINE v == w \o <<"slash">> \o name
<1>1. /\ name \in Seq(Bytes) /\ name \in Seq(NameBytes) /\ name # <<>>
      /\ top \in Seq(Bytes) /\ Len(top) = 2 /\ <<"slash">> \in Seq(Bytes)
  BY NamesInSeq DEF ProperNames, Bytes
<1>2. v \in Seq(Bytes) /\ Len(w) \in Nat /\ Len(v) \in Nat
  BY <1>1, ConcatProperties, LenProperties
<1>3. Len(name) \in Nat \ {0}
  BY <1>1, EmptySeq
<1>4. /\ Len(v) = Len(w) + 1 + Len(name) /\ v[Len(w) + 1] = "slash"
      /\ \A i \in 1..Len(name) : v[Len(w) + 1 + i] = name[i]
  BY <1>1, CutToSlash
<1> HIDE DEF v
<1>5. u = Len(v) + 1 + 2
  BY <1>1, <1>2, CutToSlash DEF u, v
<1> DEFINE n == Len(w)
           l == Len(name)
<1>6. u >= 4 /\ u - 4 = n + l
  BY <1>2, <1>3, <1>4, <1>5
<1>7. \A i \in 1..Len(v) : out[i] = v[i]
  <2> DEFINE rest == <<"slash">> \o top
  <2>1. rest \in Seq(Bytes)
    BY <1>1, ConcatProperties
  <2>2. out = v \o rest
    <3>1. (v \o <<"slash">>) \o top = v \o (<<"slash">> \o top)
      BY <1>1, <1>2, ConcatAssociative
    <3> QED BY <3>1 DEF v
  <2> HIDE DEF rest
  <2>3. /\ Len(rest) \in Nat
        /\ \A i \in 1..(Len(v) + Len(rest)) :
             (v \o rest)[i] = IF i <= Len(v) THEN v[i] ELSE rest[i - Len(v)]
    BY <1>2, <2>1, ConcatProperties, LenProperties
  <2> QED BY <1>2, <2>2, <2>3
<1>8. out[n + 1] = "slash"
  BY <1>2, <1>3, <1>4, <1>7
<1>9. ASSUME NEW i \in 1..l PROVE out[n + 1 + i] # "slash"
  <2>1. n + 1 + i \in 1..Len(v)
    BY <1>2, <1>3, <1>4
  <2>2. name[i] \in NameBytes
    BY <1>1, ElementOfSeq
  <2> QED BY <1>4, <1>7, <2>1, <2>2 DEF NameBytes
<1>10. SlashBefore(n + 1)
  BY <1>2, <1>3, <1>6, <1>8 DEF SlashBefore
<1>11. ASSUME NEW k \in 1..(u - 4), SlashBefore(k),
              \A j \in (k + 1)..(u - 4) : ~SlashBefore(j)
       PROVE  k = n + 1
  <2>1. out[k] = "slash" /\ k \in 1..(n + l)
    BY <1>6, <1>11 DEF SlashBefore
  <2>2. ~(k < n + 1)
    <3> SUFFICES ASSUME k < n + 1 PROVE FALSE
      OBVIOUS
    <3>1. n + 1 \in (k + 1)..(u - 4)
      BY <1>2, <1>3, <1>6
    <3> QED BY <1>10, <1>11, <3>1
  <2>3. ~(k > n + 1)
    <3> SUFFICES ASSUME k > n + 1 PROVE FALSE
      OBVIOUS
    <3>1. k - n - 1 \in 1..l /\ n + 1 + (k - n - 1) = k
      BY <1>2, <1>3, <2>1
    <3> QED BY <1>9, <2>1, <3>1
  <2> QED BY <1>2, <2>1, <2>2, <2>3
<1>12. SubSeq(out, 1, n + 1) = w \o <<"slash">> \o <<>>
  <2> DEFINE rest == name \o (<<"slash">> \o top)
  <2>1. <<"slash">> \o top \in Seq(Bytes) /\ rest \in Seq(Bytes)
    BY <1>1, ConcatProperties
  <2>2. out = w \o <<"slash">> \o rest
    <3> DEFINE ws == w \o <<"slash">>
               st == <<"slash">> \o top
    <3>1. ws \in Seq(Bytes)
      BY <1>1, ConcatProperties
    <3>2. (v \o <<"slash">>) \o top = v \o st
      BY <1>1, <1>2, ConcatAssociative
    <3>3. (ws \o name) \o st = ws \o (name \o st)
      BY <1>1, <2>1, <3>1, ConcatAssociative
    <3> QED BY <3>2, <3>3 DEF v
  <2> HIDE DEF rest
  <2> QED BY <2>1, <2>2, CutToSlash
<1> QED BY <1>6, <1>11, <1>12

LEMMA DotDotNamed == UriInv /\ NamesInv /\ DotDot => NamesInv'
<1> SUFFICES ASSUME UriInv, NamesInv, DotDot PROVE NamesInv'
  OBVIOUS
<1>1. /\ ch \in Bytes /\ state = "dot_dot" /\ Eff = "dot_dot" /\ seen \in Seq(Bytes)
      /\ out # <<>> /\ seen # <<>>
  BY DEF UriInv, NamesInv, RoomInv, BeginInv, TypeOK, DotDot, In, Eff, Quotes
<1>2. CASE ch = "slash" /\ Up
  <2>1. PICK front \in Seq(ProperNames), top \in Seq(NameBytes) : NamesAre(front, top)
    BY <1>1 DEF NamesInv
  <2>2. /\ top = <<"dot", "dot">> /\ top \in Seq(Bytes) /\ Len(top) = 2
        /\ Names(seen) = Append(front, top)
        /\ out = Written(front) \o <<"slash">> \o top
    BY <1>1, <2>1, NamesInSeq DEF NamesAre, Behave
  <2>3. CASE front = <<>>
    <3>1. u = 3
      <4> DEFINE none == <<>>
      <4>1. none \in Seq(Bytes) /\ Len(none) = 0
        BY EmptySeq
      <4>2. out = none \o <<"slash">> \o top
        BY <2>2, <2>3, WrittenOfNone
      <4> HIDE DEF none
      <4>3. u = Len(none) + 1 + Len(top)
        BY <2>2, <4>1, <4>2, CutToSlash DEF u
      <4> QED BY <2>2, <4>1, <4>3
    <3>2. Reject("above_root")
      BY <1>2, <3>1 DEF Up
    <3>3. Names(Append(seen, "slash")) = NoPath
      <4>1. AddByte(Names(seen), "slash") = NoPath
        BY <2>2, <2>3, DotDotEnds
      <4> QED BY <1>1, <1>2, <4>1, NamesOfMore
    <3>4. Eff' \in Ends
      BY <3>2 DEF Reject, Eff, Ends, Quotes
    <3> QED BY <1>1, <1>2, <3>2, <3>3, <3>4, StayNamed DEF Reject
  <2>4. CASE front # <<>>
    <3>1. PICK lower \in Seq(ProperNames), name \in ProperNames : front = Append(lower, name)
      BY <2>4, SequenceEmptyOrAppend
    <3> DEFINE w == Written(lower)
    <3>2. name \in Seq(NameBytes)
      BY DEF ProperNames
    <3>3. w \in Seq(Bytes) /\ Written(front) = w \o <<"slash">> \o name
      BY <3>1, <3>2, WrittenTop
    <3> HIDE DEF w
    <3>4. /\ u >= 4
          /\ \A k \in 1..(u - 4) :
               SlashBefore(k) /\ (\A j \in (k + 1)..(u - 4) : ~SlashBefore(j)) => k = Len(w) + 1
          /\ SubSeq(out, 1, Len(w) + 1) = w \o <<"slash">> \o <<>>
      BY <2>2, <3>3, SlashIsFound
    <3>5. AddByte(Names(seen), "slash") = Append(lower, <<>>)
      BY <2>2, <3>1, DotDotEnds
    <3>6. u \in Nat
      BY EmptyFacts DEF u, UriInv, TypeOK
    <3>7. ~(u < 4)
      BY <3>4, <3>6
    <3>8. CASE \E k \in 1..(u - 4) : SlashBefore(k)
      <4>1. PICK k \in 1..(u - 4) :
              /\ SlashBefore(k) /\ \A j \in (k + 1)..(u - 4) : ~SlashBefore(j)
              /\ Eat("slash") /\ out' = SubSeq(out, 1, k) /\ UNCHANGED ext
        BY <1>2, <3>7, <3>8 DEF Up
      <4>2. k = Len(w) + 1
        BY <3>4, <4>1
      <4>3. seen' = Append(seen, "slash") /\ state' = "slash"
        BY <1>2, <4>1 DEF Eat
      <4>4. out' = w \o <<"slash">> \o <<>>
        BY <3>4, <4>1, <4>2
      <4> QED BY <1>1, <3>5, <4>3, <4>4, NewNameNamed DEF w
    <3>9. CASE ~\E k \in 1..(u - 4) : SlashBefore(k)
      <4>1. Reject("underrun")
        BY <1>2, <3>7, <3>9 DEF Up
      <4> QED BY <4>1, RejectNamed
    <3> QED BY <3>8, <3>9
  <2> QED BY <2>3, <2>4
<1>3. CASE ch \in {"dot", "hex", "other"} /\ Eat("usual") /\ Put /\ UNCHANGED ext
  BY <1>1, <1>3, PutNamed DEF Plain, NameBytes, Bytes
<1>4. CASE Quote
  BY <1>1, <1>4, QuoteNamed DEF Plain
<1> QED BY <1>2, <1>3, <1>4 DEF DotDot

LEMMA QuotedNamed == UriInv /\ NamesInv /\ Quoted => NamesInv'
<1> SUFFICES ASSUME UriInv, NamesInv, Quoted PROVE NamesInv'
  OBVIOUS
<1>1. CASE /\ state' = "quoted_second" /\ UNCHANGED <<back, out, seen>>
  <2>1. Eff' = Eff
    BY <1>1 DEF Quoted, In, Eff, Quotes
  <2> QED BY <1>1, <2>1, StayNamed
<1>2. CASE Reject("bad_quote")
  BY <1>2, RejectNamed
<1> QED BY <1>1, <1>2 DEF Quoted

LEMMA QuotedSecondNamed == UriInv /\ NamesInv /\ QuotedSecond => NamesInv'
<1> SUFFICES ASSUME UriInv, NamesInv, QuotedSecond PROVE NamesInv'
  OBVIOUS
<1>1. state = "quoted_second" /\ back \in Plain /\ Eff = back /\ out # <<>> /\ seen # <<>>
  <2>1. state = "quoted_second" /\ back \in Plain /\ Eff = back
    BY DEF UriInv, TypeOK, QuotedSecond, In, Eff, Quotes
  <2>2. out # <<>>
    BY <2>1, QuotedNotEmpty DEF Quotes
  <2> QED BY <2>1, <2>2 DEF NamesInv
<1>2. CASE state' = back /\ UNCHANGED <<back, out, seen>>
  <2>1. Eff' = Eff /\ state' # "above_root"
    BY <1>1, <1>2 DEF Eff, Plain, Quotes
  <2> QED BY <1>2, <2>1, StayNamed
<1>3. CASE /\ state' = "usual"
           /\ out' = Append(out, "percent") /\ seen' = Append(seen, "percent")
  <2>1. "percent" \in NameBytes /\ state' \in Plain
    BY <1>3 DEF NameBytes, Bytes, Plain
  <2>2. ASSUME NEW top \in Seq(NameBytes)
        PROVE  Behave("usual", Append(top, "percent"))
    BY <2>1, TopGrows DEF Behave
  <2> QED BY <1>1, <1>3, <2>1, <2>2, NameByteNamed
<1>4. CASE Reject("bad_quote")
  BY <1>4, RejectNamed
<1> QED BY <1>2, <1>3, <1>4 DEF QuotedSecond

LEMMA FinishNamed == NamesInv /\ Finish => NamesInv'
<1> SUFFICES ASSUME NamesInv, Finish PROVE NamesInv'
  OBVIOUS
<1>1. Eff' \in Ends /\ state' # "above_root"
  BY DEF Finish, Eff, Quotes, Ends
<1> QED BY <1>1, StayNamed DEF Finish

LEMMA NamesStep == UriInv /\ NamesInv /\ [Next]_vars => NamesInv'
<1> SUFFICES ASSUME UriInv, NamesInv, [Next]_vars PROVE NamesInv'
  OBVIOUS
<1>1. CASE UNCHANGED vars
  <2>1. Eff' = Eff /\ seen' = seen /\ out' = out /\ state' = state /\ ch' = ch
    BY <1>1 DEF Eff, vars
  <2>2. state' = "above_root" =>
          seen # <<>> /\ ch' = "slash" /\ Names(Append(seen, ch')) = NoPath
    BY <2>1 DEF NamesInv
  <2> QED BY <2>1, <2>2, StayNamed
<1>2. CASE Over
  BY <1>1, <1>2 DEF Over
<1> QED BY <1>1, <1>2, UsualNamed, SlashNamed, DotNamed, DotDotNamed, QuotedNamed,
           QuotedSecondNamed, FinishNamed DEF Next

LEMMA NamesSafe == Spec => []NamesInv
<1>1. Init => NamesInv
  BY DEF Init, NamesInv
<1> QED BY <1>1, NamesStep, UriSafe, PTL DEF Spec

\* The copy is the decoded path with its slashes merged and its dots resolved,
\* whatever its names and however they are quoted, and a path is refused for
\* leading above its root only when the next byte would make it do so.
THEOREM PathIsResolved == Spec => []ResolvesPath
<1>1. NamesInv => ResolvesPath
  <2> SUFFICES ASSUME NamesInv, seen # <<>> PROVE ResolvesPath
    BY DEF ResolvesPath
  <2>1. PICK front \in Seq(ProperNames), top \in Seq(NameBytes) : NamesAre(front, top)
    BY DEF NamesInv
  <2>2. out = Written(Names(seen))
    BY <2>1, WrittenTop DEF NamesAre
  <2> QED BY <2>2 DEF NamesInv, ResolvesPath
<1> QED BY <1>1, NamesSafe, PTL
=============================================================================
