--------------------------- MODULE CodexAnswerProofs ---------------------------
(***************************************************************************)
(* What is read of a session's last message, for any message and limit: a  *)
(* marker at its end decides, however long it is, and the comments to      *)
(* reply to are those it claims, each once.                                *)
(*                                                                         *)
(* AddressedFrom is defined by recursion over the lines.  An induction is  *)
(* made as a proof about the least line that goes wrong, which needs only  *)
(* that < is well-founded on Nat.                                          *)
(***************************************************************************)
EXTENDS CodexAnswer, WellFoundedInduction, TLAPS

(***************************************************************************)
(* The marker.                                                             *)
(***************************************************************************)

LEMMA LastMark ==
  ASSUME NEW S, NEW s \in Seq(S), s # <<>>, s[Len(s)][1] \in Markers
  PROVE  Verdict(s) = s[Len(s)][1]
<1>1. Len(s) \in Marks(s) /\ Marks(s) \subseteq Nat /\ \A i \in Marks(s) : i <= Len(s)
  BY DEF Marks
<1>2. \A n \in Marks(s) : (\A i \in Marks(s) : n >= i) => n = Len(s)
  BY <1>1
<1>3. Max(Marks(s)) = Len(s)
  BY <1>1, <1>2 DEF Max
<1>4. Marker(s) = s[Len(s)][1]
  BY <1>1, <1>3 DEF Marker
<1>5. QED
  BY <1>4 DEF Verdict, Markers

LEMMA ShownLast ==
  ASSUME NEW S, NEW m \in Seq(S), m # <<>>
  PROVE  /\ Shown(m) \in Seq(S \cup {<<"truncated">>}) /\ Shown(m) # <<>>
         /\ Shown(m)[Len(Shown(m))] = m[Len(m)]
<1>1. CASE Len(m) <= MaxShown
  BY <1>1 DEF Shown
<1>2. CASE Len(m) > MaxShown
  <2> DEFINE T == S \cup {<<"truncated">>}
             half == MaxShown \div 2
             head == SubSeq(m, 1, half)
             tail == SubSeq(m, Len(m) - (MaxShown - half) + 1, Len(m))
             front == head \o <<<<"truncated">>>>
  <2>1. half \in Nat /\ half < MaxShown
    BY MaxShownPositive
  <2>2. Shown(m) = front \o tail
    <3>1. ~(Len(m) <= MaxShown)
      BY <1>2, MaxShownPositive
    <3>2. QED
      BY <3>1 DEF Shown
  <2>3. head \in Seq(T) /\ Len(head) = half
    BY <1>2, <2>1, MaxShownPositive
  <2>4. tail \in Seq(T) /\ Len(tail) = MaxShown - half
    BY <1>2, <2>1, MaxShownPositive
  <2>5. tail[MaxShown - half] = m[Len(m)]
    BY <1>2, <2>1, MaxShownPositive
  <2> HIDE DEF half, head, tail
  <2>6. front \in Seq(T) /\ Len(front) = half + 1
    BY <2>1, <2>3
  <2> HIDE DEF front
  <2>7. /\ front \o tail \in Seq(T) /\ Len(front \o tail) = MaxShown + 1
        /\ (front \o tail)[MaxShown + 1] = tail[MaxShown - half]
    BY <2>1, <2>4, <2>6, MaxShownPositive
  <2>8. QED
    BY <2>2, <2>5, <2>7, MaxShownPositive
<1>3. QED
  BY <1>1, <1>2, MaxShownPositive

\* A message that ends in its marker is read as the marker says, however long it is and
\* wherever it is cut.
THEOREM MarkerIsRead ==
  ASSUME NEW S, NEW m \in Seq(S), m # <<>>, m[Len(m)][1] \in Markers
  PROVE  Verdict(Shown(m)) = m[Len(m)][1]
  BY ShownLast, LastMark

(***************************************************************************)
(* Lines, blocks and the least of a set.                                   *)
(***************************************************************************)

\* What is read: lines of a message, and the note in the place of what was cut.
Answers == Seq(Line \cup {<<"truncated">>})

\* The least-number principle, for a set: it takes the place of an induction over lines.
LEMMA LeastNatural ==
  ASSUME NEW T \in SUBSET Nat, T # {}
  PROVE  \E x \in T : \A y \in T : x <= y
<1> DEFINE R == OpToRel(<, Nat)
<1>1. IsWellFoundedOn(R, Nat)
  BY NatLessThanWellFounded
<1>2. \A x, y \in Nat : x < y => <<x, y>> \in R
  BY DEF OpToRel
<1> HIDE DEF R
<1>3. PICK x \in T : \A y \in T : <<y, x>> \notin R
  BY <1>1, WFMin
<1>4. ASSUME NEW y \in T PROVE x <= y
  <2>1. ~(y < x)
    BY <1>2, <1>3
  <2>2. x \in Nat /\ y \in Nat
    OBVIOUS
  <2>3. QED
    BY ONLY <2>1, <2>2
<1>5. QED
  BY <1>4

LEMMA ClaimForm ==
  ASSUME NEW m \in Answers, NEW i \in 1..Len(m), IsClaim(m, i)
  PROVE  m[i][2] \in Comments /\ m[i] = <<m[i][1], m[i][2]>>
<1>1. m[i] \in Line \cup {<<"truncated">>}
  BY DEF Answers
<1>2. m[i] \in {"start", "one"} \X Comments
  BY <1>1 DEF IsClaim, Line, Markers
<1>3. QED
  BY <1>2

LEMMA EndOfBlock ==
  ASSUME NEW m \in Answers, NEW i \in 1..Len(m)
  PROVE  /\ EndOf(m, i) \in i + 1..Len(m) + 1
         /\ EndOf(m, i) # Len(m) + 1 => m[EndOf(m, i)] = <<"end">>
         /\ \A j \in i + 1..Len(m) : m[j] = <<"end">> => EndOf(m, i) <= j
<1> DEFINE S == {j \in i + 1..Len(m) : m[j] = <<"end">>} \cup {Len(m) + 1}
<1>1. Len(m) \in Nat
  BY DEF Answers
<1>2. S \in SUBSET Nat /\ S # {}
  BY <1>1
<1>3. \E x \in S : \A y \in S : x <= y
  BY <1>2, LeastNatural
<1>4. EndOf(m, i) = CHOOSE x \in S : \A y \in S : x <= y
  BY DEF EndOf, Min
<1>5. EndOf(m, i) \in S /\ \A y \in S : EndOf(m, i) <= y
  BY <1>3, <1>4
<1>6. QED
  BY <1>1, <1>5

LEMMA AfterLine ==
  ASSUME NEW m \in Answers, NEW i \in 1..Len(m)
  PROVE  After(m, i) \in i + 1..Len(m) + 2
  BY EndOfBlock DEF After, Answers

(***************************************************************************)
(* The loop over the lines is well defined.                                *)
(***************************************************************************)

\* The right-hand side of the definition of AddressedFrom.
Loop(m, from, i) ==
  [handled \in SUBSET Comments |->
     IF i > Len(m) THEN <<>>
     ELSE IF IsClaim(m, i) /\ m[i][2] \notin handled
       THEN <<m[i][2]>> \o from[After(m, i)][handled \cup {m[i][2]}]
       ELSE from[After(m, i)][handled]]

LEMMA LoopReadsOn ==
  ASSUME NEW m \in Answers, NEW i \in 1..Len(m) + 2, NEW g, NEW h,
         i <= Len(m) => g[After(m, i)] = h[After(m, i)]
  PROVE  Loop(m, g, i) = Loop(m, h, i)
<1>1. CASE i > Len(m)
  BY <1>1 DEF Loop
<1>2. CASE i <= Len(m)
  BY <1>2 DEF Loop
<1>3. QED
  BY <1>1, <1>2 DEF Answers

\* The recursion is sound: it goes on past the line it is at.
LEMMA AddressedFromRec ==
  ASSUME NEW m \in Answers
  PROVE  AddressedFrom(m) = [i \in 1..Len(m) + 2 |-> Loop(m, AddressedFrom(m), i)]
<1> DEFINE D == 1..Len(m) + 2
           Part(g, k) == g = [i \in D |-> IF i + k > Len(m) + 2 THEN Loop(m, g, i) ELSE {}]
           Without == {k \in 0..Len(m) + 2 : ~ \E g : Part(g, k)}
<1>0. Len(m) \in Nat
  BY DEF Answers
<1>1. \E g : Part(g, 0)
  <2>1. Part([i \in D |-> {}], 0)
    BY <1>0
  <2>2. QED
    BY <2>1, Zenon
<1>2. ASSUME NEW k \in 0..Len(m) + 1, NEW g, Part(g, k)
      PROVE  \E h : Part(h, k + 1)
  <2> DEFINE h == [i \in D |-> IF i + (k + 1) > Len(m) + 2 THEN Loop(m, g, i) ELSE {}]
  <2>1. ASSUME NEW i \in D, i + (k + 1) > Len(m) + 2
        PROVE  Loop(m, g, i) = Loop(m, h, i)
    <3>1. ASSUME i <= Len(m) PROVE g[After(m, i)] = h[After(m, i)]
      <4>1. After(m, i) \in D /\ After(m, i) + k > Len(m) + 2
        BY <1>0, <2>1, <3>1, AfterLine
      <4>2. g[After(m, i)] = Loop(m, g, After(m, i))
        BY <1>2, <4>1
      <4>3. h[After(m, i)] = Loop(m, g, After(m, i))
        BY <1>0, <4>1
      <4>4. QED
        BY <4>2, <4>3
    <3> HIDE DEF h
    <3>2. QED
      BY <3>1, LoopReadsOn
  <2>2. h = [i \in D |-> IF i + (k + 1) > Len(m) + 2 THEN Loop(m, h, i) ELSE {}]
    BY <2>1
  <2> HIDE DEF h
  <2>3. Part(h, k + 1)
    BY <2>2
  <2>4. QED
    BY <2>3, Zenon
<1>3. Without = {}
  <2>1. SUFFICES ASSUME Without # {} PROVE FALSE
    OBVIOUS
  <2>2. PICK k \in Without : \A j \in Without : k <= j
    <3>1. Without \in SUBSET Nat
      BY <1>0
    <3> HIDE DEF Without
    <3>2. QED
      BY <2>1, <3>1, LeastNatural
  <2> HIDE DEF Part
  <2>3. k # 0
    BY <1>1
  <2>4. k - 1 \in 0..Len(m) + 1 /\ (k - 1) + 1 = k
    BY <1>0, <2>3
  <2>5. k - 1 \notin Without
    BY <1>0, <2>2, <2>4
  <2>6. \E g : Part(g, k - 1)
    BY <1>0, <2>4, <2>5
  <2>7. \E h : Part(h, k)
    BY <1>2, <2>4, <2>6
  <2>8. QED
    BY <2>7
<1>4. PICK g : Part(g, Len(m) + 2)
  <2> DEFINE last == Len(m) + 2
  <2>1. last \in 0..Len(m) + 2
    BY <1>0
  <2> HIDE DEF Part, last
  <2>2. \E f : Part(f, last)
    <3>1. (\E f : Part(f, last)) \/ last \in Without
      BY <2>1
    <3> HIDE DEF Without
    <3>2. QED
      BY <1>3, <3>1
  <2>3. QED
    BY <2>2, Zenon DEF last
<1>5. g = [i \in D |-> Loop(m, g, i)]
  BY <1>0, <1>4
<1>6. AddressedFrom(m) = CHOOSE f : f = [i \in D |-> Loop(m, f, i)]
  BY DEF AddressedFrom, Loop
<1>7. QED
  BY <1>5, <1>6, Zenon

(***************************************************************************)
(* What the loop returns.                                                  *)
(***************************************************************************)

\* Line k is within a block that starts at line i or later.
InsideFrom(m, i, k) ==
  \E s \in i..k - 1 : m[s][1] = "start" /\ \A j \in s..k - 1 : m[j] # <<"end">>

\* Read from line i on, comment c is claimed.
ClaimsFrom(m, i, c) ==
  \E k \in i..Len(m) : m[k] \in {<<"start", c>>, <<"one", c>>} /\ ~InsideFrom(m, i, k)

LEMMA InsideFromAfter ==
  ASSUME NEW m \in Answers, NEW i \in 1..Len(m), NEW k \in After(m, i)..Len(m)
  PROVE  InsideFrom(m, i, k) <=> InsideFrom(m, After(m, i), k)
<1>0. Len(m) \in Nat /\ After(m, i) \in i + 1..Len(m) + 2
  BY AfterLine DEF Answers
<1> DEFINE Open(s) == m[s][1] = "start" /\ \A j \in s..k - 1 : m[j] # <<"end">>
<1>1. \A l : InsideFrom(m, l, k) <=> \E s \in l..k - 1 : Open(s)
  BY DEF InsideFrom
<1>2. ASSUME NEW s \in i..k - 1, Open(s)
      PROVE  s \in After(m, i)..k - 1
  <2>1. CASE m[i][1] = "start"
    <3>1. After(m, i) = EndOf(m, i) + 1
      BY <2>1 DEF After
    <3>2. EndOf(m, i) \in Int /\ EndOf(m, i) <= k - 1 /\ m[EndOf(m, i)] = <<"end">>
      BY <1>0, <3>1, EndOfBlock
    <3>3. EndOf(m, i) \notin s..k - 1
      BY <1>2, <3>2
    <3>4. QED
      BY <1>0, <3>1, <3>2, <3>3
  <2>2. CASE m[i][1] # "start"
    <3>1. After(m, i) = i + 1 /\ s # i
      BY <1>2, <2>2 DEF After
    <3>2. QED
      BY <1>0, <3>1
  <2>3. QED
    BY <2>1, <2>2
<1> HIDE DEF Open
<1>3. QED
  BY <1>0, <1>1, <1>2

LEMMA SkippedLines ==
  ASSUME NEW m \in Answers, NEW i \in 1..Len(m), NEW k \in i + 1..Len(m), k < After(m, i)
  PROVE  m[k] = <<"end">> \/ InsideFrom(m, i, k)
<1>0. Len(m) \in Nat /\ After(m, i) \in i + 1..Len(m) + 2
  BY AfterLine DEF Answers
<1>1. m[i][1] = "start" /\ After(m, i) = EndOf(m, i) + 1
  BY <1>0 DEF After
<1>2. EndOf(m, i) \in i + 1..Len(m) + 1 /\ k <= EndOf(m, i)
  BY <1>0, <1>1, EndOfBlock
<1>3. CASE k = EndOf(m, i)
  BY <1>0, <1>3, EndOfBlock
<1>4. CASE k < EndOf(m, i)
  <2>1. m[i] # <<"end">>
    BY <1>1
  <2>2. ASSUME NEW j \in i + 1..k - 1 PROVE m[j] # <<"end">>
    <3>1. j \in i + 1..Len(m) /\ ~(EndOf(m, i) <= j)
      BY <1>0, <1>2, <1>4
    <3>2. QED
      BY <3>1, EndOfBlock
  <2>3. \A j \in i..k - 1 : m[j] # <<"end">>
    BY <1>0, <2>1, <2>2
  <2>4. i \in i..k - 1
    BY <1>0
  <2>5. QED
    BY <1>1, <2>3, <2>4 DEF InsideFrom
<1>5. QED
  BY <1>0, <1>2, <1>3, <1>4

LEMMA ClaimsFromLine ==
  ASSUME NEW m \in Answers, NEW i \in 1..Len(m), NEW c \in Comments
  PROVE  ClaimsFrom(m, i, c)
           <=> (IsClaim(m, i) /\ m[i][2] = c) \/ ClaimsFrom(m, After(m, i), c)
<1>0. Len(m) \in Nat /\ After(m, i) \in i + 1..Len(m) + 2
  BY AfterLine DEF Answers
<1> DEFINE Claim(k) == m[k] \in {<<"start", c>>, <<"one", c>>}
<1>1. Claim(i) <=> IsClaim(m, i) /\ m[i][2] = c
  <2>1. ASSUME Claim(i) PROVE IsClaim(m, i) /\ m[i][2] = c
    BY <2>1 DEF IsClaim
  <2>2. ASSUME IsClaim(m, i), m[i][2] = c PROVE Claim(i)
    <3>1. m[i] = <<m[i][1], c>> /\ m[i][1] \in {"start", "one"}
      BY <2>2, ClaimForm DEF IsClaim
    <3>2. QED
      BY <3>1
  <2>3. QED
    BY <2>1, <2>2
<1>2. ~InsideFrom(m, i, i)
  BY DEF InsideFrom
<1>3. \A k \in i + 1..Len(m) : Claim(k) => m[k] # <<"end">>
  OBVIOUS
<1> HIDE DEF Claim
<1>4. ClaimsFrom(m, i, c) <=> \E k \in i..Len(m) : Claim(k) /\ ~InsideFrom(m, i, k)
  BY DEF ClaimsFrom, Claim
<1>5. ClaimsFrom(m, After(m, i), c)
        <=> \E k \in After(m, i)..Len(m) : Claim(k) /\ ~InsideFrom(m, After(m, i), k)
  BY DEF ClaimsFrom, Claim
<1>6. ASSUME NEW k \in i + 1..Len(m), Claim(k), ~InsideFrom(m, i, k)
      PROVE  k \in After(m, i)..Len(m) /\ ~InsideFrom(m, After(m, i), k)
  <2>1. k >= After(m, i)
    BY <1>0, <1>3, <1>6, SkippedLines
  <2>2. QED
    BY <1>0, <1>6, <2>1, InsideFromAfter
<1>7. ASSUME NEW k \in After(m, i)..Len(m), ~InsideFrom(m, After(m, i), k)
      PROVE  k \in i..Len(m) /\ ~InsideFrom(m, i, k)
  BY <1>0, <1>7, InsideFromAfter
<1>8. ASSUME ClaimsFrom(m, i, c) PROVE Claim(i) \/ ClaimsFrom(m, After(m, i), c)
  <2>1. PICK k \in i..Len(m) : Claim(k) /\ ~InsideFrom(m, i, k)
    BY <1>4, <1>8
  <2>2. CASE k = i
    BY <2>1, <2>2
  <2>3. CASE k \in i + 1..Len(m)
    BY <1>5, <1>6, <2>1, <2>3
  <2>4. QED
    BY <1>0, <2>2, <2>3
<1>9. Claim(i) => ClaimsFrom(m, i, c)
  BY <1>0, <1>2, <1>4
<1>10. ClaimsFrom(m, After(m, i), c) => ClaimsFrom(m, i, c)
  BY <1>4, <1>5, <1>7
<1>11. QED
  BY <1>1, <1>8, <1>9, <1>10

\* What is to be read from line i on, when some comments are handled: those claimed that are
\* not handled yet, each once.
Right(m, i, handled, ids) ==
  /\ ids \in Seq(Comments)
  /\ \A j, k \in 1..Len(ids) : ids[j] = ids[k] => j = k
  /\ \A c \in Comments :
       (\E j \in 1..Len(ids) : ids[j] = c) <=> c \notin handled /\ ClaimsFrom(m, i, c)

LEMMA NothingLeft ==
  ASSUME NEW m \in Answers, NEW i \in 1..Len(m) + 2, i > Len(m), NEW handled \in SUBSET Comments
  PROVE  Right(m, i, handled, <<>>)
<1>0. Len(m) \in Nat
  BY DEF Answers
<1>1. \A c \in Comments : ~ClaimsFrom(m, i, c)
  BY <1>0 DEF ClaimsFrom
<1>2. QED
  BY <1>1 DEF Right

LEMMA OneMore ==
  ASSUME NEW m \in Answers, NEW i \in 1..Len(m), NEW handled \in SUBSET Comments,
         NEW rest, IsClaim(m, i), m[i][2] \notin handled,
         Right(m, After(m, i), handled \cup {m[i][2]}, rest)
  PROVE  Right(m, i, handled, <<m[i][2]>> \o rest)
<1> DEFINE d == m[i][2]
           ids == <<d>> \o rest
<1>1. d \in Comments
  BY ClaimForm
<1>2. rest \in Seq(Comments) /\ Len(rest) \in Nat
  BY DEF Right
<1>3. /\ ids \in Seq(Comments) /\ Len(ids) = Len(rest) + 1
      /\ ids[1] = d
      /\ \A j \in 2..Len(rest) + 1 : j - 1 \in 1..Len(rest) /\ ids[j] = rest[j - 1]
      /\ \A j \in 1..Len(rest) : j + 1 \in 2..Len(rest) + 1 /\ ids[j + 1] = rest[j]
  BY <1>1, <1>2
<1>4. \A j \in 1..Len(rest) : rest[j] # d
  BY <1>1 DEF Right
<1> HIDE DEF ids
<1>5. ASSUME NEW j \in 1..Len(ids), NEW k \in 1..Len(ids), ids[j] = ids[k] PROVE j = k
  <2>1. CASE j = 1 /\ k = 1
    BY <2>1
  <2>2. CASE j = 1 /\ k # 1
    BY <1>2, <1>3, <1>4, <1>5, <2>2
  <2>3. CASE j # 1 /\ k = 1
    BY <1>2, <1>3, <1>4, <1>5, <2>3
  <2>4. CASE j # 1 /\ k # 1
    <3>1. j \in 2..Len(rest) + 1 /\ k \in 2..Len(rest) + 1
      BY <1>2, <1>3, <2>4
    <3>2. rest[j - 1] = rest[k - 1] /\ j - 1 \in 1..Len(rest) /\ k - 1 \in 1..Len(rest)
      BY <1>3, <1>5, <3>1
    <3>3. j - 1 = k - 1
      BY <3>2 DEF Right
    <3>4. QED
      BY <3>1, <3>3, <1>2
  <2>5. QED
    BY <2>1, <2>2, <2>3, <2>4
<1>6. ASSUME NEW c \in Comments
      PROVE  (\E j \in 1..Len(ids) : ids[j] = c) <=> c \notin handled /\ ClaimsFrom(m, i, c)
  <2>1. (\E j \in 1..Len(ids) : ids[j] = c) <=> c = d \/ \E j \in 1..Len(rest) : rest[j] = c
    <3>1. ASSUME NEW j \in 1..Len(ids), ids[j] = c
          PROVE  c = d \/ \E k \in 1..Len(rest) : rest[k] = c
      <4>1. CASE j = 1
        BY <1>3, <3>1, <4>1
      <4>2. CASE j \in 2..Len(rest) + 1
        BY <1>3, <3>1, <4>2
      <4>3. QED
        BY <1>2, <1>3, <4>1, <4>2
    <3>2. c = d => \E j \in 1..Len(ids) : ids[j] = c
      <4>1. 1 \in 1..Len(ids)
        BY <1>2, <1>3
      <4>2. QED
        BY <1>3, <4>1
    <3>3. ASSUME NEW j \in 1..Len(rest), rest[j] = c PROVE \E k \in 1..Len(ids) : ids[k] = c
      <4>1. j + 1 \in 1..Len(ids) /\ ids[j + 1] = c
        BY <1>2, <1>3, <3>3
      <4>2. QED
        BY <4>1
    <3>4. QED
      BY <3>1, <3>2, <3>3
  <2>2. (\E j \in 1..Len(rest) : rest[j] = c)
          <=> c \notin handled \cup {d} /\ ClaimsFrom(m, After(m, i), c)
    BY DEF Right
  <2>3. ClaimsFrom(m, i, c) <=> d = c \/ ClaimsFrom(m, After(m, i), c)
    BY ClaimsFromLine
  <2>4. QED
    BY <2>1, <2>2, <2>3
<1>7. QED
  BY <1>3, <1>5, <1>6 DEF Right, ids

LEMMA NoneMore ==
  ASSUME NEW m \in Answers, NEW i \in 1..Len(m), NEW handled \in SUBSET Comments,
         NEW ids, ~(IsClaim(m, i) /\ m[i][2] \notin handled),
         Right(m, After(m, i), handled, ids)
  PROVE  Right(m, i, handled, ids)
  BY ClaimsFromLine DEF Right

LEMMA AddressedFromRight ==
  ASSUME NEW m \in Answers, NEW i \in 1..Len(m) + 2, NEW handled \in SUBSET Comments
  PROVE  Right(m, i, handled, AddressedFrom(m)[i][handled])
<1> DEFINE from == AddressedFrom(m)
           Good(l) == \A h \in SUBSET Comments : Right(m, l, h, from[l][h])
           Wrong == {k \in 0..Len(m) + 1 : ~Good(Len(m) + 2 - k)}
<1>0. Len(m) \in Nat
  BY DEF Answers
<1>1. ASSUME NEW l \in 1..Len(m) + 2, NEW h \in SUBSET Comments
      PROVE  /\ l > Len(m) => from[l][h] = <<>>
             /\ l <= Len(m) /\ IsClaim(m, l) /\ m[l][2] \notin h =>
                  from[l][h] = <<m[l][2]>> \o from[After(m, l)][h \cup {m[l][2]}]
             /\ l <= Len(m) /\ ~(IsClaim(m, l) /\ m[l][2] \notin h) =>
                  from[l][h] = from[After(m, l)][h]
  <2>1. from[l] = Loop(m, from, l)
    <3> HIDE DEF from
    <3>1. from = [n \in 1..Len(m) + 2 |-> Loop(m, from, n)]
      BY AddressedFromRec DEF from
    <3>2. QED
      BY <3>1
  <2> HIDE DEF from
  <2>2. from[l][h] = IF l > Len(m) THEN <<>>
                     ELSE IF IsClaim(m, l) /\ m[l][2] \notin h
                       THEN <<m[l][2]>> \o from[After(m, l)][h \cup {m[l][2]}]
                       ELSE from[After(m, l)][h]
    BY <2>1 DEF Loop
  <2>3. QED
    BY <1>0, <2>2
<1> HIDE DEF from
<1>2. ASSUME NEW l \in 1..Len(m) + 2, l <= Len(m) => Good(After(m, l))
      PROVE  Good(l)
  <2> SUFFICES ASSUME NEW h \in SUBSET Comments PROVE Right(m, l, h, from[l][h])
    OBVIOUS
  <2>1. CASE l > Len(m)
    BY <1>1, <2>1, NothingLeft
  <2>2. CASE l <= Len(m) /\ IsClaim(m, l) /\ m[l][2] \notin h
    <3>1. l \in 1..Len(m) /\ h \cup {m[l][2]} \in SUBSET Comments
      BY <1>0, <2>2, ClaimForm
    <3>2. Right(m, After(m, l), h \cup {m[l][2]}, from[After(m, l)][h \cup {m[l][2]}])
      BY <1>2, <2>2, <3>1
    <3>3. from[l][h] = <<m[l][2]>> \o from[After(m, l)][h \cup {m[l][2]}]
      BY <1>0, <1>1, <2>2
    <3>4. Right(m, l, h, <<m[l][2]>> \o from[After(m, l)][h \cup {m[l][2]}])
      BY <2>2, <3>1, <3>2, OneMore
    <3>5. QED
      BY <3>3, <3>4
  <2>3. CASE l <= Len(m) /\ ~(IsClaim(m, l) /\ m[l][2] \notin h)
    <3>1. l \in 1..Len(m)
      BY <1>0, <2>3
    <3>2. from[l][h] = from[After(m, l)][h]
      BY <1>0, <1>1, <2>3
    <3>3. Right(m, After(m, l), h, from[After(m, l)][h])
      BY <1>2, <2>3
    <3>4. Right(m, l, h, from[After(m, l)][h])
      BY <2>3, <3>1, <3>3, NoneMore
    <3>5. QED
      BY <3>2, <3>4
  <2>4. QED
    BY <1>0, <2>1, <2>2, <2>3
<1> HIDE DEF Good
<1>3. Wrong = {}
  <2>1. SUFFICES ASSUME Wrong # {} PROVE FALSE
    OBVIOUS
  <2>2. PICK k \in Wrong : \A j \in Wrong : k <= j
    <3>1. Wrong \in SUBSET Nat
      BY <1>0
    <3> HIDE DEF Wrong
    <3>2. QED
      BY <2>1, <3>1, LeastNatural
  <2> DEFINE l == Len(m) + 2 - k
  <2>3. l \in 1..Len(m) + 2 /\ ~Good(l) /\ k \in Nat
    BY <1>0, <2>2
  <2>4. ASSUME l <= Len(m) PROVE Good(After(m, l))
    <3> DEFINE j == Len(m) + 2 - After(m, l)
    <3>1. After(m, l) \in l + 1..Len(m) + 2
      BY <2>3, <2>4, AfterLine, <1>0
    <3>2. j \in 0..Len(m) + 1 /\ j < k /\ Len(m) + 2 - j = After(m, l)
      BY <1>0, <2>3, <3>1
    <3>3. j \notin Wrong
      BY <2>2, <2>3, <3>2
    <3> HIDE DEF j
    <3>4. QED
      BY <3>2, <3>3
  <2> HIDE DEF l
  <2>5. QED
    BY <1>2, <2>3, <2>4
<1>4. Good(i)
  <2> DEFINE k == Len(m) + 2 - i
  <2>1. k \in 0..Len(m) + 1 /\ Len(m) + 2 - k = i
    BY <1>0
  <2>2. k \notin Wrong
    <3> HIDE DEF Wrong
    <3>1. QED
      BY <1>3
  <2> HIDE DEF k
  <2>3. QED
    BY <2>1, <2>2
<1>5. QED
  BY <1>4 DEF Good, from

\* The comments replied to are those the answer claims, each once.
THEOREM AddressedIsClaimed ==
  ASSUME NEW m \in Answers
  PROVE  /\ Addressed(m) \in Seq(Comments)
         /\ \A c \in Comments : Claims(m, c) <=> \E i \in 1..Len(Addressed(m)) : Addressed(m)[i] = c
         /\ \A i, j \in 1..Len(Addressed(m)) : Addressed(m)[i] = Addressed(m)[j] => i = j
<1>1. Right(m, 1, {}, Addressed(m))
  <2>1. 1 \in 1..Len(m) + 2 /\ {} \in SUBSET Comments
    BY DEF Answers
  <2>2. QED
    BY <2>1, AddressedFromRight DEF Addressed
<1>2. \A c \in Comments : ClaimsFrom(m, 1, c) <=> Claims(m, c)
  BY DEF ClaimsFrom, Claims, InsideFrom, Inside
<1>3. QED
  BY <1>1, <1>2 DEF Right

================================================================================
