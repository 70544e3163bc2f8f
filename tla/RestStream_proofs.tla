-------------------------- MODULE RestStream_proofs --------------------------
(***************************************************************************)
(* Theorems about RestStream, for any payloads, any length of the body     *)
(* and any capacity of the channel.  The decoder reads the body line by    *)
(* line and the properties speak of the body as a whole, so that the       *)
(* inductive invariant RestInv relates the two: what the decoder has       *)
(* made of the lines before its frame is what these lines stand for, and   *)
(* the frame is the group of data lines it has not decoded yet.            *)
(***************************************************************************)
EXTENDS RestStream, Integers, SequenceTheorems, WellFoundedInduction, TLAPS

----------------------------------------------------------------------------
(* Induction, from the well-foundedness of < on Nat.                       *)

\* A set of numbers that is not empty has a least one.
LEMMA Least ==
  ASSUME NEW T \in SUBSET Nat, T # {}
  PROVE  \E m \in T : \A k \in T : m <= k
  <1> DEFINE R == OpToRel(<, Nat)
  <1>1. IsWellFoundedOn(R, Nat)
    BY NatLessThanWellFounded
  <1>2. \A x, y \in Nat : x < y => <<x, y>> \in R
    BY Zenon DEF OpToRel
  <1> HIDE DEF R
  <1>3. PICK m \in T : \A y \in T : ~(<<y, m>> \in R)
    BY <1>1, WFMin
  <1>4. \A k \in T : ~(k < m)
    BY <1>2, <1>3
  <1> QED BY <1>4

\* A set that has 0, and n + 1 with every n, has every number.
LEMMA Induct ==
  ASSUME NEW S, 0 \in S, \A n \in Nat : n \in S => n + 1 \in S
  PROVE  \A n \in Nat : n \in S
  <1> DEFINE T == {n \in Nat : n \notin S}
  <1>1. SUFFICES ASSUME T # {} PROVE FALSE
    OBVIOUS
  <1>2. PICK m \in T : \A k \in T : m <= k
    BY <1>1, Least
  <1>3. m # 0 /\ m \in Nat /\ m - 1 \in Nat /\ m - 1 \notin T
    BY <1>2
  <1>4. m - 1 \in S
    BY <1>3
  <1>5. (m - 1) + 1 = m
    BY <1>3
  <1> QED BY <1>3, <1>4, <1>5

----------------------------------------------------------------------------
(* FlattenSeq.                                                             *)

\* The recursive function in the definition of FlattenSeq.
Flat(s) == CHOOSE f : f = [i \in 1..Len(s) |-> IF i = 1 THEN s[i] ELSE f[i-1] \o s[i]]

\* f adds up the first n members of s, as far as it goes.
AddsUp(f, s, n) ==
    \A i \in 1..n : f[i] = IF i = 1 THEN s[i] ELSE f[i - 1] \o s[i]

LEMMA FlatExists ==
  ASSUME NEW s
  PROVE  \A n \in Nat : \E f : f = [i \in 1..n |-> IF i = 1 THEN s[i] ELSE f[i-1] \o s[i]]
  <1> DEFINE S == {n \in Nat : \E f : f = [i \in 1..n |-> IF i = 1 THEN s[i] ELSE f[i-1] \o s[i]]}
  <1>1. 0 \in S
    <2> DEFINE f == [i \in 1..0 |-> <<>>]
    <2>1. f = [i \in 1..0 |-> IF i = 1 THEN s[i] ELSE f[i-1] \o s[i]]
      OBVIOUS
    <2> QED BY <2>1
  <1>2. ASSUME NEW n \in Nat, n \in S
        PROVE  n + 1 \in S
    <2>1. PICK f : f = [i \in 1..n |-> IF i = 1 THEN s[i] ELSE f[i-1] \o s[i]]
      BY <1>2
    <2> DEFINE g == [i \in 1..(n + 1) |->
                        IF i = n + 1 THEN (IF i = 1 THEN s[i] ELSE f[i-1] \o s[i]) ELSE f[i]]
    <2>2. \A i \in 1..(n + 1) : i # 1 => g[i - 1] = f[i - 1]
      OBVIOUS
    <2>3. \A i \in 1..n : f[i] = IF i = 1 THEN s[i] ELSE f[i-1] \o s[i]
      BY <2>1
    <2>4. \A i \in 1..(n + 1) : g[i] = IF i = 1 THEN s[i] ELSE g[i-1] \o s[i]
      BY <2>2, <2>3
    <2>5. g = [i \in 1..(n + 1) |-> g[i]]
      OBVIOUS
    <2>6. g = [i \in 1..(n + 1) |-> IF i = 1 THEN s[i] ELSE g[i-1] \o s[i]]
      <3> HIDE DEF g
      <3> QED BY <2>4, <2>5
    <2> HIDE DEF g
    <2>7. \E h : h = [i \in 1..(n + 1) |-> IF i = 1 THEN s[i] ELSE h[i-1] \o s[i]]
      BY <2>6, Zenon
    <2>8. n + 1 \in Nat
      OBVIOUS
    <2> QED BY <2>7, <2>8, Zenon
  <1> HIDE DEF S
  <1>3. \A n \in Nat : n \in S
    BY <1>1, <1>2, Induct
  <1> QED BY <1>3 DEF S

LEMMA FlatStep ==
  ASSUME NEW E, NEW s \in Seq(E)
  PROVE  AddsUp(Flat(s), s, Len(s))
  <1>1. Flat(s) = [i \in 1..Len(s) |-> IF i = 1 THEN s[i] ELSE Flat(s)[i-1] \o s[i]]
    <2>1. Len(s) \in Nat
      OBVIOUS
    <2>2. \E f : f = [i \in 1..Len(s) |-> IF i = 1 THEN s[i] ELSE f[i-1] \o s[i]]
      BY <2>1, FlatExists, Zenon
    <2> QED BY <2>2, Zenon DEF Flat
  <1> QED BY <1>1 DEF AddsUp

\* Two functions that add up the same members agree, and are of their type.
LEMMA FlatUnique ==
  ASSUME NEW E, NEW s \in Seq(Seq(E)), NEW t, NEW f, NEW g, NEW n \in 0..Len(s),
         AddsUp(f, s, n), AddsUp(g, t, n), \A i \in 1..n : t[i] = s[i]
  PROVE  \A i \in 1..n : f[i] = g[i] /\ f[i] \in Seq(E)
  <1> DEFINE S == {k \in Nat : k \in 1..n => f[k] = g[k] /\ f[k] \in Seq(E)}
  <1>1. 0 \in S
    OBVIOUS
  <1>2. ASSUME NEW k \in Nat, k \in S
        PROVE  k + 1 \in S
    <2> SUFFICES ASSUME k + 1 \in 1..n
                 PROVE  f[k + 1] = g[k + 1] /\ f[k + 1] \in Seq(E)
      OBVIOUS
    <2>1. s[k + 1] \in Seq(E) /\ t[k + 1] = s[k + 1]
      OBVIOUS
    <2>2. CASE k = 0
      BY <2>1, <2>2 DEF AddsUp
    <2>3. CASE k # 0
      <3>1. k \in 1..n /\ k + 1 # 1 /\ (k + 1) - 1 = k
        BY <2>3
      <3>2. f[k + 1] = f[k] \o s[k + 1] /\ g[k + 1] = g[k] \o t[k + 1]
        BY <3>1 DEF AddsUp
      <3>3. f[k] = g[k] /\ f[k] \in Seq(E)
        BY <1>2, <3>1
      <3> QED BY <2>1, <3>2, <3>3, ConcatProperties
    <2> QED BY <2>2, <2>3
  <1> HIDE DEF S
  <1>3. \A k \in Nat : k \in S
    BY <1>1, <1>2, Induct
  <1> QED BY <1>3 DEF S

\* What FlattenSeq makes of a sequence and of one with a member more.
LEMMA FlattenSnoc ==
  ASSUME NEW E, NEW s \in Seq(Seq(E)), NEW t \in Seq(Seq(E)),
         Len(t) = Len(s) + 1, \A i \in 1..Len(s) : t[i] = s[i]
  PROVE  /\ FlattenSeq(s) \in Seq(E)
         /\ FlattenSeq(t) = FlattenSeq(s) \o t[Len(t)]
  <1>1. FlattenSeq(t) = Flat(t)[Len(t)]
    BY DEF FlattenSeq, Flat
  <1>2. AddsUp(Flat(t), t, Len(t)) /\ AddsUp(Flat(s), s, Len(s))
    BY FlatStep
  <1>3. Len(s) \in Nat /\ Len(t) \in 1..Len(t) /\ t[Len(t)] \in Seq(E)
    OBVIOUS
  <1>4. CASE s = <<>>
    <2>1. FlattenSeq(s) = <<>> /\ Len(t) = 1
      BY <1>4 DEF FlattenSeq
    <2>2. Flat(t)[Len(t)] = t[Len(t)]
      BY <1>2, <1>3, <2>1 DEF AddsUp
    <2>3. <<>> \in Seq(E) /\ <<>> \o t[Len(t)] = t[Len(t)]
      BY <1>3, ConcatEmptySeq
    <2> QED BY <1>1, <2>1, <2>2, <2>3
  <1>5. CASE s # <<>>
    <2>1. Len(s) # 0 /\ Len(t) # 1 /\ Len(t) - 1 = Len(s) /\ Len(s) \in 1..Len(s)
      BY <1>5
    <2>2. FlattenSeq(s) = Flat(s)[Len(s)]
      BY <2>1 DEF FlattenSeq, Flat
    <2>3. Flat(t)[Len(t)] = Flat(t)[Len(s)] \o t[Len(t)]
      BY <1>2, <1>3, <2>1 DEF AddsUp
    <2>4. AddsUp(Flat(t), t, Len(s))
      BY <1>2, <1>3 DEF AddsUp
    <2>5. Flat(s)[Len(s)] = Flat(t)[Len(s)] /\ Flat(s)[Len(s)] \in Seq(E)
      <3>1. Len(s) \in 0..Len(s)
        BY <1>3
      <3>2. \A i \in 1..Len(s) : Flat(s)[i] = Flat(t)[i] /\ Flat(s)[i] \in Seq(E)
        BY <1>2, <2>4, <3>1, FlatUnique
      <3> QED BY <2>1, <3>2
    <2> QED BY <1>1, <2>2, <2>3, <2>5
  <1> QED BY <1>4, <1>5

LEMMA FlattenType ==
  ASSUME NEW E, NEW s \in Seq(Seq(E))
  PROVE  FlattenSeq(s) \in Seq(E)
  <1>1. Append(s, <<>>) \in Seq(Seq(E)) /\ Len(Append(s, <<>>)) = Len(s) + 1
    OBVIOUS
  <1>2. \A i \in 1..Len(s) : Append(s, <<>>)[i] = s[i]
    OBVIOUS
  <1> QED BY <1>1, <1>2, FlattenSnoc

\* The first n members of a sequence.
LEMMA FirstMembers ==
  ASSUME NEW E, NEW t \in Seq(E), NEW n \in 0..Len(t)
  PROVE  /\ [i \in 1..n |-> t[i]] \in Seq(E)
         /\ Len([i \in 1..n |-> t[i]]) = n
  <1>1. \A i \in 1..n : t[i] \in E
    OBVIOUS
  <1>2. n \in Nat
    OBVIOUS
  <1> QED BY <1>1, <1>2

\* Empty members add nothing.
LEMMA FlattenPad ==
  ASSUME NEW E, NEW s \in Seq(Seq(E)), NEW t \in Seq(Seq(E)),
         Len(s) <= Len(t), \A i \in 1..Len(s) : t[i] = s[i],
         \A i \in (Len(s) + 1)..Len(t) : t[i] = <<>>
  PROVE  FlattenSeq(t) = FlattenSeq(s)
  <1> DEFINE First(n) == [i \in 1..n |-> t[i]]
             S == {k \in Nat : Len(s) + k <= Len(t) => FlattenSeq(First(Len(s) + k)) = FlattenSeq(s)}
  <1>0. Len(s) \in Nat /\ Len(t) \in Nat
    OBVIOUS
  <1>1. 0 \in S
    <2>1. First(Len(s)) = s
      <3>1. s = [i \in 1..Len(s) |-> s[i]]
        OBVIOUS
      <3> QED BY <3>1
    <2>2. Len(s) + 0 = Len(s)
      BY <1>0
    <2> HIDE DEF First
    <2> QED BY <2>1, <2>2
  <1>2. ASSUME NEW k \in Nat, k \in S
        PROVE  k + 1 \in S
    <2> SUFFICES ASSUME Len(s) + (k + 1) <= Len(t)
                 PROVE  FlattenSeq(First(Len(s) + (k + 1))) = FlattenSeq(s)
      OBVIOUS
    <2>1. PICK n \in Nat : n = Len(s) + k
      BY <1>0
    <2>2. /\ Len(s) + (k + 1) = n + 1 /\ n + 1 \in 0..Len(t) /\ n \in 0..Len(t)
          /\ n + 1 \in (Len(s) + 1)..Len(t)
      BY <1>0, <2>1
    <2>3. First(n) \in Seq(Seq(E)) /\ Len(First(n)) = n
      BY <2>2, FirstMembers
    <2>4. First(n + 1) \in Seq(Seq(E)) /\ Len(First(n + 1)) = n + 1
      BY <2>2, FirstMembers
    <2>5. \A i \in 1..n : First(n + 1)[i] = First(n)[i]
      OBVIOUS
    <2>6. First(n + 1)[n + 1] = <<>>
      BY <2>2
    <2>7. FlattenSeq(First(n)) = FlattenSeq(s)
      BY <1>2, <2>1, <2>2
    <2> HIDE DEF First
    <2>8. FlattenSeq(First(n)) \in Seq(E) /\ FlattenSeq(First(n + 1)) = FlattenSeq(First(n)) \o <<>>
      <3>1. PICK a \in Seq(Seq(E)) : a = First(n)
        BY <2>3
      <3>2. PICK b \in Seq(Seq(E)) : b = First(n + 1)
        BY <2>4
      <3>3. Len(b) = Len(a) + 1 /\ Len(b) = n + 1 /\ \A i \in 1..Len(a) : b[i] = a[i]
        BY <2>3, <2>4, <2>5, <3>1, <3>2
      <3>4. FlattenSeq(a) \in Seq(E) /\ FlattenSeq(b) = FlattenSeq(a) \o b[Len(b)]
        BY <3>3, FlattenSnoc
      <3> QED BY <2>6, <3>1, <3>2, <3>3, <3>4, Zenon
    <2> QED BY <2>2, <2>7, <2>8, ConcatEmptySeq
  <1> HIDE DEF S, First
  <1>3. \A n \in Nat : n \in S
    BY <1>1, <1>2, Induct
  <1>4. PICK k \in Nat : Len(s) + k = Len(t)
    <2>1. Len(t) - Len(s) \in Nat /\ Len(s) + (Len(t) - Len(s)) = Len(t)
      BY <1>0
    <2> QED BY <2>1
  <1>5. FlattenSeq(First(Len(t))) = FlattenSeq(s)
    <2>1. k \in S /\ Len(s) + k <= Len(t)
      BY <1>0, <1>3, <1>4
    <2>2. FlattenSeq(First(Len(s) + k)) = FlattenSeq(s)
      BY <2>1 DEF S
    <2> QED BY <1>4, <2>2, Zenon
  <1>6. t = First(Len(t))
    BY DEF First
  <1> QED BY <1>5, <1>6

\* A sequence, empty members after it, and one more.
LEMMA FlattenLast ==
  ASSUME NEW E, NEW s \in Seq(Seq(E)), NEW t \in Seq(Seq(E)),
         Len(s) < Len(t), \A i \in 1..Len(s) : t[i] = s[i],
         \A i \in (Len(s) + 1)..(Len(t) - 1) : t[i] = <<>>
  PROVE  FlattenSeq(t) = FlattenSeq(s) \o t[Len(t)]
  <1> DEFINE u == [i \in 1..(Len(t) - 1) |-> t[i]]
  <1>0. Len(s) \in Nat /\ Len(t) \in Nat /\ Len(t) - 1 \in 0..Len(t)
    OBVIOUS
  <1>1. u \in Seq(Seq(E)) /\ Len(u) = Len(t) - 1
    BY <1>0, FirstMembers
  <1>2. /\ \A i \in 1..Len(s) : u[i] = s[i]
        /\ \A i \in (Len(s) + 1)..Len(u) : u[i] = <<>>
        /\ \A i \in 1..Len(u) : t[i] = u[i]
        /\ Len(s) <= Len(u) /\ Len(t) = Len(u) + 1
    BY <1>0, <1>1
  <1> HIDE DEF u
  <1>3. FlattenSeq(u) = FlattenSeq(s)
    BY <1>1, <1>2, FlattenPad
  <1>4. FlattenSeq(t) = FlattenSeq(u) \o t[Len(t)]
    BY <1>1, <1>2, FlattenSnoc
  <1> QED BY <1>3, <1>4

----------------------------------------------------------------------------
(* The events of a body, as a function of its format and its lines.        *)

Events == [type : EventTypes, text : BOOLEAN, line : Nat]
BodyEvents == [type : EventTypes, text : BOOLEAN, line : Nat \ {0}]
LineSet == [kind : {"data", "blank", "long"}, payload : Payloads \cup {Raw}]

TogetherIn(f, ls, i, j) ==
    CASE f = "jsonl" -> i = j
      [] f = "json" -> TRUE
      [] OTHER -> \A k \in DOMAIN ls : (i <= k /\ k <= j) \/ (j <= k /\ k <= i)
                                        => ls[k].kind = "data"

EntryIn(f, ls, n, i) ==
    IF ls[i].kind = "data" /\ \A j \in 1..n : TogetherIn(f, ls, i, j) => j <= i
    THEN DecodeFramedPayload(IF \E j \in 1..n : j # i /\ TogetherIn(f, ls, i, j) THEN Raw ELSE ls[i].payload, i)
    ELSE <<>>

EntriesIn(f, ls, n) == [i \in 1..n |-> EntryIn(f, ls, n, i)]
EventsIn(f, ls, n) == FlattenSeq(EntriesIn(f, ls, n))

\* What EventsOf stands for.
LEMMA EventsOfIn ==
  ASSUME NEW n
  PROVE  EventsOf(n) = EventsIn(format, lines, n)
  BY DEF EventsOf, PayloadOf, Together, EventsIn, EntriesIn, EntryIn, TogetherIn

LEMMA BestEffortType ==
  ASSUME NEW o \in Objects, NEW i \in Nat
  PROVE  BestEffortEventFromMap(o, i) \in Events /\ BestEffortEventFromMap(o, i).line = i
  <1>1. o.type \in EventTypes \cup {"absent"} /\ o.text \in BOOLEAN
    BY DEF Objects
  <1> DEFINE type == IF o.error THEN "error"
                     ELSE IF o.type \notin {"absent", "structured"} THEN o.type
                     ELSE IF o.text THEN "text_delta"
                     ELSE IF o.usage THEN "usage" ELSE "structured"
  <1>2. type \in EventTypes
    BY <1>1 DEF EventTypes, TextTypes
  <1>3. BestEffortEventFromMap(o, i) = [type |-> type, text |-> o.text, line |-> i]
    BY DEF BestEffortEventFromMap, Event
  <1> HIDE DEF type
  <1> QED BY <1>1, <1>2, <1>3 DEF Events

LEMMA OneMember ==
  ASSUME NEW E, NEW e \in E
  PROVE  <<e>> \in Seq(E) /\ Len(<<e>>) = 1 /\ <<e>>[1] = e
  OBVIOUS

LEMMA MembersSeq ==
  ASSUME NEW E, NEW n \in Nat, NEW d, d = [j \in 1..n |-> d[j]], \A j \in 1..n : d[j] \in E
  PROVE  d \in Seq(E) /\ Len(d) = n
  <1>1. d \in [1..n -> E]
    OBVIOUS
  <1> QED BY <1>1

LEMMA DecodeType ==
  ASSUME NEW p \in Payloads \cup {Raw}, NEW i \in Nat
  PROVE  /\ DecodeFramedPayload(p, i) \in Seq(Events)
         /\ i # 0 => DecodeFramedPayload(p, i) \in Seq(BodyEvents)
         /\ \A j \in 1..Len(DecodeFramedPayload(p, i)) : DecodeFramedPayload(p, i)[j].line = i
  <1>1. p.kind \in {"raw", "done", "objects"} /\ p.objects \in Seq(Objects)
    <2>1. CASE p \in Payloads
      BY <2>1, RestAssumption
    <2>2. CASE p = Raw
      BY <2>2 DEF Raw
    <2> QED BY <2>1, <2>2
  <1>2. CASE p.kind = "done"
    <2> DEFINE e == Event("done", FALSE, i)
    <2>1. DecodeFramedPayload(p, i) = <<e>>
      BY <1>2 DEF DecodeFramedPayload
    <2>2. e \in Events /\ e.line = i /\ (i # 0 => e \in BodyEvents)
      BY DEF Event, Events, BodyEvents, EventTypes
    <2> HIDE DEF e
    <2>3. \A j \in 1..1 : j = 1
      OBVIOUS
    <2> QED BY <2>1, <2>2, <2>3, OneMember
  <1>3. CASE p.kind = "raw"
    <2> DEFINE e == Event("text_delta", TRUE, i)
    <2>1. DecodeFramedPayload(p, i) = <<e>>
      BY <1>3 DEF DecodeFramedPayload
    <2>2. e \in Events /\ e.line = i /\ (i # 0 => e \in BodyEvents)
      BY DEF Event, Events, BodyEvents, EventTypes, TextTypes
    <2> HIDE DEF e
    <2>3. \A j \in 1..1 : j = 1
      OBVIOUS
    <2> QED BY <2>1, <2>2, <2>3, OneMember
  <1>4. CASE p.kind = "objects"
    <2> DEFINE d == [j \in 1..Len(p.objects) |-> BestEffortEventFromMap(p.objects[j], i)]
    <2>1. DecodeFramedPayload(p, i) = d
      BY <1>1, <1>4 DEF DecodeFramedPayload
    <2>2. \A j \in 1..Len(p.objects) : p.objects[j] \in Objects
      BY <1>1
    <2>3. \A j \in 1..Len(p.objects) : d[j] \in Events /\ d[j].line = i
      BY <2>2, BestEffortType
    <2>4. \A j \in 1..Len(p.objects) : i # 0 => d[j] \in BodyEvents
      <3> HIDE DEF d
      <3> QED BY <2>3 DEF Events, BodyEvents
    <2>5. Len(p.objects) \in Nat /\ d = [j \in 1..Len(p.objects) |-> d[j]]
      BY <1>1
    <2> HIDE DEF d
    <2>6. d \in Seq(Events) /\ Len(d) = Len(p.objects) /\ (i # 0 => d \in Seq(BodyEvents))
      BY <2>3, <2>4, <2>5, MembersSeq
    <2> QED BY <2>1, <2>3, <2>6
  <1> QED BY <1>1, <1>2, <1>3, <1>4

LEMMA EntryType ==
  ASSUME NEW f, NEW ls \in Seq(LineSet), NEW n \in 0..Len(ls)
  PROVE  /\ EntriesIn(f, ls, n) \in Seq(Seq(BodyEvents))
         /\ Len(EntriesIn(f, ls, n)) = n
         /\ \A i \in 1..n : EntriesIn(f, ls, n)[i] = EntryIn(f, ls, n, i)
         /\ EventsIn(f, ls, n) \in Seq(BodyEvents)
  <1>1. ASSUME NEW i \in 1..n
        PROVE  EntryIn(f, ls, n, i) \in Seq(BodyEvents)
    <2>0. i \in 1..Len(ls) /\ i \in Nat /\ i # 0
      OBVIOUS
    <2>1. ls[i].payload \in Payloads \cup {Raw}
      <3>1. ls[i] \in LineSet
        BY <2>0
      <3> QED BY <3>1, Zenon DEF LineSet
    <2>2. <<>> \in Seq(BodyEvents)
      OBVIOUS
    <2> QED BY <2>0, <2>1, <2>2, DecodeType DEF EntryIn
  <1>2. n \in Nat
    OBVIOUS
  <1>3. /\ EntriesIn(f, ls, n) \in Seq(Seq(BodyEvents))
        /\ Len(EntriesIn(f, ls, n)) = n
        /\ \A i \in 1..n : EntriesIn(f, ls, n)[i] = EntryIn(f, ls, n, i)
    BY <1>1, <1>2 DEF EntriesIn
  <1> QED BY <1>3, FlattenType DEF EventsIn

\* The lines m + 1 to n are one payload, and none before belongs to it.
IsGroup(f, ls, m, n) ==
    /\ m < n
    /\ \A i \in (m + 1)..n : ls[i].kind = "data"
    /\ f = "jsonl" => n = m + 1
    /\ f = "json" => m = 0
    /\ f = "sse" => m = 0 \/ ls[m].kind # "data"

LEMMA GroupEntries ==
  ASSUME NEW f \in Formats, NEW ls \in Seq(LineSet), NEW n \in 0..Len(ls), NEW m \in 0..n,
         IsGroup(f, ls, m, n)
  PROVE  /\ \A i \in 1..m : EntryIn(f, ls, n, i) = EntryIn(f, ls, m, i)
         /\ \A i \in (m + 1)..(n - 1) : EntryIn(f, ls, n, i) = <<>>
         /\ EntryIn(f, ls, n, n) = DecodeFramedPayload(IF n = m + 1 THEN ls[n].payload ELSE Raw, n)
  <1>0. n \in 1..Len(ls) /\ DOMAIN ls = 1..Len(ls) /\ Len(ls) \in Nat /\ m \in Nat /\ m < n
    BY DEF IsGroup
  <1>1. \A i \in 1..m : \A j \in (m + 1)..n : ~TogetherIn(f, ls, i, j)
    <2> SUFFICES ASSUME NEW i \in 1..m, NEW j \in (m + 1)..n, TogetherIn(f, ls, i, j)
                 PROVE  FALSE
      OBVIOUS
    <2>1. CASE f = "jsonl"
      BY <2>1 DEF TogetherIn
    <2>2. CASE f = "json"
      BY <2>2 DEF IsGroup
    <2>3. CASE f = "sse"
      <3>1. m \in 1..Len(ls) /\ i <= m /\ m <= j
        BY <1>0
      <3> QED BY <1>0, <2>3, <3>1 DEF IsGroup, TogetherIn
    <2> QED BY <2>1, <2>2, <2>3 DEF Formats
  <1>2. \A i \in (m + 1)..n : TogetherIn(f, ls, i, n) /\ TogetherIn(f, ls, n, i)
    <2> SUFFICES ASSUME NEW i \in (m + 1)..n
                 PROVE  TogetherIn(f, ls, i, n) /\ TogetherIn(f, ls, n, i)
      OBVIOUS
    <2>1. CASE f = "jsonl"
      BY <2>1 DEF TogetherIn, IsGroup
    <2>2. CASE f = "json"
      BY <2>2 DEF TogetherIn
    <2>3. CASE f = "sse"
      <3>1. \A k \in DOMAIN ls : (i <= k /\ k <= n) \/ (n <= k /\ k <= i) => k \in (m + 1)..n
        BY <1>0
      <3> QED BY <2>3, <3>1 DEF IsGroup, TogetherIn
    <2> QED BY <2>1, <2>2, <2>3 DEF Formats
  <1>3. \A i \in 1..m : ~TogetherIn(f, ls, n, i)
    <2> SUFFICES ASSUME NEW i \in 1..m, TogetherIn(f, ls, n, i)
                 PROVE  FALSE
      OBVIOUS
    <2>1. CASE f = "jsonl"
      BY <1>0, <2>1 DEF TogetherIn
    <2>2. CASE f = "json"
      BY <2>2 DEF IsGroup
    <2>3. CASE f = "sse"
      <3>1. m \in 1..Len(ls) /\ i <= m /\ m <= n
        BY <1>0
      <3> QED BY <1>0, <2>3, <3>1 DEF IsGroup, TogetherIn
    <2> QED BY <2>1, <2>2, <2>3 DEF Formats
  <1>4. ASSUME NEW i \in 1..m
        PROVE  EntryIn(f, ls, n, i) = EntryIn(f, ls, m, i)
    <2>1. \A j \in 1..n : TogetherIn(f, ls, i, j) => j \in 1..m
      BY <1>0, <1>1
    <2>2. \A j \in 1..m : j \in 1..n
      BY <1>0
    <2>3. (\A j \in 1..n : TogetherIn(f, ls, i, j) => j <= i) <=> (\A j \in 1..m : TogetherIn(f, ls, i, j) => j <= i)
      BY <2>1, <2>2
    <2>4. (\E j \in 1..n : j # i /\ TogetherIn(f, ls, i, j)) <=> (\E j \in 1..m : j # i /\ TogetherIn(f, ls, i, j))
      BY <2>1, <2>2
    <2> QED BY <2>3, <2>4 DEF EntryIn
  <1>5. ASSUME NEW i \in (m + 1)..(n - 1)
        PROVE  EntryIn(f, ls, n, i) = <<>>
    <2>1. i \in (m + 1)..n /\ n \in 1..n /\ ~(n <= i)
      BY <1>0
    <2> QED BY <1>2, <2>1 DEF EntryIn
  <1>6. EntryIn(f, ls, n, n) = DecodeFramedPayload(IF n = m + 1 THEN ls[n].payload ELSE Raw, n)
    <2>1. ls[n].kind = "data" /\ \A j \in 1..n : j <= n
      BY <1>0 DEF IsGroup
    <2>2. (\E j \in 1..n : j # n /\ TogetherIn(f, ls, n, j)) <=> n # m + 1
      <3>1. CASE n = m + 1
        <4>1. \A j \in 1..n : j # n => j \in 1..m
          BY <1>0, <3>1
        <4> QED BY <1>3, <3>1, <4>1
      <3>2. CASE n # m + 1
        <4>1. m + 1 \in 1..n /\ m + 1 \in (m + 1)..n
          BY <1>0, <3>2
        <4> QED BY <1>2, <3>2, <4>1
      <3> QED BY <3>1, <3>2
    <2> QED BY <2>1, <2>2 DEF EntryIn
  <1> QED BY <1>4, <1>5, <1>6

\* A payload adds its events.
LEMMA GroupEvents ==
  ASSUME NEW f \in Formats, NEW ls \in Seq(LineSet), NEW n \in 0..Len(ls), NEW m \in 0..n,
         IsGroup(f, ls, m, n)
  PROVE  EventsIn(f, ls, n) =
            EventsIn(f, ls, m) \o DecodeFramedPayload(IF n = m + 1 THEN ls[n].payload ELSE Raw, n)
  <1> DEFINE s == EntriesIn(f, ls, m)
             t == EntriesIn(f, ls, n)
  <1>0. m \in 0..Len(ls) /\ m < n /\ n \in 1..n /\ \A i \in 1..m : i \in 1..n
    BY DEF IsGroup
  <1>1. s \in Seq(Seq(BodyEvents)) /\ Len(s) = m /\ \A i \in 1..m : s[i] = EntryIn(f, ls, m, i)
    BY <1>0, EntryType
  <1>2. t \in Seq(Seq(BodyEvents)) /\ Len(t) = n /\ \A i \in 1..n : t[i] = EntryIn(f, ls, n, i)
    BY EntryType
  <1> HIDE DEF s, t
  <1>3. \A i \in 1..m : t[i] = s[i]
    BY <1>0, <1>1, <1>2, GroupEntries
  <1>4. \A i \in (m + 1)..(n - 1) : t[i] = <<>>
    <2>1. \A i \in (m + 1)..(n - 1) : i \in 1..n
      BY <1>0
    <2>2. \A i \in (m + 1)..(n - 1) : EntryIn(f, ls, n, i) = <<>>
      BY GroupEntries
    <2> QED BY <1>2, <2>1, <2>2, Zenon
  <1>5. FlattenSeq(t) = FlattenSeq(s) \o t[n]
    BY <1>0, <1>1, <1>2, <1>3, <1>4, FlattenLast
  <1>6. t[n] = DecodeFramedPayload(IF n = m + 1 THEN ls[n].payload ELSE Raw, n)
    BY <1>0, <1>2, GroupEntries
  <1> QED BY <1>5, <1>6 DEF EventsIn, s, t

\* A line that is no data adds nothing.
LEMMA MarkEvents ==
  ASSUME NEW f \in Formats, f # "json", NEW ls \in Seq(LineSet), NEW n \in Nat, n < Len(ls),
         ls[n + 1].kind # "data"
  PROVE  EventsIn(f, ls, n + 1) = EventsIn(f, ls, n)
  <1> DEFINE s == EntriesIn(f, ls, n)
             t == EntriesIn(f, ls, n + 1)
  <1>0. n \in 0..Len(ls) /\ n + 1 \in 0..Len(ls) /\ n + 1 \in DOMAIN ls /\ n + 1 \in 1..(n + 1)
    OBVIOUS
  <1>1. s \in Seq(Seq(BodyEvents)) /\ Len(s) = n /\ \A i \in 1..n : s[i] = EntryIn(f, ls, n, i)
    BY <1>0, EntryType
  <1>2. /\ t \in Seq(Seq(BodyEvents)) /\ Len(t) = n + 1
        /\ \A i \in 1..(n + 1) : t[i] = EntryIn(f, ls, n + 1, i)
    BY <1>0, EntryType
  <1> HIDE DEF s, t
  <1>3. t[n + 1] = <<>>
    BY <1>0, <1>2 DEF EntryIn
  <1>4. \A i \in 1..n : ~TogetherIn(f, ls, i, n + 1)
    <2> SUFFICES ASSUME NEW i \in 1..n, TogetherIn(f, ls, i, n + 1)
                 PROVE  FALSE
      OBVIOUS
    <2>1. i <= n + 1 /\ n + 1 <= n + 1 /\ i # n + 1
      OBVIOUS
    <2>2. CASE f = "jsonl"
      BY <2>1, <2>2 DEF TogetherIn
    <2>3. CASE f = "sse"
      BY <1>0, <2>1, <2>3 DEF TogetherIn
    <2> QED BY <2>2, <2>3 DEF Formats
  <1>5. \A i \in 1..n : t[i] = s[i]
    <2> SUFFICES ASSUME NEW i \in 1..n
                 PROVE  EntryIn(f, ls, n + 1, i) = EntryIn(f, ls, n, i)
      BY <1>1, <1>2
    <2>1. \A j \in 1..(n + 1) : j \in 1..n \/ j = n + 1
      OBVIOUS
    <2>2. \A j \in 1..n : j \in 1..(n + 1)
      OBVIOUS
    <2>3. \A j \in 1..(n + 1) : TogetherIn(f, ls, i, j) => j \in 1..n
      BY <1>4, <2>1
    <2>4. (\A j \in 1..(n + 1) : TogetherIn(f, ls, i, j) => j <= i) <=> (\A j \in 1..n : TogetherIn(f, ls, i, j) => j <= i)
      BY <2>2, <2>3
    <2>5. (\E j \in 1..(n + 1) : j # i /\ TogetherIn(f, ls, i, j)) <=> (\E j \in 1..n : j # i /\ TogetherIn(f, ls, i, j))
      BY <2>2, <2>3
    <2> QED BY <2>4, <2>5 DEF EntryIn
  <1>6. FlattenSeq(s) \in Seq(BodyEvents) /\ FlattenSeq(t) = FlattenSeq(s) \o <<>>
    <2>1. Len(t) = Len(s) + 1 /\ (\A i \in 1..Len(s) : t[i] = s[i]) /\ t[Len(t)] = <<>>
      BY <1>1, <1>2, <1>3, <1>5
    <2>2. FlattenSeq(s) \in Seq(BodyEvents) /\ FlattenSeq(t) = FlattenSeq(s) \o t[Len(t)]
      BY <1>1, <1>2, <2>1, FlattenSnoc
    <2> QED BY <2>1, <2>2
  <1>7. FlattenSeq(t) = FlattenSeq(s)
    BY <1>6, ConcatEmptySeq
  <1> QED BY <1>7 DEF EventsIn, s, t

\* Lines that come later do not change what the first n stand for.
LEMMA StableEvents ==
  ASSUME NEW f, NEW ls \in Seq(LineSet), NEW line \in LineSet, NEW n \in 0..Len(ls)
  PROVE  EventsIn(f, Append(ls, line), n) = EventsIn(f, ls, n)
  <1> DEFINE more == Append(ls, line)
  <1>1. /\ DOMAIN ls = 1..Len(ls) /\ DOMAIN more = 1..(Len(ls) + 1)
        /\ Len(ls) \in Nat
        /\ \A i \in 1..Len(ls) : more[i] = ls[i]
    OBVIOUS
  <1> HIDE DEF more
  <1>2. \A i, j \in 1..n : TogetherIn(f, more, i, j) <=> TogetherIn(f, ls, i, j)
    <2> SUFFICES ASSUME NEW i \in 1..n, NEW j \in 1..n
                 PROVE  TogetherIn(f, more, i, j) <=> TogetherIn(f, ls, i, j)
      OBVIOUS
    <2>1. CASE f = "jsonl"
      BY <2>1 DEF TogetherIn
    <2>2. CASE f = "json"
      BY <2>2 DEF TogetherIn
    <2>3. CASE f \notin {"jsonl", "json"}
      <3>1. \A k \in DOMAIN more : (i <= k /\ k <= j) \/ (j <= k /\ k <= i) => k \in DOMAIN ls
        BY <1>1
      <3>2. \A k \in DOMAIN ls : k \in DOMAIN more /\ more[k] = ls[k]
        BY <1>1
      <3>3. TogetherIn(f, more, i, j) <=>
               \A k \in DOMAIN more : (i <= k /\ k <= j) \/ (j <= k /\ k <= i) => more[k].kind = "data"
        BY <2>3 DEF TogetherIn
      <3>4. TogetherIn(f, ls, i, j) <=>
               \A k \in DOMAIN ls : (i <= k /\ k <= j) \/ (j <= k /\ k <= i) => ls[k].kind = "data"
        BY <2>3 DEF TogetherIn
      <3> QED BY <3>1, <3>2, <3>3, <3>4, Zenon
    <2> QED BY <2>1, <2>2, <2>3
  <1>3. \A i \in 1..n : EntryIn(f, more, n, i) = EntryIn(f, ls, n, i)
    <2> SUFFICES ASSUME NEW i \in 1..n
                 PROVE  EntryIn(f, more, n, i) = EntryIn(f, ls, n, i)
      OBVIOUS
    <2>1. more[i] = ls[i]
      BY <1>1
    <2>2. (\A j \in 1..n : TogetherIn(f, more, i, j) => j <= i) <=> (\A j \in 1..n : TogetherIn(f, ls, i, j) => j <= i)
      BY <1>2
    <2>3. (\E j \in 1..n : j # i /\ TogetherIn(f, more, i, j)) <=> (\E j \in 1..n : j # i /\ TogetherIn(f, ls, i, j))
      BY <1>2
    <2> QED BY <2>1, <2>2, <2>3 DEF EntryIn
  <1>4. EntriesIn(f, more, n) = EntriesIn(f, ls, n)
    BY <1>3 DEF EntriesIn
  <1> QED BY <1>4 DEF EventsIn, more

LEMMA NoEvents ==
  ASSUME NEW f, NEW ls
  PROVE  EventsIn(f, ls, 0) = <<>>
  <1>1. EntriesIn(f, ls, 0) = <<>>
    <2>1. 1..0 = {}
      OBVIOUS
    <2> QED BY <2>1 DEF EntriesIn
  <1>2. Len(<<>>) = 0
    OBVIOUS
  <1> QED BY <1>1, <1>2, Zenon DEF EventsIn, FlattenSeq

\* The text of a sequence of events, and of one with an event more.
LEMMA TextAppend ==
  ASSUME NEW s \in Seq(Events), NEW e \in Events
  PROVE  /\ TextOf(s) \in Seq(Nat) /\ TextIn(e) \in Seq(Nat)
         /\ TextOf(Append(s, e)) = TextOf(s) \o TextIn(e)
  <1> DEFINE u == [i \in 1..Len(s) |-> TextIn(s[i])]
             t == [i \in 1..(Len(s) + 1) |-> TextIn(Append(s, e)[i])]
  <1>1. \A x \in Events : TextIn(x) \in Seq(Nat)
    <2> SUFFICES ASSUME NEW x \in Events
                 PROVE  TextIn(x) \in Seq(Nat)
      OBVIOUS
    <2>1. x.line \in Nat
      BY DEF Events
    <2> QED BY <2>1 DEF TextIn
  <1>2. Len(s) \in Nat /\ Len(s) + 1 \in Nat /\ DOMAIN s = 1..Len(s) /\ DOMAIN Append(s, e) = 1..(Len(s) + 1)
    OBVIOUS
  <1>3. TextOf(s) = FlattenSeq(u) /\ TextOf(Append(s, e)) = FlattenSeq(t)
    BY <1>2 DEF TextOf
  <1>4. /\ \A i \in 1..Len(s) : s[i] \in Events /\ Append(s, e)[i] = s[i]
        /\ Append(s, e)[Len(s) + 1] = e
    OBVIOUS
  <1>5. /\ \A i \in 1..Len(s) : u[i] \in Seq(Nat) /\ t[i] = u[i]
        /\ t[Len(s) + 1] = TextIn(e)
        /\ u = [i \in 1..Len(s) |-> u[i]]
        /\ t = [i \in 1..(Len(s) + 1) |-> t[i]]
    <2>1. Len(s) + 1 \in 1..(Len(s) + 1) /\ \A i \in 1..Len(s) : i \in 1..(Len(s) + 1)
      BY <1>2
    <2> QED BY <1>1, <1>4, <2>1
  <1> HIDE DEF u, t
  <1>6. \A i \in 1..(Len(s) + 1) : t[i] \in Seq(Nat)
    <2>1. \A i \in 1..(Len(s) + 1) : i \in 1..Len(s) \/ i = Len(s) + 1
      BY <1>2
    <2> QED BY <1>1, <1>5, <2>1
  <1>7. u \in Seq(Seq(Nat)) /\ Len(u) = Len(s)
    BY <1>2, <1>5, MembersSeq
  <1>8. t \in Seq(Seq(Nat)) /\ Len(t) = Len(s) + 1
    BY <1>2, <1>5, <1>6, MembersSeq
  <1>9. FlattenSeq(u) \in Seq(Nat) /\ FlattenSeq(t) = FlattenSeq(u) \o TextIn(e)
    <2>1. Len(t) = Len(u) + 1 /\ (\A i \in 1..Len(u) : t[i] = u[i]) /\ t[Len(t)] = TextIn(e)
      BY <1>5, <1>7, <1>8
    <2>2. FlattenSeq(u) \in Seq(Nat) /\ FlattenSeq(t) = FlattenSeq(u) \o t[Len(t)]
      BY <1>7, <1>8, <2>1, FlattenSnoc
    <2> QED BY <2>1, <2>2
  <1> QED BY <1>1, <1>3, <1>9

LEMMA NoText == TextOf(<<>>) = <<>>
  <1>1. [i \in DOMAIN <<>> |-> TextIn(<<>>[i])] = <<>>
    OBVIOUS
  <1> QED BY <1>1 DEF TextOf, FlattenSeq

\* UpToDone cuts a sequence after its first Done.
LEMMA FirstDone ==
  ASSUME NEW s \in Seq(Events), NEW g \in Seq(Events), Len(g) \in 1..Len(s),
         \A i \in 1..Len(g) : g[i] = s[i],
         \A i \in 1..Len(g) : IsDone(g[i]) <=> i = Len(g)
  PROVE  UpToDone(s) = g
  <1> DEFINE dones == {i \in DOMAIN s : IsDone(s[i])}
  <1>0. DOMAIN s = 1..Len(s) /\ Len(s) \in Nat /\ Len(g) \in Nat
    OBVIOUS
  <1>1. Len(g) \in dones /\ \A i \in dones : i \in Nat /\ Len(g) <= i
    <2>1. Len(g) \in 1..Len(g)
      BY <1>0
    <2>2. ASSUME NEW i \in dones
          PROVE  i \in Nat /\ Len(g) <= i
      <3>1. i \in 1..Len(s) /\ IsDone(s[i])
        BY <1>0
      <3>2. i < Len(g) => i \in 1..Len(g)
        BY <1>0, <3>1
      <3> QED BY <1>0, <3>1, <3>2
    <2> QED BY <1>0, <2>1, <2>2
  <1>2. (CHOOSE i \in dones : \A j \in dones : i <= j) = Len(g)
    <2> HIDE DEF dones
    <2>1. \A i \in dones : (\A j \in dones : i <= j) => i = Len(g)
      BY <1>0, <1>1
    <2> QED BY <1>1, <2>1
  <1>3. UpToDone(s) = SubSeq(s, 1, Len(g))
    BY <1>1, <1>2 DEF UpToDone
  <1>4. SubSeq(s, 1, Len(g)) = g
    <2>1. SubSeq(s, 1, Len(g)) = [i \in 1..Len(g) |-> s[i]]
      BY <1>0
    <2>2. g = [i \in 1..Len(g) |-> g[i]]
      OBVIOUS
    <2> QED BY <2>1, <2>2
  <1> QED BY <1>3, <1>4

----------------------------------------------------------------------------
(* The inductive invariant.                                                *)

\* The events the decoder has made, sent or not, and where the frame begins that it
\* is reading.
Decoded == Stream \o held
Base == rd - Len(frame)
Body(n) == EventsIn(format, lines, n)
HasDone(s) == \E i \in 1..Len(s) : IsDone(s[i])

\* The types the proofs need.
RestTypes ==
    /\ call \in {"new", "refused", "stream"}
    /\ format \in Formats
    /\ lines \in Seq(LineSet)
    /\ rd \in 0..Len(lines)
    /\ dec \in {"gone", "scan", "send", "sendLast", "finish", "close"}
    /\ held \in Seq(Events) /\ ch \in Seq(Events) /\ got \in Seq(Events)
    /\ frame \in Seq(Nat)
    /\ text \in Seq(Nat) /\ buf \in Seq(Nat)

\* The frame is the data lines before the next one: all since a line that is no
\* data, or since the beginning for a single JSON value.
FrameInv ==
    /\ \A i \in 1..Len(lines) : /\ lines[i].kind = "blank" => format = "sse"
                                /\ lines[i].kind = "long" => format # "json"
    /\ Len(frame) <= rd
    /\ \A i \in 1..Len(frame) : frame[i] = Base + i /\ lines[Base + i].kind = "data"
    /\ frame # <<>> => dec = "scan" /\ format # "jsonl"
    /\ dec \in {"scan", "send"} /\ format = "json" => Base = 0
    /\ dec \in {"scan", "send"} /\ format = "sse" /\ Base > 0 => lines[Base].kind # "data"

\* How far the goroutine is, and what it may still hold.
DecInv ==
    /\ dec \in {"send", "sendLast"} <=> held # <<>>
    /\ call # "stream" => dec = "gone" /\ ~chClosed /\ got = <<>> /\ ch = <<>> /\ lines = <<>> /\ frame = <<>>
    /\ chClosed => dec = "gone"
    /\ call = "stream" /\ dec = "gone" => chClosed
    /\ dec = "close" \/ chClosed => doneEmitted

\* A Done of the decoder's own is its last event, and no other is a Done.
DoneInv ==
    /\ doneEmitted <=> HasDone(Stream)
    /\ \A i \in 1..Len(Decoded) : Decoded[i] = Done =>
          /\ dec \in {"close", "gone"}
          /\ i = Len(Decoded)
          /\ \A j \in 1..Len(Decoded) : IsDone(Decoded[j]) => j = i

\* All of the body has been decoded.
IsComplete(s, e) ==
    \/ s = e
    \/ s = Append(e, Done) /\ ~HasDone(e)

\* After the first c events, which are the body's, the decoder has failed, and says
\* so before anything that could be taken for the end.
IsBroken(s, e, c) ==
    /\ c <= Len(e)
    /\ \A i \in 1..c : s[i] = e[i]
    /\ \E i \in (c + 1)..Len(s) : s[i] = Failure
    /\ \A i \in (c + 1)..Len(s) : IsDone(s[i]) => \E j \in (c + 1)..i : s[j] = Failure

\* What the decoder has made is what the lines it has read stand for.
BodyInv ==
    /\ dec \in {"scan", "send"} => Decoded = Body(Base)
    /\ call = "stream" /\ dec \in {"sendLast", "finish", "close", "gone"} =>
          \/ link = "eof" /\ rd = Len(lines) /\ IsComplete(Decoded, Body(rd))
          \/ \E c \in 0..Len(Decoded) : IsBroken(Decoded, Body(rd), c)

\* CollectText's text is the text of the events it has received.
CollectInv ==
    user = "collect" =>
        /\ result \in {"none", "text"} => text = TextOf(got) /\ ~Fails(got)
        /\ result = "text" => chClosed /\ ch = <<>>

\* So is the reader's, with what is in its buffer; it receives nothing after a Done,
\* and it tells its caller of the end when it has received one.
ReaderInv ==
    /\ rpc # "idle" => user = "read"
    /\ user = "read" => text \o buf = TextOf(got) /\ result \in {"none", "eof", "error"}
    /\ user = "read" /\ closing = "open" =>
        /\ rclosed => HasDone(got) /\ rpc # "recv"
        /\ \A i \in 1..Len(got) : IsDone(got[i]) => i = Len(got) /\ rclosed
        /\ rpc = "drain" => buf # <<>> \/ rclosed
        /\ result = "eof" => rclosed /\ buf = <<>>
        /\ result # "error" => ~Fails(got)

RestInv == RestTypes /\ FrameInv /\ DecInv /\ DoneInv /\ BodyInv /\ CollectInv /\ ReaderInv

----------------------------------------------------------------------------
(* Sequences that are passed on.                                           *)

LEMMA MoveHead ==
  ASSUME NEW E, NEW a \in Seq(E), NEW b \in Seq(E), b # <<>>
  PROVE  /\ Head(b) \in E /\ Tail(b) \in Seq(E) /\ Append(a, Head(b)) \in Seq(E)
         /\ Head(b) = b[1] /\ Len(Tail(b)) = Len(b) - 1
         /\ Append(a, Head(b)) \o Tail(b) = a \o b
  <1>1. /\ Head(b) \in E /\ Tail(b) \in Seq(E) /\ Len(Tail(b)) = Len(b) - 1
        /\ \A i \in 1..Len(Tail(b)) : Tail(b)[i] = b[i + 1]
    BY HeadTailProperties
  <1>2. Head(b) = b[1]
    OBVIOUS
  <1>3. Append(a, Head(b)) \in Seq(E) /\ Len(Append(a, Head(b))) = Len(a) + 1
    BY <1>1
  <1> DEFINE l == Append(a, Head(b)) \o Tail(b)
             r == a \o b
  <1>4. l \in Seq(E) /\ r \in Seq(E)
    BY <1>1, <1>3
  <1>5. Len(l) = Len(r)
    BY <1>1, <1>3
  <1>6. \A i \in 1..Len(r) : l[i] = r[i]
    <2> SUFFICES ASSUME NEW i \in 1..Len(r)
                 PROVE  l[i] = r[i]
      OBVIOUS
    <2>0. Len(a) \in Nat /\ Len(b) \in Nat /\ Len(b) >= 1 /\ Len(r) = Len(a) + Len(b)
      OBVIOUS
    <2>1. CASE i <= Len(a)
      <3>1. Append(a, Head(b))[i] = a[i] /\ i \in 1..Len(a)
        BY <1>1, <2>0, <2>1
      <3> QED BY <1>1, <1>3, <2>0, <2>1, <3>1
    <2>2. CASE i = Len(a) + 1
      <3>1. Append(a, Head(b))[i] = Head(b) /\ r[i] = b[1]
        BY <1>1, <2>0, <2>2
      <3> QED BY <1>1, <1>2, <1>3, <2>0, <2>2, <3>1
    <2>3. CASE i > Len(a) + 1
      <3>1. l[i] = Tail(b)[i - (Len(a) + 1)] /\ r[i] = b[i - Len(a)]
        BY <1>1, <1>3, <2>0, <2>3
      <3>2. i - (Len(a) + 1) \in 1..Len(Tail(b)) /\ (i - (Len(a) + 1)) + 1 = i - Len(a)
        BY <1>1, <2>0, <2>3
      <3> QED BY <1>1, <3>1, <3>2
    <2> QED BY <2>0, <2>1, <2>2, <2>3
  <1> HIDE DEF l, r
  <1>7. l = r
    BY <1>4, <1>5, <1>6, SeqEqual
  <1> QED BY <1>1, <1>2, <1>3, <1>7 DEF l, r

LEMMA ConcatAppend ==
  ASSUME NEW E, NEW a \in Seq(E), NEW b \in Seq(E), NEW e \in E
  PROVE  a \o Append(b, e) = Append(a \o b, e)
  <1>1. Append(b, e) = b \o <<e>> /\ <<e>> \in Seq(E) /\ a \o b \in Seq(E)
    BY AppendIsConcat, ConcatProperties
  <1>2. Append(a \o b, e) = (a \o b) \o <<e>>
    BY <1>1, AppendIsConcat
  <1> QED BY <1>1, <1>2, ConcatAssociative

\* The same for events.
LEMMA EventConcat ==
  /\ \A a, b \in Seq(Events) : \A e \in Events : a \o Append(b, e) = Append(a \o b, e)
  /\ \A a, b \in Seq(Events) : b # <<>> => Append(a, Head(b)) \o Tail(b) = a \o b
  /\ \A a \in Seq(Events) : \A e \in Events : Append(a, e) \in Seq(Events)
  <1>1. \A a, b \in Seq(Events) : \A e \in Events : a \o Append(b, e) = Append(a \o b, e)
    BY ConcatAppend
  <1>2. \A a, b \in Seq(Events) : b # <<>> => Append(a, Head(b)) \o Tail(b) = a \o b
    BY MoveHead
  <1>3. \A a \in Seq(Events) : \A e \in Events : Append(a, e) \in Seq(Events)
    BY AppendProperties
  <1> QED BY <1>1, <1>2, <1>3

LEMMA BodyEventsAre ==
  ASSUME NEW s \in Seq(BodyEvents)
  PROVE  s \in Seq(Events) /\ \A i \in 1..Len(s) : s[i] # Done /\ s[i] # Failure
  <1>1. \A i \in 1..Len(s) : s[i] \in BodyEvents
    OBVIOUS
  <1>2. \A e \in BodyEvents : e \in Events /\ e # Done /\ e # Failure
    BY DEF BodyEvents, Events, Done, Failure, Event
  <1>3. \A i \in 1..Len(s) : s[i] \in Events /\ s[i] # Done /\ s[i] # Failure
    BY <1>1, <1>2
  <1>4. Len(s) \in Nat /\ s = [i \in 1..Len(s) |-> s[i]]
    OBVIOUS
  <1> QED BY <1>3, <1>4, MembersSeq

LEMMA OwnEvents ==
    /\ Done \in Events /\ Failure \in Events /\ Done # Failure
    /\ IsDone(Done) /\ ~IsDone(Failure) /\ Failure.type = "error" /\ Done.type # "error"
    /\ TextIn(Done) = <<>>
  BY DEF Done, Failure, Event, Events, EventTypes, TextTypes, IsDone, TextIn

----------------------------------------------------------------------------
(* What the decoder makes of a frame.                                      *)

LEMMA BodyType ==
  ASSUME RestTypes, NEW n \in 0..Len(lines)
  PROVE  Body(n) \in Seq(BodyEvents)
  BY EntryType DEF RestTypes, Body

LEMMA Flush ==
  ASSUME RestTypes, FrameInv, dec = "scan"
  PROVE  /\ FrameEvents(frame) \in Seq(BodyEvents)
         /\ Base \in 0..rd
         /\ Body(Base) \in Seq(BodyEvents) /\ Body(rd) \in Seq(BodyEvents)
         /\ Body(rd) = Body(Base) \o FrameEvents(frame)
  <1>0. /\ format \in Formats /\ lines \in Seq(LineSet) /\ rd \in 0..Len(lines) /\ frame \in Seq(Nat)
        /\ Len(frame) <= rd /\ Len(frame) \in Nat /\ Len(lines) \in Nat
    BY DEF RestTypes, FrameInv
  <1>1. Base \in 0..rd /\ Base \in 0..Len(lines)
    BY <1>0 DEF Base
  <1>2. Body(Base) \in Seq(BodyEvents) /\ Body(rd) \in Seq(BodyEvents)
    BY <1>0, <1>1, EntryType DEF Body
  <1>3. CASE frame = <<>>
    <2>1. FrameEvents(frame) = <<>> /\ Base = rd
      BY <1>0, <1>3 DEF FrameEvents, Base
    <2> QED BY <1>1, <1>2, <2>1, ConcatEmptySeq
  <1>4. CASE frame # <<>>
    <2>1. PICK m \in 0..rd : m = Base
      BY <1>1
    <2>2. /\ Len(frame) >= 1 /\ m < rd /\ m + Len(frame) = rd
          /\ \A i \in 1..Len(frame) : frame[i] = m + i /\ lines[m + i].kind = "data"
      BY <1>0, <1>4, <2>1 DEF FrameInv, Base
    <2>3. IsGroup(format, lines, m, rd)
      <3>1. \A i \in (m + 1)..rd : i - m \in 1..Len(frame) /\ m + (i - m) = i
        BY <1>0, <2>2
      <3>2. \A i \in (m + 1)..rd : lines[i].kind = "data"
        BY <2>2, <3>1
      <3>3. format # "jsonl" /\ (format = "json" => m = 0) /\ (format = "sse" => m = 0 \/ lines[m].kind # "data")
        BY <1>4, <2>1 DEF FrameInv
      <3> QED BY <2>2, <3>2, <3>3 DEF IsGroup
    <2>4. frame[Len(frame)] = rd /\ frame[1] = m + 1 /\ frame[1] # 0 /\ (Len(frame) = 1 <=> rd = m + 1)
      <3>1. 1 \in 1..Len(frame) /\ Len(frame) \in 1..Len(frame)
        BY <1>0, <2>2
      <3>2. frame[Len(frame)] = m + Len(frame) /\ frame[1] = m + 1
        BY <2>2, <3>1
      <3>3. (Len(frame) = 1 <=> rd = m + 1) /\ m + 1 # 0
        <4>1. \A a, b, c \in Nat : a + b = c => (b = 1 <=> c = a + 1) /\ a + 1 # 0
          OBVIOUS
        <4>2. m \in Nat /\ rd \in Nat /\ m + Len(frame) = rd
          BY <1>0, <2>2
        <4> QED BY <1>0, <4>1, <4>2, Zenon
      <3> QED BY <2>2, <3>2, <3>3
    <2>5. FrameEvents(frame) = DecodeFramedPayload(IF rd = m + 1 THEN lines[rd].payload ELSE Raw, rd)
      BY <1>4, <2>4 DEF FrameEvents, Joined
    <2>6. Body(rd) = Body(Base) \o FrameEvents(frame)
      <3>1. EventsIn(format, lines, rd) = EventsIn(format, lines, m)
               \o DecodeFramedPayload(IF rd = m + 1 THEN lines[rd].payload ELSE Raw, rd)
        BY <1>0, <2>3, GroupEvents, Zenon
      <3> QED BY <2>1, <2>5, <3>1 DEF Body
    <2>7. FrameEvents(frame) \in Seq(BodyEvents)
      <3>1. rd \in 1..Len(lines) /\ rd \in Nat /\ rd # 0
        BY <1>0, <2>2
      <3>2. lines[rd] \in LineSet
        BY <1>0, <3>1
      <3>3. lines[rd].payload \in Payloads \cup {Raw} /\ Raw \in Payloads \cup {Raw}
        BY <3>2, Zenon DEF LineSet
      <3> QED BY <2>5, <3>1, <3>3, DecodeType
    <2> QED BY <1>1, <1>2, <2>6, <2>7
  <1> QED BY <1>3, <1>4

\* A line of JSONL.
LEMMA NextLine ==
  ASSUME RestTypes, FrameInv, format = "jsonl", rd < Len(lines), lines[rd + 1].kind = "data"
  PROVE  /\ FrameEvents(<<rd + 1>>) \in Seq(BodyEvents)
         /\ Body(rd + 1) = Body(rd) \o FrameEvents(<<rd + 1>>)
  <1>0. /\ format \in Formats /\ lines \in Seq(LineSet) /\ rd \in Nat /\ Len(lines) \in Nat
        /\ rd + 1 \in 0..Len(lines) /\ rd \in 0..(rd + 1) /\ rd + 1 \in 1..Len(lines) /\ rd + 1 # 0
        /\ rd + 1 \in Nat
    BY DEF RestTypes
  <1>1. IsGroup(format, lines, rd, rd + 1)
    <2>1. \A i \in (rd + 1)..(rd + 1) : i = rd + 1
      BY <1>0
    <2> QED BY <1>0, <2>1 DEF IsGroup
  <1>2. FrameEvents(<<rd + 1>>) = DecodeFramedPayload(lines[rd + 1].payload, rd + 1)
    BY <1>0 DEF FrameEvents, Joined
  <1>3. Body(rd + 1) = Body(rd) \o FrameEvents(<<rd + 1>>)
    <2>1. EventsIn(format, lines, rd + 1) = EventsIn(format, lines, rd)
             \o DecodeFramedPayload(IF rd + 1 = rd + 1 THEN lines[rd + 1].payload ELSE Raw, rd + 1)
      BY <1>0, <1>1, GroupEvents, Zenon
    <2> QED BY <1>2, <2>1 DEF Body
  <1>4. lines[rd + 1] \in LineSet
    BY <1>0
  <1>5. lines[rd + 1].payload \in Payloads \cup {Raw}
    BY <1>4, Zenon DEF LineSet
  <1> QED BY <1>0, <1>2, <1>3, <1>5, DecodeType

\* The part of a line that was cut is text.
CutText == Event("text_delta", TRUE, 0)

LEMMA CutFrame ==
  ASSUME RestTypes
  PROVE  /\ FrameEvents(<<>>) = <<>>
         /\ FrameEvents(<<0>>) = <<CutText>>
         /\ FrameEvents(frame \o <<0>>) = <<CutText>>
         /\ frame \o <<>> = frame
         /\ CutText \in Events /\ ~IsDone(CutText) /\ CutText # Failure
  <1>1. frame \in Seq(Nat) /\ <<0>> \in Seq(Nat) /\ Len(<<0>>) = 1 /\ <<0>>[1] = 0
    BY DEF RestTypes
  <1> DEFINE f == frame \o <<0>>
  <1>2. f \in Seq(Nat) /\ Len(f) = Len(frame) + 1 /\ f[Len(f)] = 0 /\ f # <<>>
    BY <1>1
  <1>3. Len(f) = 1 => f[1] = 0
    BY <1>2
  <1> HIDE DEF f
  <1>4. DecodeFramedPayload(Raw, 0) = <<CutText>>
    BY DEF DecodeFramedPayload, Raw, CutText
  <1>5. FrameEvents(f) = <<CutText>>
    BY <1>2, <1>3, <1>4 DEF FrameEvents, Joined
  <1>6. FrameEvents(<<0>>) = <<CutText>>
    BY <1>1, <1>4 DEF FrameEvents, Joined
  <1>7. FrameEvents(<<>>) = <<>>
    BY DEF FrameEvents
  <1>8. frame \o <<>> = frame
    BY <1>1, ConcatEmptySeq
  <1>9. CutText \in Events /\ ~IsDone(CutText) /\ CutText # Failure
    BY DEF CutText, Event, Events, EventTypes, TextTypes, IsDone, Failure
  <1> QED BY <1>5, <1>6, <1>7, <1>8, <1>9 DEF f

----------------------------------------------------------------------------
(* The steps.                                                              *)

streamVars == <<call, format, lines, rd, dec, frame, held, doneEmitted, chClosed, ch, got>>

\* The steps that leave the decoder, the channel and what was received alone.
Aside ==
    /\ UNCHANGED streamVars
    /\ link' # link => link = "open"

LEMMA AsideSteps ==
    /\ EndBody => Aside
    /\ RecvEnded \/ RecvClose \/ CancelContext => Aside
    /\ CollectEnded \/ CollectCanceled => Aside
    /\ ReadCall \/ ReadCheck \/ ReadCanceled \/ ReadDrain => Aside
    /\ ReaderCloseMark \/ ReaderCloseRest => Aside
    /\ Stopped \/ UNCHANGED vars => Aside
  <1>1. EndBody => Aside
    BY DEF EndBody, Aside, streamVars, decVars, userVars, readVars
  <1>2. RecvEnded \/ RecvClose \/ CancelContext => Aside
    BY DEF RecvEnded, RecvClose, CancelContext, Aside, streamVars, bodyVars, decVars, userVars, readVars
  <1>3. CollectEnded \/ CollectCanceled => Aside
    BY DEF CollectEnded, CollectCanceled, Aside, streamVars, bodyVars, decVars, userVars, readVars
  <1>4. ReadCall \/ ReadCheck \/ ReadCanceled \/ ReadDrain => Aside
    BY DEF ReadCall, ReadCheck, ReadCanceled, ReadDrain, Aside, streamVars, bodyVars, decVars, userVars, readVars
  <1>5. ReaderCloseMark \/ ReaderCloseRest => Aside
    BY DEF ReaderCloseMark, ReaderCloseRest, Aside, streamVars, bodyVars, decVars, userVars, readVars
  <1>6. Stopped \/ UNCHANGED vars => Aside
    BY DEF Stopped, vars, Aside, streamVars, bodyVars, decVars, userVars, readVars
  <1> QED BY <1>1, <1>2, <1>3, <1>4, <1>5, <1>6

\* The steps that receive an event.
Receives ==
    /\ Take
    /\ UNCHANGED <<call, format, lines, rd, dec, frame, held, doneEmitted, chClosed, link>>

LEMMA ReceiveSteps == Recv \/ CollectEvent \/ ReadEvent => Receives
  BY DEF Recv, CollectEvent, ReadEvent, Receives, bodyVars, decVars, userVars, readVars

LEMMA NextCases ==
  ASSUME [Next]_vars
  PROVE  \/ InvokeFails \/ InvokeStreams \/ Deliver
         \/ ScanData \/ ScanBlank \/ ScanTooLong \/ ScanEOF \/ ScanError
         \/ Send \/ EmitDoneIfNeeded \/ CloseChannel
         \/ Receives \/ Aside
  BY AsideSteps, ReceiveSteps DEF Next, Decoder, Collect, Read

LEMMA MarkLines ==
    /\ \A line \in DataLines : line \in LineSet /\ line.kind = "data"
    /\ Mark("blank") \in LineSet /\ Mark("blank").kind = "blank"
    /\ Mark("long") \in LineSet /\ Mark("long").kind = "long"
  BY DEF DataLines, Mark, LineSet

LEMMA TypesStep ==
  ASSUME RestTypes, FrameInv, DecInv, [Next]_vars
  PROVE  /\ call' \in {"new", "refused", "stream"}
         /\ format' \in Formats
         /\ lines' \in Seq(LineSet)
         /\ rd' \in 0..Len(lines')
         /\ dec' \in {"gone", "scan", "send", "sendLast", "finish", "close"}
         /\ held' \in Seq(Events) /\ ch' \in Seq(Events) /\ got' \in Seq(Events)
         /\ frame' \in Seq(Nat)
  <1>0. /\ call \in {"new", "refused", "stream"}
        /\ format \in Formats
        /\ lines \in Seq(LineSet)
        /\ rd \in 0..Len(lines)
        /\ dec \in {"gone", "scan", "send", "sendLast", "finish", "close"}
        /\ held \in Seq(Events) /\ ch \in Seq(Events) /\ got \in Seq(Events)
        /\ frame \in Seq(Nat)
        /\ <<>> \in Seq(Nat) /\ <<>> \in Seq(Events)
    BY DEF RestTypes
  <1>1. CASE InvokeFails
    BY <1>0, <1>1 DEF InvokeFails, bodyVars, decVars, userVars
  <1>2. CASE InvokeStreams
    BY <1>0, <1>2 DEF InvokeStreams, bodyVars, userVars
  <1>3. CASE Deliver
    <2>1. PICK line \in LineSet : lines' = Append(lines, line)
      BY <1>3, MarkLines DEF Deliver
    <2>2. lines' \in Seq(LineSet) /\ rd \in 0..Len(lines')
      BY <1>0, <2>1
    <2> QED BY <1>0, <1>3, <2>2 DEF Deliver, decVars, userVars
  <1>4. CASE ScanData
    <2>1. rd + 1 \in Nat /\ rd + 1 \in 0..Len(lines)
      BY <1>0, <1>4 DEF ScanData
    <2>2. CASE format = "jsonl"
      <3>1. FrameEvents(<<rd + 1>>) \in Seq(Events)
        BY <1>4, <2>2, NextLine, BodyEventsAre DEF ScanData
      <3>2. held' \in Seq(Events) /\ dec' \in {"scan", "send"} /\ frame' = frame
        BY <1>4, <2>2, <3>1 DEF ScanData, Hold
      <3> QED BY <1>0, <1>4, <2>1, <3>2 DEF ScanData, bodyVars, userVars
    <2>3. CASE format # "jsonl"
      <3>0. frame' = Append(frame, rd + 1) /\ held' = held /\ dec' = dec
        BY <1>4, <2>3, Zenon DEF ScanData
      <3>1. frame' \in Seq(Nat) /\ held' = held /\ dec' = dec
        BY <1>0, <2>1, <3>0
      <3> QED BY <1>0, <1>4, <2>1, <3>1 DEF ScanData, bodyVars, userVars
    <2> QED BY <2>2, <2>3
  <1>5. CASE ScanBlank
    <2>1. rd + 1 \in 0..Len(lines)
      BY <1>0, <1>5 DEF ScanBlank
    <2>2. FrameEvents(frame) \in Seq(Events)
      BY <1>5, Flush, BodyEventsAre DEF ScanBlank
    <2>3. held' \in Seq(Events) /\ dec' \in {"scan", "send"}
      BY <1>5, <2>2 DEF ScanBlank, Hold
    <2> QED BY <1>0, <1>5, <2>1, <2>3 DEF ScanBlank, bodyVars, userVars
  <1>6. CASE ScanTooLong
    <2>1. rd + 1 \in 0..Len(lines)
      BY <1>0, <1>6 DEF ScanTooLong
    <2>2. Append(FrameEvents(frame), Failure) \in Seq(Events)
      BY <1>6, Flush, BodyEventsAre, OwnEvents, AppendProperties DEF ScanTooLong
    <2>3. held' \in Seq(Events) /\ dec' \in {"finish", "sendLast"}
      BY <1>6, <2>2 DEF ScanTooLong, Hold
    <2> QED BY <1>0, <1>6, <2>1, <2>3 DEF ScanTooLong, bodyVars, userVars
  <1>7. CASE ScanEOF
    <2>2. FrameEvents(frame) \in Seq(Events)
      BY <1>7, Flush, BodyEventsAre DEF ScanEOF
    <2>3. held' \in Seq(Events) /\ dec' \in {"finish", "sendLast"}
      BY <1>7, <2>2 DEF ScanEOF, Hold
    <2> QED BY <1>0, <1>7, <2>3 DEF ScanEOF, bodyVars, userVars
  <1>8. CASE ScanError
    <2>1. FrameEvents(frame) \in Seq(Events)
      BY <1>8, Flush, BodyEventsAre DEF ScanError
    <2>2. <<CutText>> \in Seq(Events) /\ <<Failure>> \in Seq(Events)
      BY OwnEvents, OneMember, CutFrame
    <2>3. Append(FrameEvents(frame), Failure) \in Seq(Events) /\ Append(<<CutText>>, Failure) \in Seq(Events)
          /\ Append(<<>>, Failure) \in Seq(Events)
      BY <1>0, <2>1, <2>2, OwnEvents, AppendProperties
    <2>4. PICK cut \in {<<>>, <<0>>} :
             Hold(CASE format = "json" -> <<Failure>>
                    [] format = "jsonl" -> Append(FrameEvents(cut), Failure)
                    [] OTHER -> Append(FrameEvents(frame \o cut), Failure), "finish")
      BY <1>8 DEF ScanError
    <2>5. Append(FrameEvents(cut), Failure) \in Seq(Events) /\ Append(FrameEvents(frame \o cut), Failure) \in Seq(Events)
      BY <2>3, CutFrame
    <2>6. held' \in Seq(Events) /\ dec' \in {"finish", "sendLast"}
      BY <2>2, <2>4, <2>5 DEF Hold
    <2> QED BY <1>0, <1>8, <2>6 DEF ScanError, bodyVars, userVars
  <1>9. CASE Send
    <2>1. held # <<>>
      BY <1>9 DEF Send, DecInv
    <2>2. held' \in Seq(Events) /\ ch' \in Seq(Events)
      BY <1>0, <1>9, <2>1, MoveHead DEF Send, Put
    <2>3. dec' \in {dec, "scan", "finish"}
      BY <1>9 DEF Send
    <2> QED BY <1>0, <1>9, <2>2, <2>3 DEF Send, bodyVars, userVars
  <1>10. CASE EmitDoneIfNeeded
    <2>1. ch' \in Seq(Events)
      BY <1>0, <1>10, OwnEvents, EventConcat, Zenon DEF EmitDoneIfNeeded, Put
    <2> QED BY <1>0, <1>10, <2>1 DEF EmitDoneIfNeeded, bodyVars, userVars
  <1>11. CASE CloseChannel
    BY <1>0, <1>11 DEF CloseChannel, bodyVars, userVars
  <1>12. CASE Receives
    <2>1. ch' \in Seq(Events) /\ got' \in Seq(Events)
      BY <1>0, <1>12, MoveHead DEF Receives, Take
    <2> QED BY <1>0, <1>12, <2>1 DEF Receives
  <1>13. CASE Aside
    BY <1>0, <1>13 DEF Aside, streamVars
  <1> QED BY <1>1, <1>2, <1>3, <1>4, <1>5, <1>6, <1>7, <1>8, <1>9, <1>10, <1>11, <1>12, <1>13, NextCases

LEMMA FrameStep ==
  ASSUME RestTypes, FrameInv, DecInv, [Next]_vars
  PROVE  FrameInv'
  <1>0. /\ format \in Formats
        /\ lines \in Seq(LineSet) /\ Len(lines) \in Nat
        /\ rd \in 0..Len(lines) /\ rd \in Nat
        /\ frame \in Seq(Nat) /\ Len(frame) \in Nat /\ Len(<<>>) = 0
    BY DEF RestTypes
  <1>1. CASE InvokeFails
    BY <1>1 DEF InvokeFails, bodyVars, decVars, FrameInv, Base
  <1>2. CASE InvokeStreams
    <2>1. lines = <<>> /\ frame = <<>> /\ rd = 0
      BY <1>0, <1>2 DEF InvokeStreams, DecInv
    <2>2. lines' = lines /\ frame' = frame /\ rd' = rd
      BY <1>2 DEF InvokeStreams, bodyVars
    <2>3. Base' = 0 /\ Len(lines') = 0 /\ Len(frame') = 0
      <3>1. Len(frame') = 0 /\ Len(lines') = 0 /\ rd' = 0
        BY <1>0, <2>1, <2>2
      <3> QED BY <3>1 DEF Base
    <2> QED BY <2>1, <2>2, <2>3 DEF FrameInv
  <1>3. CASE Deliver
    <2>1. PICK line \in LineSet : /\ lines' = Append(lines, line)
                                  /\ line.kind = "blank" => format = "sse"
                                  /\ line.kind = "long" => format # "json"
      <3>1. PICK line \in DataLines \cup (IF format = "sse" THEN {Mark("blank")} ELSE {})
                             \cup (IF format = "json" THEN {} ELSE {Mark("long")}) :
                     lines' = Append(lines, line)
        BY <1>3 DEF Deliver
      <3>2. line \in LineSet /\ (line.kind = "blank" => format = "sse") /\ (line.kind = "long" => format # "json")
        BY <3>1, MarkLines
      <3> QED BY <3>1, <3>2
    <2>2. /\ Len(lines') = Len(lines) + 1 /\ lines'[Len(lines) + 1] = line
          /\ \A i \in 1..Len(lines) : lines'[i] = lines[i]
      BY <1>0, <2>1
    <2>3. format' = format /\ rd' = rd /\ frame' = frame /\ dec' = dec /\ Base' = Base
      BY <1>3 DEF Deliver, decVars, Base
    <2>4. ASSUME NEW i \in 1..Len(lines')
          PROVE  (lines'[i].kind = "blank" => format = "sse") /\ (lines'[i].kind = "long" => format # "json")
      <3>1. i \in 1..Len(lines) \/ i = Len(lines) + 1
        BY <1>0, <2>2
      <3> QED BY <2>1, <2>2, <3>1 DEF FrameInv
    <2>5. /\ \A i \in 1..Len(frame) : Base + i \in 1..Len(lines)
          /\ Base > 0 => Base \in 1..Len(lines)
      <3>1. Len(frame) <= rd
        BY DEF FrameInv
      <3> QED BY <1>0, <3>1 DEF Base
    <2> QED BY <2>2, <2>3, <2>4, <2>5 DEF FrameInv
  <1>4. CASE ScanData
    <2>0. /\ dec = "scan" /\ rd' = rd + 1 /\ lines' = lines /\ format' = format /\ lines[rd + 1].kind = "data"
          /\ Len(frame) <= rd
      BY <1>4 DEF ScanData, bodyVars, FrameInv
    <2>1. CASE format = "jsonl"
      <3>1. frame = <<>> /\ frame' = frame
        BY <1>4, <2>1 DEF ScanData, FrameInv
      <3>2. Len(frame') = 0
        BY <1>0, <3>1
      <3>3. Base' = rd + 1 /\ Len(frame') <= rd'
        BY <1>0, <2>0, <3>2 DEF Base
      <3> QED BY <2>0, <2>1, <3>1, <3>2, <3>3 DEF FrameInv
    <2>2. CASE format # "jsonl"
      <3>1. frame' = Append(frame, rd + 1) /\ dec' = dec
        BY <1>4, <2>2, Zenon DEF ScanData
      <3>2. /\ Len(frame') = Len(frame) + 1 /\ frame'[Len(frame) + 1] = rd + 1
            /\ \A i \in 1..Len(frame) : frame'[i] = frame[i]
        BY <1>0, <3>1
      <3>3. Base' = Base /\ Len(frame') <= rd' /\ Base + (Len(frame) + 1) = rd + 1
        BY <1>0, <2>0, <3>2 DEF Base
      <3>4. ASSUME NEW i \in 1..Len(frame')
            PROVE  frame'[i] = Base + i /\ lines[Base + i].kind = "data"
        <4>1. i \in 1..Len(frame) \/ i = Len(frame) + 1
          BY <1>0, <3>2
        <4> QED BY <2>0, <3>2, <3>3, <4>1 DEF FrameInv
      <3> QED BY <2>0, <2>2, <3>1, <3>3, <3>4 DEF FrameInv
    <2> QED BY <2>1, <2>2
  <1>5. CASE ScanBlank
    <2>0. /\ rd' = rd + 1 /\ lines' = lines /\ format' = format /\ lines[rd + 1].kind = "blank" /\ frame' = <<>>
          /\ rd + 1 \in 1..Len(lines)
      BY <1>0, <1>5 DEF ScanBlank, bodyVars
    <2>1. Base' = rd + 1 /\ Len(frame') <= rd' /\ Len(frame') = 0 /\ format = "sse"
      BY <1>0, <2>0 DEF Base, FrameInv
    <2> QED BY <2>0, <2>1 DEF FrameInv
  <1>6. CASE ScanTooLong
    <2>0. rd' = rd + 1 /\ lines' = lines /\ format' = format /\ frame' = <<>> /\ dec' \in {"finish", "sendLast"}
      BY <1>6 DEF ScanTooLong, bodyVars, Hold
    <2>1. Len(frame') <= rd' /\ Len(frame') = 0
      BY <1>0, <2>0
    <2> QED BY <2>0, <2>1 DEF FrameInv
  <1>7. CASE ScanEOF
    <2>0. rd' = rd /\ lines' = lines /\ format' = format /\ frame' = <<>> /\ dec' \in {"finish", "sendLast"}
      BY <1>7 DEF ScanEOF, bodyVars, Hold
    <2>1. Len(frame') <= rd' /\ Len(frame') = 0
      BY <1>0, <2>0
    <2> QED BY <2>0, <2>1 DEF FrameInv
  <1>8. CASE ScanError
    <2>0. rd' = rd /\ lines' = lines /\ format' = format /\ frame' = <<>> /\ dec' \in {"finish", "sendLast"}
      BY <1>8 DEF ScanError, bodyVars, Hold
    <2>1. Len(frame') <= rd' /\ Len(frame') = 0
      BY <1>0, <2>0
    <2> QED BY <2>0, <2>1 DEF FrameInv
  <1>9. CASE Send
    <2>1. /\ rd' = rd /\ lines' = lines /\ format' = format /\ frame' = frame
          /\ dec' \in {"scan", "send"} => dec \in {"scan", "send"}
          /\ dec # "scan"
      BY <1>9 DEF Send, bodyVars
    <2>2. Base' = Base /\ frame = <<>>
      BY <2>1 DEF Base, FrameInv
    <2> QED BY <2>1, <2>2 DEF FrameInv
  <1>10. CASE EmitDoneIfNeeded
    <2>1. rd' = rd /\ lines' = lines /\ format' = format /\ frame' = frame /\ dec' = "close" /\ dec # "scan"
      BY <1>10 DEF EmitDoneIfNeeded, bodyVars
    <2>2. Base' = Base /\ frame = <<>>
      BY <2>1 DEF Base, FrameInv
    <2> QED BY <2>1, <2>2 DEF FrameInv
  <1>11. CASE CloseChannel
    <2>1. rd' = rd /\ lines' = lines /\ format' = format /\ frame' = frame /\ dec' = "gone" /\ dec # "scan"
      BY <1>11 DEF CloseChannel, bodyVars
    <2>2. Base' = Base /\ frame = <<>>
      BY <2>1 DEF Base, FrameInv
    <2> QED BY <2>1, <2>2 DEF FrameInv
  <1>12. CASE Receives
    BY <1>12 DEF Receives, FrameInv, Base
  <1>13. CASE Aside
    BY <1>13 DEF Aside, streamVars, FrameInv, Base
  <1> QED BY <1>1, <1>2, <1>3, <1>4, <1>5, <1>6, <1>7, <1>8, <1>9, <1>10, <1>11, <1>12, <1>13, NextCases

LEMMA DecStep ==
  ASSUME RestTypes, FrameInv, DecInv, [Next]_vars
  PROVE  DecInv'
  <1>0. held \in Seq(Events) /\ ch \in Seq(Events) /\ call \in {"new", "refused", "stream"}
    BY DEF RestTypes
  <1>1. CASE InvokeFails
    BY <1>1 DEF InvokeFails, bodyVars, decVars, userVars, DecInv
  <1>2. CASE InvokeStreams
    BY <1>2 DEF InvokeStreams, bodyVars, userVars, DecInv
  <1>3. CASE Deliver
    BY <1>3 DEF Deliver, decVars, userVars, DecInv
  <1>4. CASE ScanData
    <2>1. held = <<>> /\ call = "stream" /\ ~chClosed
      BY <1>0, <1>4 DEF ScanData, DecInv
    <2>2. dec' = (IF held' = <<>> THEN "scan" ELSE "send")
      BY <1>4, <2>1 DEF ScanData, Hold
    <2> QED BY <1>4, <2>1, <2>2 DEF ScanData, bodyVars, userVars, DecInv
  <1>5. CASE ScanBlank
    <2>1. call = "stream" /\ ~chClosed
      BY <1>0, <1>5 DEF ScanBlank, DecInv
    <2>2. dec' = (IF held' = <<>> THEN "scan" ELSE "send")
      BY <1>5, <2>1 DEF ScanBlank, Hold
    <2> QED BY <1>5, <2>1, <2>2 DEF ScanBlank, bodyVars, userVars, DecInv
  <1>6. CASE ScanTooLong
    <2>1. call = "stream" /\ ~chClosed
      BY <1>0, <1>6 DEF ScanTooLong, DecInv
    <2>2. dec' = (IF held' = <<>> THEN "finish" ELSE "sendLast")
      BY <1>6, <2>1 DEF ScanTooLong, Hold
    <2> QED BY <1>6, <2>1, <2>2 DEF ScanTooLong, bodyVars, userVars, DecInv
  <1>7. CASE ScanEOF
    <2>1. call = "stream" /\ ~chClosed
      BY <1>0, <1>7 DEF ScanEOF, DecInv
    <2>2. dec' = (IF held' = <<>> THEN "finish" ELSE "sendLast")
      BY <1>7, <2>1 DEF ScanEOF, Hold
    <2> QED BY <1>7, <2>1, <2>2 DEF ScanEOF, bodyVars, userVars, DecInv
  <1>8. CASE ScanError
    <2>1. call = "stream" /\ ~chClosed
      BY <1>0, <1>8 DEF ScanError, DecInv
    <2>2. dec' = (IF held' = <<>> THEN "finish" ELSE "sendLast")
      BY <1>8, <2>1 DEF ScanError, Hold
    <2> QED BY <1>8, <2>1, <2>2 DEF ScanError, bodyVars, userVars, DecInv
  <1>9. CASE Send
    <2>1. call = "stream" /\ ~chClosed
      BY <1>0, <1>9 DEF Send, DecInv
    <2>2. /\ held' = <<>> => dec' \in {"scan", "finish"}
          /\ held' # <<>> => dec' = dec
      BY <1>9 DEF Send
    <2> QED BY <1>9, <2>1, <2>2 DEF Send, bodyVars, userVars, DecInv
  <1>10. CASE EmitDoneIfNeeded
    BY <1>0, <1>10 DEF EmitDoneIfNeeded, bodyVars, userVars, DecInv
  <1>11. CASE CloseChannel
    BY <1>0, <1>11 DEF CloseChannel, bodyVars, userVars, DecInv
  <1>12. CASE Receives
    <2>1. call = "stream"
      BY <1>12 DEF Receives, Take, DecInv
    <2> QED BY <1>12, <2>1 DEF Receives, DecInv
  <1>13. CASE Aside
    BY <1>13 DEF Aside, streamVars, DecInv
  <1> QED BY <1>1, <1>2, <1>3, <1>4, <1>5, <1>6, <1>7, <1>8, <1>9, <1>10, <1>11, <1>12, <1>13, NextCases

----------------------------------------------------------------------------
(* What the steps do to the stream.                                        *)

LEMMA StreamTypes ==
  ASSUME RestTypes
  PROVE  Stream \in Seq(Events) /\ Decoded \in Seq(Events) /\ Len(Decoded) \in Nat /\ Len(Stream) \in Nat
  <1>1. Stream \in Seq(Events)
    BY ConcatProperties DEF RestTypes, Stream
  <1>2. Decoded \in Seq(Events)
    BY <1>1, ConcatProperties DEF RestTypes, Decoded
  <1> QED BY <1>1, <1>2

LEMMA ReceivesStream ==
  ASSUME RestTypes, Receives
  PROVE  Stream' = Stream /\ Decoded' = Decoded
  <1>1. Stream' = Stream
    BY EventConcat, Zenon DEF RestTypes, Receives, Take, Stream
  <1> QED BY <1>1 DEF Receives, Decoded

LEMMA SendStream ==
  ASSUME RestTypes, DecInv, Send
  PROVE  /\ held # <<>> /\ Head(held) \in Events
         /\ Stream' = Append(Stream, Head(held))
         /\ Decoded' = Decoded
  <1>1. held # <<>> /\ held \in Seq(Events) /\ got \in Seq(Events) /\ ch \in Seq(Events)
    BY DEF RestTypes, DecInv, Send
  <1>2. Head(held) \in Events
    BY <1>1, MoveHead
  <1>3. ch' = Append(ch, Head(held)) /\ held' = Tail(held) /\ got' = got
    BY DEF Send, Put, userVars
  <1>4. Stream' = Append(Stream, Head(held))
    BY <1>1, <1>2, <1>3, ConcatAppend DEF Stream
  <1>5. Stream \in Seq(Events)
    BY StreamTypes
  <1>6. Decoded' = Decoded
    BY <1>1, <1>3, <1>4, <1>5, MoveHead DEF Decoded
  <1> QED BY <1>1, <1>2, <1>4, <1>6

\* While the goroutine holds nothing.
LEMMA NothingHeld ==
  ASSUME RestTypes, DecInv, dec \notin {"send", "sendLast"}
  PROVE  held = <<>> /\ Decoded = Stream
  <1>1. held = <<>>
    BY DEF DecInv
  <1> QED BY <1>1, StreamTypes, ConcatEmptySeq DEF Decoded

LEMMA EmitStream ==
  ASSUME RestTypes, DecInv, EmitDoneIfNeeded
  PROVE  /\ doneEmitted => Stream' = Stream /\ Decoded' = Decoded
         /\ ~doneEmitted => Stream' = Append(Stream, Done) /\ Decoded' = Append(Decoded, Done)
         /\ Decoded = Stream
  <1>1. held = <<>> /\ held' = held /\ got' = got /\ Decoded = Stream
    BY NothingHeld DEF EmitDoneIfNeeded, userVars
  <1>2. CASE doneEmitted
    BY <1>1, <1>2 DEF EmitDoneIfNeeded, Stream, Decoded
  <1>3. CASE ~doneEmitted
    <2>1. ch' = Append(ch, Done)
      BY <1>3 DEF EmitDoneIfNeeded, Put
    <2>2. Stream' = Append(Stream, Done)
      BY <1>1, <2>1, EventConcat, OwnEvents, Zenon DEF RestTypes, Stream
    <2>3. Append(Stream, Done) \in Seq(Events)
      BY StreamTypes, OwnEvents, AppendProperties
    <2>4. Decoded' = Append(Stream, Done)
      BY <1>1, <2>2, <2>3, ConcatEmptySeq DEF Decoded
    <2> QED BY <1>1, <1>3, <2>2, <2>4
  <1> QED BY <1>1, <1>2, <1>3

\* A sequence without a Done of the decoder's own.
NoOwn(s) == \A i \in 1..Len(s) : s[i] # Done

LEMMA NoOwnAppend ==
  ASSUME NEW s \in Seq(Events), NEW e \in Events, NoOwn(s), e # Done
  PROVE  NoOwn(Append(s, e))
  <1>1. Len(s) \in Nat /\ Len(Append(s, e)) = Len(s) + 1 /\ Append(s, e)[Len(s) + 1] = e
        /\ \A i \in 1..Len(s) : Append(s, e)[i] = s[i]
    BY AppendProperties
  <1>2. \A i \in 1..(Len(s) + 1) : i \in 1..Len(s) \/ i = Len(s) + 1
    BY <1>1
  <1> QED BY <1>1, <1>2 DEF NoOwn

LEMMA NoOwnConcat ==
  ASSUME NEW s \in Seq(Events), NEW t \in Seq(Events), NoOwn(s), NoOwn(t)
  PROVE  NoOwn(s \o t)
  <1>1. Len(s) \in Nat /\ Len(t) \in Nat /\ Len(s \o t) = Len(s) + Len(t)
        /\ \A i \in 1..(Len(s) + Len(t)) : (s \o t)[i] = IF i <= Len(s) THEN s[i] ELSE t[i - Len(s)]
    BY ConcatProperties
  <1>2. \A i \in 1..(Len(s) + Len(t)) : i \in 1..Len(s) \/ (i - Len(s) \in 1..Len(t) /\ ~(i <= Len(s)))
    BY <1>1
  <1>3. \A i \in 1..Len(s) : i <= Len(s)
    BY <1>1
  <1> QED BY <1>1, <1>2, <1>3 DEF NoOwn

\* What a scan leaves when the body could not be read to its end.
LEMMA ErrorHolds ==
  ASSUME RestTypes, FrameInv, ScanError
  PROVE  /\ dec' = "sendLast"
         /\ \/ held' = Append(<<>>, Failure)
            \/ held' = Append(<<CutText>>, Failure)
            \/ format = "sse" /\ held' = Append(FrameEvents(frame), Failure)
  <1>1. PICK cut \in {<<>>, <<0>>} :
           Hold(CASE format = "json" -> <<Failure>>
                  [] format = "jsonl" -> Append(FrameEvents(cut), Failure)
                  [] OTHER -> Append(FrameEvents(frame \o cut), Failure), "finish")
    BY DEF ScanError
  <1>2. Append(<<>>, Failure) = <<Failure>> /\ <<Failure>> # <<>>
    OBVIOUS
  <1>3. FrameEvents(frame) \in Seq(Events)
    BY Flush, BodyEventsAre DEF ScanError
  <1>4. \A x \in Seq(Events) : Append(x, Failure) # <<>>
    BY OwnEvents, AppendProperties
  <1>5. <<CutText>> \in Seq(Events) /\ <<>> \in Seq(Events)
    BY CutFrame, OneMember
  <1>6. CASE format = "json"
    BY <1>1, <1>2, <1>6 DEF Hold
  <1>7. CASE format = "jsonl"
    <2>1. Hold(Append(FrameEvents(cut), Failure), "finish")
      BY <1>1, <1>7
    <2>2. FrameEvents(cut) = <<>> \/ FrameEvents(cut) = <<CutText>>
      BY CutFrame
    <2>3. Append(FrameEvents(cut), Failure) # <<>>
      BY <1>4, <1>5, <2>2
    <2>4. held' = Append(FrameEvents(cut), Failure) /\ dec' = "sendLast"
      BY <2>1, <2>3 DEF Hold
    <2> QED BY <2>2, <2>4
  <1>8. CASE format = "sse"
    <2>1. Hold(Append(FrameEvents(frame \o cut), Failure), "finish")
      BY <1>1, <1>8
    <2>2. FrameEvents(frame \o cut) = FrameEvents(frame) \/ FrameEvents(frame \o cut) = <<CutText>>
      BY CutFrame
    <2>3. Append(FrameEvents(frame \o cut), Failure) # <<>>
      BY <1>3, <1>4, <1>5, <2>2
    <2>4. held' = Append(FrameEvents(frame \o cut), Failure) /\ dec' = "sendLast"
      BY <2>1, <2>3 DEF Hold
    <2> QED BY <1>8, <2>2, <2>4
  <1> QED BY <1>6, <1>7, <1>8 DEF RestTypes, Formats

Scans == ScanData \/ ScanBlank \/ ScanTooLong \/ ScanEOF \/ ScanError

LEMMA ScanStream ==
  ASSUME RestTypes, FrameInv, DecInv, Scans
  PROVE  /\ Stream' = Stream /\ Decoded = Stream /\ Decoded' = Decoded \o held'
         /\ UNCHANGED <<call, format, lines, link, doneEmitted, chClosed>>
         /\ held' \in Seq(Events) /\ NoOwn(held')
  <1>1. UNCHANGED <<got, ch, call, format, lines, link, doneEmitted, chClosed>> /\ dec = "scan"
    BY DEF Scans, ScanData, ScanBlank, ScanTooLong, ScanEOF, ScanError, bodyVars, userVars
  <1>2. held = <<>> /\ Decoded = Stream /\ Stream' = Stream
    BY <1>1, NothingHeld DEF Stream
  <1>3. Decoded' = Decoded \o held'
    BY <1>2 DEF Decoded
  <1>4. FrameEvents(frame) \in Seq(Events) /\ NoOwn(FrameEvents(frame))
    BY <1>1, Flush, BodyEventsAre DEF NoOwn
  <1>5. NoOwn(<<>>) /\ <<>> \in Seq(Events)
    BY DEF NoOwn
  <1>6. Failure \in Events /\ Failure # Done
    BY OwnEvents
  <1>7. NoOwn(<<CutText>>) /\ <<CutText>> \in Seq(Events)
    <2>1. CutText \in Events /\ CutText # Done
      BY CutFrame, OwnEvents
    <2>2. <<CutText>> \in Seq(Events) /\ Len(<<CutText>>) = 1 /\ <<CutText>>[1] = CutText
      BY <2>1, OneMember
    <2>3. \A i \in 1..1 : i = 1
      OBVIOUS
    <2> QED BY <2>1, <2>2, <2>3 DEF NoOwn
  <1>8. held' \in Seq(Events) /\ NoOwn(held')
    <2>1. CASE ScanData
      <3>1. CASE format = "jsonl"
        <4>1. held' = FrameEvents(<<rd + 1>>) /\ FrameEvents(<<rd + 1>>) \in Seq(BodyEvents)
          BY <2>1, <3>1, NextLine DEF ScanData, Hold
        <4> QED BY <4>1, BodyEventsAre DEF NoOwn
      <3>2. CASE format # "jsonl"
        <4>1. held' = held
          BY <2>1, <3>2, Zenon DEF ScanData
        <4> QED BY <1>2, <1>5, <4>1
      <3> QED BY <3>1, <3>2
    <2>2. CASE ScanBlank \/ ScanEOF
      <3>1. held' = FrameEvents(frame)
        BY <2>2 DEF ScanBlank, ScanEOF, Hold
      <3> QED BY <1>4, <3>1
    <2>3. CASE ScanTooLong
      <3>1. held' = Append(FrameEvents(frame), Failure)
        BY <2>3 DEF ScanTooLong, Hold
      <3> QED BY <1>4, <1>6, <3>1, NoOwnAppend, AppendProperties
    <2>4. CASE ScanError
      <3>1. PICK x \in {<<>>, <<CutText>>, FrameEvents(frame)} : held' = Append(x, Failure)
        BY <2>4, ErrorHolds
      <3>2. x \in Seq(Events) /\ NoOwn(x)
        BY <1>4, <1>5, <1>7
      <3> QED BY <1>6, <3>1, <3>2, NoOwnAppend, AppendProperties
    <2> QED BY <2>1, <2>2, <2>3, <2>4 DEF Scans
  <1> QED BY <1>1, <1>2, <1>3, <1>8

LEMMA HasDoneAppend ==
  ASSUME NEW s \in Seq(Events), NEW e \in Events
  PROVE  HasDone(Append(s, e)) <=> HasDone(s) \/ IsDone(e)
  <1>1. Len(s) \in Nat /\ Len(Append(s, e)) = Len(s) + 1 /\ Append(s, e)[Len(s) + 1] = e
        /\ \A i \in 1..Len(s) : Append(s, e)[i] = s[i]
    BY AppendProperties
  <1>2. \A i \in 1..(Len(s) + 1) : i \in 1..Len(s) \/ i = Len(s) + 1
    BY <1>1
  <1>3. (\A i \in 1..Len(s) : i \in 1..(Len(s) + 1)) /\ Len(s) + 1 \in 1..(Len(s) + 1)
    BY <1>1
  <1> QED BY <1>1, <1>2, <1>3 DEF HasDone

LEMMA DoneStep ==
  ASSUME RestTypes, FrameInv, DecInv, DoneInv, [Next]_vars
  PROVE  DoneInv'
  <1>0. Stream \in Seq(Events) /\ Decoded \in Seq(Events)
    BY StreamTypes
  <1>1. ASSUME Stream' = Stream, Decoded' = Decoded, doneEmitted' = doneEmitted,
               dec \in {"close", "gone"} => dec' \in {"close", "gone"} \/ Decoded = <<>>
        PROVE  DoneInv'
    <2>1. CASE Decoded = <<>>
      <3>1. Len(Decoded') = 0
        BY <1>1, <2>1
      <3> QED BY <1>1, <3>1 DEF DoneInv
    <2>2. CASE Decoded # <<>>
      BY <1>1, <2>2 DEF DoneInv
    <2> QED BY <2>1, <2>2
  <1>2. CASE InvokeFails
    BY <1>1, <1>2 DEF InvokeFails, decVars, userVars, Stream, Decoded
  <1>3. CASE InvokeStreams
    <2>1. got = <<>> /\ ch = <<>> /\ held = <<>>
      BY <1>3 DEF InvokeStreams, DecInv
    <2>2. <<>> \o <<>> = <<>>
      OBVIOUS
    <2>3. Decoded = <<>>
      BY <2>1, <2>2 DEF Decoded, Stream
    <2> QED BY <1>1, <1>3, <2>3 DEF InvokeStreams, userVars, Stream, Decoded
  <1>4. CASE Deliver
    BY <1>1, <1>4 DEF Deliver, decVars, userVars, Stream, Decoded
  <1>5. CASE Scans
    <2>1. /\ Stream' = Stream /\ Decoded = Stream /\ Decoded' = Decoded \o held' /\ doneEmitted' = doneEmitted
          /\ held' \in Seq(Events) /\ NoOwn(held')
      BY <1>5, ScanStream
    <2>2. NoOwn(Decoded)
      BY <1>5 DEF Scans, ScanData, ScanBlank, ScanTooLong, ScanEOF, ScanError, DoneInv, NoOwn
    <2>3. NoOwn(Decoded')
      BY <1>0, <2>1, <2>2, NoOwnConcat
    <2> QED BY <2>1, <2>3 DEF DoneInv, NoOwn
  <1>6. CASE Send
    <2>1. Head(held) \in Events /\ Stream' = Append(Stream, Head(held)) /\ Decoded' = Decoded
      BY <1>6, SendStream
    <2>2. HasDone(Stream)' <=> HasDone(Stream) \/ IsDone(Head(held))
      <3>1. HasDone(Stream)' = HasDone(Append(Stream, Head(held)))
        BY <2>1 DEF HasDone
      <3> QED BY <1>0, <2>1, <3>1, HasDoneAppend
    <2>3. doneEmitted' <=> doneEmitted \/ IsDone(Head(held))
      BY <1>6 DEF Send, IsDone
    <2>4. doneEmitted' <=> HasDone(Stream)'
      BY <2>2, <2>3 DEF DoneInv
    <2>5. \A i \in 1..Len(Decoded) : Decoded[i] # Done
      BY <1>6 DEF Send, DoneInv
    <2> QED BY <2>1, <2>4, <2>5 DEF DoneInv
  <1>7. CASE EmitDoneIfNeeded
    <2>1. NoOwn(Decoded) /\ dec' = "close" /\ doneEmitted'
      BY <1>7 DEF EmitDoneIfNeeded, DoneInv, NoOwn
    <2>2. CASE doneEmitted
      BY <1>7, <2>1, <2>2, EmitStream DEF DoneInv, NoOwn
    <2>3. CASE ~doneEmitted
      <3>1. Stream' = Append(Stream, Done) /\ Decoded' = Append(Decoded, Done) /\ Decoded = Stream
        BY <1>7, <2>3, EmitStream
      <3>2. ~HasDone(Decoded)
        BY <2>3, <3>1 DEF DoneInv
      <3>3. HasDone(Stream)'
        <4>1. HasDone(Append(Stream, Done))
          BY <1>0, OwnEvents, HasDoneAppend
        <4> QED BY <3>1, <4>1 DEF HasDone
      <3>4. /\ Len(Decoded) \in Nat /\ Len(Decoded') = Len(Decoded) + 1
            /\ \A i \in 1..Len(Decoded) : Decoded'[i] = Decoded[i]
        BY <1>0, <3>1, OwnEvents, AppendProperties
      <3>5. \A i \in 1..Len(Decoded') : i \in 1..Len(Decoded) \/ i = Len(Decoded')
        BY <3>4
      <3>6. \A i \in 1..Len(Decoded') : IsDone(Decoded'[i]) => i = Len(Decoded')
        BY <3>2, <3>4, <3>5 DEF HasDone
      <3>7. \A i \in 1..Len(Decoded') : Decoded'[i] = Done => i = Len(Decoded')
        BY <3>6, OwnEvents
      <3> QED BY <2>1, <3>3, <3>6, <3>7 DEF DoneInv
    <2> QED BY <2>2, <2>3
  <1>8. CASE CloseChannel
    BY <1>1, <1>8 DEF CloseChannel, userVars, Stream, Decoded
  <1>9. CASE Receives
    BY <1>1, <1>9, ReceivesStream DEF Receives
  <1>10. CASE Aside
    BY <1>1, <1>10 DEF Aside, streamVars, Stream, Decoded
  <1> QED BY <1>2, <1>3, <1>4, <1>5, <1>6, <1>7, <1>8, <1>9, <1>10, NextCases DEF Scans

----------------------------------------------------------------------------
(* The stream and the body.                                                *)

\* A failure after the events a, which begin those of the body.
LEMMA BrokenAfter ==
  ASSUME NEW a \in Seq(Events), NEW x \in Seq(Events), NEW f \in Seq(Events), ~HasDone(x)
  PROVE  /\ IsBroken(a \o Append(x, Failure), a \o f, Len(a))
         /\ Len(a) \in 0..Len(a \o Append(x, Failure))
  <1> DEFINE y == Append(x, Failure)
             s == a \o y
             e == a \o f
  <1>1. /\ y \in Seq(Events) /\ Len(y) = Len(x) + 1 /\ y[Len(x) + 1] = Failure
        /\ \A i \in 1..Len(x) : y[i] = x[i]
    BY OwnEvents, AppendProperties
  <1>2. Len(a) \in Nat /\ Len(x) \in Nat /\ Len(f) \in Nat
    OBVIOUS
  <1> HIDE DEF y
  <1>3. /\ Len(s) = Len(a) + Len(y)
        /\ \A i \in 1..(Len(a) + Len(y)) : s[i] = IF i <= Len(a) THEN a[i] ELSE y[i - Len(a)]
    BY <1>1, ConcatProperties
  <1>4. /\ Len(e) = Len(a) + Len(f)
        /\ \A i \in 1..(Len(a) + Len(f)) : e[i] = IF i <= Len(a) THEN a[i] ELSE f[i - Len(a)]
    BY ConcatProperties
  <1> HIDE DEF s, e
  <1>5. Len(a) <= Len(e) /\ Len(a) \in 0..Len(s)
    BY <1>1, <1>2, <1>3, <1>4
  <1>6. \A i \in 1..Len(a) : s[i] = e[i]
    <2>1. \A i \in 1..Len(a) : i \in 1..(Len(a) + Len(y)) /\ i \in 1..(Len(a) + Len(f)) /\ i <= Len(a)
      BY <1>1, <1>2
    <2> QED BY <1>3, <1>4, <2>1
  <1>7. Len(s) \in (Len(a) + 1)..Len(s) /\ s[Len(s)] = Failure
    <2>1. /\ Len(s) \in 1..(Len(a) + Len(y)) /\ ~(Len(s) <= Len(a)) /\ Len(s) - Len(a) = Len(x) + 1
          /\ Len(s) \in (Len(a) + 1)..Len(s)
      BY <1>1, <1>2, <1>3
    <2> QED BY <1>1, <1>3, <2>1
  <1>8. ASSUME NEW i \in (Len(a) + 1)..Len(s), IsDone(s[i])
        PROVE  FALSE
    <2>1. /\ i \in 1..(Len(a) + Len(y)) /\ ~(i <= Len(a))
          /\ i - Len(a) \in 1..Len(x) \/ i - Len(a) = Len(x) + 1
      <3>1. \A m, n \in Nat : \A k \in (m + 1)..(m + (n + 1)) :
               k \in 1..(m + (n + 1)) /\ ~(k <= m) /\ (k - m \in 1..n \/ k - m = n + 1)
        OBVIOUS
      <3>2. Len(s) = Len(a) + (Len(x) + 1) /\ Len(y) = Len(x) + 1
        BY <1>1, <1>3
      <3>3. i \in (Len(a) + 1)..(Len(a) + (Len(x) + 1))
        BY <3>2
      <3> QED BY <1>2, <3>1, <3>2, <3>3, Zenon
    <2>2. s[i] = y[i - Len(a)]
      BY <1>3, <2>1
    <2>3. CASE i - Len(a) \in 1..Len(x)
      BY <1>1, <1>8, <2>2, <2>3 DEF HasDone
    <2>4. CASE i - Len(a) = Len(x) + 1
      BY <1>1, <1>8, <2>2, <2>4, OwnEvents
    <2> QED BY <2>1, <2>3, <2>4
  <1>9. IsBroken(s, e, Len(a))
    BY <1>5, <1>6, <1>7, <1>8 DEF IsBroken
  <1> QED BY <1>5, <1>9 DEF s, e, y

\* The Done after it.
LEMMA BrokenDone ==
  ASSUME NEW s \in Seq(Events), NEW e, NEW c \in 0..Len(s), IsBroken(s, e, c)
  PROVE  IsBroken(Append(s, Done), e, c) /\ c \in 0..Len(Append(s, Done))
  <1> DEFINE t == Append(s, Done)
  <1>1. /\ Len(s) \in Nat /\ Len(t) = Len(s) + 1
        /\ \A i \in 1..Len(s) : t[i] = s[i]
    BY OwnEvents, AppendProperties
  <1> HIDE DEF t
  <1>2. PICK j \in (c + 1)..Len(s) : s[j] = Failure
    BY DEF IsBroken
  <1>3. /\ \A i \in 1..c : i \in 1..Len(s)
        /\ \A i \in (c + 1)..Len(s) : i \in 1..Len(s) /\ i \in (c + 1)..Len(t)
        /\ \A i \in (c + 1)..Len(t) : i \in (c + 1)..Len(s) \/ i = Len(s) + 1
        /\ c \in 0..Len(t) /\ j \in (c + 1)..(Len(s) + 1)
    BY <1>1
  <1>4. \A i \in 1..c : t[i] = e[i]
    BY <1>1, <1>3 DEF IsBroken
  <1>5. j \in (c + 1)..Len(t) /\ t[j] = Failure
    BY <1>1, <1>2, <1>3
  <1>6. ASSUME NEW i \in (c + 1)..Len(t), IsDone(t[i])
        PROVE  \E k \in (c + 1)..i : t[k] = Failure
    <2>1. CASE i \in (c + 1)..Len(s)
      <3>1. PICK k \in (c + 1)..i : s[k] = Failure
        BY <1>1, <1>3, <1>6, <2>1 DEF IsBroken
      <3>2. k \in 1..Len(s)
        BY <1>1, <2>1
      <3> QED BY <1>1, <3>1, <3>2
    <2>2. CASE i = Len(s) + 1
      BY <1>3, <1>5, <2>2
    <2> QED BY <1>3, <2>1, <2>2
  <1>7. IsBroken(t, e, c)
    BY <1>4, <1>5, <1>6 DEF IsBroken
  <1> QED BY <1>3, <1>7 DEF t

LEMMA BodyStep ==
  ASSUME RestTypes, FrameInv, DecInv, DoneInv, BodyInv, [Next]_vars
  PROVE  BodyInv'
  <1>0. /\ Stream \in Seq(Events) /\ Decoded \in Seq(Events)
        /\ format \in Formats /\ lines \in Seq(LineSet) /\ rd \in 0..Len(lines) /\ rd \in Nat /\ Len(lines) \in Nat
        /\ frame \in Seq(Nat) /\ Len(frame) \in Nat
    BY StreamTypes DEF RestTypes
  <1>1. ASSUME Decoded' = Decoded, UNCHANGED <<call, format, lines, rd, frame>>,
               link' # link => link = "open",
               dec' \in {"scan", "send"} => dec \in {"scan", "send"},
               dec' \in {"sendLast", "finish", "close", "gone"} => dec \in {"sendLast", "finish", "close", "gone"}
        PROVE  BodyInv'
    <2>2. Body(Base)' = Body(Base) /\ Body(rd)' = Body(rd)
      BY <1>1 DEF Base, Body
    <2>3. dec' \in {"scan", "send"} => Decoded' = Body(Base)'
      BY <1>1, <2>2 DEF BodyInv
    <2>4. ASSUME call' = "stream", dec' \in {"sendLast", "finish", "close", "gone"}
          PROVE  \/ link' = "eof" /\ rd' = Len(lines') /\ IsComplete(Decoded', Body(rd)')
                 \/ \E c \in 0..Len(Decoded') : IsBroken(Decoded', Body(rd)', c)
      BY <1>1, <2>2, <2>4 DEF BodyInv
    <2> QED BY <2>3, <2>4 DEF BodyInv
  <1>2. CASE InvokeFails
    <2>1. call' # "stream" /\ dec' = "gone"
      BY <1>2 DEF InvokeFails, decVars, DecInv
    <2> QED BY <2>1 DEF BodyInv
  <1>3. CASE InvokeStreams
    <2>1. got = <<>> /\ ch = <<>> /\ held = <<>> /\ frame = <<>> /\ lines = <<>> /\ rd = 0
      BY <1>0, <1>3 DEF InvokeStreams, DecInv
    <2>2. <<>> \o <<>> = <<>> /\ Len(<<>>) = 0
      OBVIOUS
    <2>3. got' = got /\ ch' = ch /\ held' = held /\ frame' = frame /\ rd' = rd /\ dec' = "scan"
      BY <1>3 DEF InvokeStreams, userVars
    <2>4. Decoded' = <<>> /\ Base' = 0
      <3>1. got' = <<>> /\ ch' = <<>> /\ held' = <<>> /\ Len(frame') = 0 /\ rd' = 0
        BY <2>1, <2>2, <2>3
      <3>2. Decoded' = <<>>
        BY <2>2, <3>1 DEF Decoded, Stream
      <3>3. Base' = 0
        BY <3>1 DEF Base
      <3> QED BY <3>2, <3>3
    <2>5. Body(Base)' = <<>>
      BY <2>4, NoEvents DEF Body
    <2> QED BY <2>3, <2>4, <2>5 DEF BodyInv
  <1>4. CASE Deliver
    <2>1. PICK line \in LineSet : lines' = Append(lines, line)
      BY <1>4, MarkLines DEF Deliver
    <2>2. /\ format' = format /\ rd' = rd /\ frame' = frame /\ dec' = dec /\ Base' = Base /\ Decoded' = Decoded
          /\ call' = call /\ link # "eof"
      BY <1>4 DEF Deliver, decVars, userVars, Base, Decoded, Stream
    <2>3. Base \in 0..Len(lines)
      BY <1>0 DEF Base, FrameInv
    <2>4. Body(rd)' = Body(rd) /\ Body(Base)' = Body(Base)
      BY <1>0, <2>1, <2>2, <2>3, StableEvents DEF Body
    <2>5. dec' \in {"scan", "send"} => Decoded' = Body(Base)'
      BY <2>2, <2>4 DEF BodyInv
    <2>6. ASSUME call' = "stream", dec' \in {"sendLast", "finish", "close", "gone"}
          PROVE  \E c \in 0..Len(Decoded') : IsBroken(Decoded', Body(rd)', c)
      BY <2>2, <2>4, <2>6 DEF BodyInv
    <2> QED BY <2>5, <2>6 DEF BodyInv
  <1>5. CASE Scans
    <2>0. dec = "scan"
      BY <1>5 DEF Scans, ScanData, ScanBlank, ScanTooLong, ScanEOF, ScanError
    <2>1. /\ Decoded' = Decoded \o held' /\ UNCHANGED <<call, format, lines, link>> /\ held' \in Seq(Events)
          /\ held = <<>>
      BY <1>5, <2>0, ScanStream, NothingHeld
    <2>2. Decoded = Body(Base)
      BY <2>0 DEF BodyInv
    <2>3. /\ FrameEvents(frame) \in Seq(Events) /\ Base \in 0..rd /\ Body(rd) \in Seq(Events)
          /\ Body(rd) = Decoded \o FrameEvents(frame)
      BY <2>0, <2>2, Flush, BodyEventsAre
    <2>4. CASE ScanData /\ format = "jsonl"
      <3>1. frame = <<>> /\ frame' = frame /\ rd' = rd + 1 /\ held' = FrameEvents(<<rd + 1>>)
            /\ dec' \in {"scan", "send"} /\ rd < Len(lines) /\ lines[rd + 1].kind = "data"
        BY <2>4 DEF ScanData, Hold, FrameInv
      <3>2. Base = rd /\ Base' = rd + 1
        BY <1>0, <3>1 DEF Base
      <3>3. Body(rd + 1) = Body(rd) \o FrameEvents(<<rd + 1>>)
        BY <2>4, <3>1, NextLine
      <3>4. Decoded' = Body(Base)'
        BY <2>1, <2>2, <3>1, <3>2, <3>3 DEF Body
      <3> QED BY <3>1, <3>4 DEF BodyInv
    <2>5. CASE ScanData /\ format # "jsonl"
      <3>1. frame' = Append(frame, rd + 1) /\ rd' = rd + 1 /\ held' = held /\ dec' = dec
        BY <2>5, Zenon DEF ScanData
      <3>2. Base' = Base
        <4>1. Len(frame') = Len(frame) + 1
          BY <1>0, <3>1
        <4> QED BY <1>0, <3>1, <4>1 DEF Base
      <3>3. Decoded' = Decoded
        BY <1>0, <2>1, <3>1, ConcatEmptySeq
      <3>4. Decoded' = Body(Base)'
        BY <2>1, <2>2, <3>2, <3>3 DEF Body
      <3> QED BY <2>0, <3>1, <3>4 DEF BodyInv
    <2>6. CASE ScanBlank
      <3>1. /\ rd' = rd + 1 /\ held' = FrameEvents(frame) /\ frame' = <<>> /\ dec' \in {"scan", "send"}
            /\ rd < Len(lines) /\ lines[rd + 1].kind = "blank"
        BY <2>6 DEF ScanBlank, Hold
      <3>2. format = "sse" /\ rd + 1 \in 1..Len(lines)
        BY <1>0, <3>1 DEF FrameInv
      <3>3. Body(rd + 1) = Body(rd)
        BY <1>0, <3>1, <3>2, MarkEvents DEF Body
      <3>4. Base' = rd + 1
        BY <1>0, <3>1 DEF Base
      <3>5. Decoded' = Body(Base)'
        BY <2>1, <2>3, <3>1, <3>3, <3>4 DEF Body
      <3> QED BY <3>1, <3>5 DEF BodyInv
    <2>7. ASSUME NEW x \in Seq(Events), ~HasDone(x), held' = Append(x, Failure), Body(rd)' = Body(rd),
                 dec' = "sendLast"
          PROVE  BodyInv'
      <3>1. IsBroken(Decoded', Body(rd)', Len(Decoded)) /\ Len(Decoded) \in 0..Len(Decoded')
        BY <1>0, <2>1, <2>3, <2>7, BrokenAfter
      <3> QED BY <2>7, <3>1 DEF BodyInv
    <2>8. ASSUME held' = Append(FrameEvents(frame), Failure), Body(rd)' = Body(rd), dec' = "sendLast"
          PROVE  BodyInv'
      <3>1. Decoded' = Append(Body(rd), Failure)
        <4>1. Decoded \o Append(FrameEvents(frame), Failure) = Append(Decoded \o FrameEvents(frame), Failure)
          BY <1>0, <2>3, EventConcat, OwnEvents, Zenon
        <4> QED BY <2>1, <2>3, <2>8, <4>1
      <3>2. <<>> \in Seq(Events) /\ ~HasDone(<<>>) /\ Append(<<>>, Failure) = <<Failure>>
        BY DEF HasDone
      <3>3. Body(rd) \o <<>> = Body(rd) /\ Decoded' = Body(rd) \o <<Failure>>
        BY <2>3, <3>1, ConcatEmptySeq, OwnEvents, AppendIsConcat
      <3>4. IsBroken(Decoded', Body(rd)', Len(Body(rd))) /\ Len(Body(rd)) \in 0..Len(Decoded')
        <4>1. PICK b \in Seq(Events) : b = Body(rd)
          BY <2>3
        <4>2. IsBroken(b \o Append(<<>>, Failure), b \o <<>>, Len(b)) /\ Len(b) \in 0..Len(b \o Append(<<>>, Failure))
          BY <3>2, BrokenAfter
        <4> QED BY <2>8, <3>2, <3>3, <4>1, <4>2
      <3> QED BY <2>8, <3>4 DEF BodyInv
    <2>9. CASE ScanTooLong
      <3>1. /\ rd' = rd + 1 /\ held' = Append(FrameEvents(frame), Failure)
            /\ rd < Len(lines) /\ lines[rd + 1].kind = "long"
        BY <2>9 DEF ScanTooLong, Hold
      <3>2. dec' = "sendLast"
        <4>1. Append(FrameEvents(frame), Failure) # <<>>
          BY <2>3, OwnEvents, AppendProperties
        <4> QED BY <2>9, <4>1 DEF ScanTooLong, Hold
      <3>3. format # "json" /\ rd + 1 \in 1..Len(lines)
        BY <1>0, <3>1 DEF FrameInv
      <3>4. Body(rd + 1) = Body(rd)
        BY <1>0, <3>1, <3>3, MarkEvents DEF Body
      <3>5. Body(rd)' = Body(rd)
        BY <2>1, <3>1, <3>4 DEF Body
      <3> QED BY <2>8, <3>1, <3>2, <3>5
    <2>10. CASE ScanEOF
      <3>1. /\ link = "eof" /\ rd = Len(lines) /\ rd' = rd /\ held' = FrameEvents(frame)
            /\ dec' \in {"sendLast", "finish"}
        BY <2>10 DEF ScanEOF, Hold
      <3>2. Decoded' = Body(rd)'
        BY <2>1, <2>3, <3>1 DEF Body
      <3> QED BY <2>1, <3>1, <3>2 DEF BodyInv, IsComplete
    <2>11. CASE ScanError
      <3>1. rd' = rd
        BY <2>11 DEF ScanError
      <3>2. Body(rd)' = Body(rd)
        BY <2>1, <3>1 DEF Body
      <3>3. /\ <<>> \in Seq(Events) /\ ~HasDone(<<>>)
            /\ <<CutText>> \in Seq(Events) /\ ~HasDone(<<CutText>>)
        <4>1. <<CutText>> \in Seq(Events) /\ Len(<<CutText>>) = 1 /\ <<CutText>>[1] = CutText
          BY CutFrame, OneMember
        <4>2. \A i \in 1..1 : i = 1
          OBVIOUS
        <4> QED BY <4>1, <4>2, CutFrame DEF HasDone
      <3>4. /\ dec' = "sendLast"
            /\ \/ held' = Append(<<>>, Failure)
               \/ held' = Append(<<CutText>>, Failure)
               \/ held' = Append(FrameEvents(frame), Failure)
        BY <2>11, ErrorHolds
      <3>5. CASE held' = Append(<<>>, Failure)
        BY <2>7, <3>2, <3>3, <3>4, <3>5
      <3>6. CASE held' = Append(<<CutText>>, Failure)
        BY <2>7, <3>2, <3>3, <3>4, <3>6
      <3>7. CASE held' = Append(FrameEvents(frame), Failure)
        BY <2>8, <3>2, <3>4, <3>7
      <3> QED BY <3>4, <3>5, <3>6, <3>7
    <2> QED BY <1>5, <2>4, <2>5, <2>6, <2>9, <2>10, <2>11 DEF Scans
  <1>6. CASE Send
    <2>1. Decoded' = Decoded
      BY <1>6, SendStream
    <2>2. UNCHANGED <<call, format, lines, rd, frame, link>>
      BY <1>6 DEF Send, bodyVars
    <2>3. \/ dec = "send" /\ dec' \in {"send", "scan"}
          \/ dec = "sendLast" /\ dec' \in {"sendLast", "finish"}
      BY <1>6 DEF Send
    <2> QED BY <1>1, <2>1, <2>2, <2>3
  <1>7. CASE EmitDoneIfNeeded
    <2>1. UNCHANGED <<call, format, lines, rd, frame, link>> /\ dec = "finish" /\ dec' = "close"
      BY <1>7 DEF EmitDoneIfNeeded, bodyVars
    <2>2. CASE doneEmitted
      BY <1>1, <1>7, <2>1, <2>2, EmitStream
    <2>3. CASE ~doneEmitted
      <3>1. Decoded' = Append(Decoded, Done) /\ Decoded = Stream /\ ~HasDone(Decoded)
        BY <1>7, <2>3, EmitStream DEF DoneInv
      <3>2. Body(rd)' = Body(rd) /\ Body(rd) \in Seq(Events)
        BY <1>0, <2>1, EntryType, BodyEventsAre DEF Body
      <3>3. CASE link = "eof" /\ rd = Len(lines) /\ IsComplete(Decoded, Body(rd))
        <4>1. HasDone(Append(Body(rd), Done))
          BY <3>2, HasDoneAppend, OwnEvents
        <4>2. Decoded = Body(rd)
          BY <3>1, <3>3, <4>1 DEF IsComplete
        <4>3. IsComplete(Decoded', Body(rd)')
          BY <3>1, <3>2, <4>2 DEF IsComplete
        <4> QED BY <2>1, <3>3, <4>3 DEF BodyInv
      <3>4. ASSUME NEW c \in 0..Len(Decoded), IsBroken(Decoded, Body(rd), c)
            PROVE  BodyInv'
        <4>1. PICK s \in Seq(Events) : s = Decoded
          BY <1>0
        <4>2. c \in 0..Len(s) /\ IsBroken(s, Body(rd), c)
          BY <3>4, <4>1
        <4>3. IsBroken(Append(s, Done), Body(rd), c) /\ c \in 0..Len(Append(s, Done))
          BY <4>2, BrokenDone
        <4>4. IsBroken(Decoded', Body(rd)', c) /\ c \in 0..Len(Decoded')
          BY <3>1, <3>2, <4>1, <4>3
        <4> QED BY <2>1, <4>4 DEF BodyInv
      <3>5. call = "stream"
        BY <2>1 DEF DecInv
      <3> QED BY <2>1, <3>3, <3>4, <3>5 DEF BodyInv
    <2> QED BY <2>2, <2>3
  <1>8. CASE CloseChannel
    BY <1>1, <1>8 DEF CloseChannel, bodyVars, userVars, Stream, Decoded
  <1>9. CASE Receives
    BY <1>1, <1>9, ReceivesStream DEF Receives
  <1>10. CASE Aside
    BY <1>1, <1>10 DEF Aside, streamVars, Stream, Decoded
  <1> QED BY <1>2, <1>3, <1>4, <1>5, <1>6, <1>7, <1>8, <1>9, <1>10, NextCases DEF Scans

----------------------------------------------------------------------------
(* The callers.                                                            *)

LEMMA FailsAppend ==
  ASSUME NEW s \in Seq(Events), NEW e \in Events
  PROVE  Fails(Append(s, e)) <=> Fails(s) \/ e.type = "error"
  <1>1. /\ Len(s) \in Nat /\ Append(s, e)[Len(s) + 1] = e
        /\ DOMAIN s = 1..Len(s) /\ DOMAIN Append(s, e) = 1..(Len(s) + 1)
        /\ \A i \in 1..Len(s) : Append(s, e)[i] = s[i]
    OBVIOUS
  <1>2. \A i \in 1..(Len(s) + 1) : i \in 1..Len(s) \/ i = Len(s) + 1
    BY <1>1
  <1>3. (\A i \in 1..Len(s) : i \in 1..(Len(s) + 1)) /\ Len(s) + 1 \in 1..(Len(s) + 1)
    BY <1>1
  <1> QED BY <1>1, <1>2, <1>3 DEF Fails

\* What a step that receives an event adds.
LEMMA TakeText ==
  ASSUME RestTypes, Take
  PROVE  /\ Head(ch) \in Events /\ got' = Append(got, Head(ch))
         /\ TextIn(Head(ch)) \in Seq(Nat) /\ TextOf(got) \in Seq(Nat)
         /\ TextOf(got)' = TextOf(got) \o TextIn(Head(ch))
         /\ Fails(got)' <=> Fails(got) \/ Head(ch).type = "error"
  <1>1. ch \in Seq(Events) /\ ch # <<>> /\ got \in Seq(Events) /\ got' = Append(got, Head(ch))
    BY DEF RestTypes, Take
  <1>2. PICK e \in Events : e = Head(ch)
    BY <1>1, MoveHead
  <1>3. TextOf(got)' = TextOf(Append(got, e)) /\ (Fails(got)' <=> Fails(Append(got, e)))
    BY <1>1, <1>2 DEF TextOf, Fails
  <1> QED BY <1>1, <1>2, <1>3, TextAppend, FailsAppend

LEMMA TextTypesStep ==
  ASSUME RestTypes, [Next]_vars
  PROVE  text' \in Seq(Nat) /\ buf' \in Seq(Nat)
  <1>0. text \in Seq(Nat) /\ buf \in Seq(Nat) /\ <<>> \in Seq(Nat)
    BY DEF RestTypes
  <1>1. CASE UNCHANGED <<text, buf>>
    BY <1>0, <1>1
  <1>2. CASE CollectEvent
    BY <1>0, <1>2, TakeText, ConcatProperties DEF CollectEvent, readVars
  <1>3. CASE ReadEvent
    BY <1>0, <1>3, TakeText, ConcatProperties DEF ReadEvent
  <1>4. CASE ReadDrain
    BY <1>0, <1>4, ConcatProperties DEF ReadDrain
  <1>5. CASE Decoder
    BY <1>1, <1>5 DEF Decoder, ScanData, ScanBlank, ScanTooLong, ScanEOF, ScanError, Send, EmitDoneIfNeeded,
                      CloseChannel, userVars, readVars
  <1>6. CASE InvokeFails \/ InvokeStreams \/ Deliver \/ EndBody \/ Recv \/ RecvEnded \/ RecvClose \/ CancelContext
             \/ CollectEnded \/ CollectCanceled
    BY <1>1, <1>6 DEF InvokeFails, InvokeStreams, Deliver, EndBody, Recv, RecvEnded, RecvClose, CancelContext,
                      CollectEnded, CollectCanceled, userVars, readVars
  <1>7. CASE ReadCall \/ ReadCheck \/ ReadCanceled \/ ReaderCloseMark \/ ReaderCloseRest \/ Stopped \/ UNCHANGED vars
    BY <1>1, <1>7 DEF ReadCall, ReadCheck, ReadCanceled, ReaderCloseMark, ReaderCloseRest, Stopped, vars,
                      userVars, readVars
  <1> QED BY <1>2, <1>3, <1>4, <1>5, <1>6, <1>7 DEF Next, Collect, Read

\* The steps that leave the callers alone, except that more may be sent.
Others ==
    /\ UNCHANGED <<userVars, readVars>>
    /\ chClosed => chClosed' /\ ch' = ch

LEMMA OtherSteps ==
  ASSUME DecInv
  PROVE  /\ InvokeFails \/ InvokeStreams \/ Deliver \/ EndBody \/ RecvClose \/ Stopped \/ UNCHANGED vars => Others
         /\ Decoder => Others
  <1>1. InvokeFails \/ InvokeStreams \/ Deliver \/ EndBody \/ RecvClose \/ Stopped \/ UNCHANGED vars => Others
    BY DEF InvokeFails, InvokeStreams, Deliver, EndBody, RecvClose, Stopped, vars, decVars, Others
  <1>2. ASSUME Decoder
        PROVE  Others
    <2>1. chClosed => dec = "gone"
      BY DEF DecInv
    <2> QED BY <1>2, <2>1 DEF Decoder, ScanData, ScanBlank, ScanTooLong, ScanEOF, ScanError, Send,
               EmitDoneIfNeeded, CloseChannel, Others
  <1> QED BY <1>1, <1>2

LEMMA UserSteps ==
  ASSUME DecInv, [Next]_vars
  PROVE  \/ Others \/ Recv \/ RecvEnded \/ CancelContext
         \/ CollectEvent \/ CollectEnded \/ CollectCanceled
         \/ ReadCall \/ ReadCheck \/ ReadEvent \/ ReadCanceled \/ ReadDrain
         \/ ReaderCloseMark \/ ReaderCloseRest
  BY OtherSteps DEF Next, Collect, Read

LEMMA CollectStep ==
  ASSUME RestTypes, DecInv, CollectInv, ReaderInv, [Next]_vars
  PROVE  CollectInv'
  <1>1. ASSUME UNCHANGED <<user, got, text, result>>, chClosed => chClosed' /\ ch' = ch
        PROVE  CollectInv'
    BY <1>1 DEF CollectInv, TextOf, Fails
  <1>2. CASE Others
    BY <1>1, <1>2 DEF Others, userVars
  <1>3. CASE Recv
    BY <1>3 DEF Recv, CollectInv
  <1>4. CASE RecvEnded \/ CancelContext
    BY <1>1, <1>4 DEF RecvEnded, CancelContext, decVars
  <1>5. CASE CollectEvent
    <2>1. /\ user = "collect" /\ user' = user /\ result = "none" /\ text' = text \o TextIn(Head(ch))
          /\ result' \in {"none", "error"}
          /\ Head(ch).type = "error" => result' = "error"
      BY <1>5 DEF CollectEvent
    <2>2. text = TextOf(got) /\ ~Fails(got)
      BY <2>1 DEF CollectInv
    <2>3. text' = TextOf(got)'
      BY <1>5, <2>1, <2>2, TakeText DEF CollectEvent
    <2>4. result' = "none" => ~Fails(got)'
      BY <1>5, <2>1, <2>2, TakeText DEF CollectEvent
    <2> QED BY <2>1, <2>3, <2>4 DEF CollectInv
  <1>6. CASE CollectEnded
    <2>1. /\ UNCHANGED <<user, got, text, ch, chClosed>> /\ chClosed /\ ch = <<>> /\ result' = "text"
          /\ user = "collect" /\ result = "none"
      BY <1>6 DEF CollectEnded, AtEnd, decVars
    <2>2. TextOf(got)' = TextOf(got) /\ (Fails(got)' <=> Fails(got))
      BY <2>1 DEF TextOf, Fails
    <2> QED BY <2>1, <2>2 DEF CollectInv
  <1>7. CASE CollectCanceled
    BY <1>7 DEF CollectCanceled, CollectInv
  <1>8. ASSUME user = "read", user' = user
        PROVE  CollectInv'
    BY <1>8 DEF CollectInv
  <1>9. CASE ReadCall \/ ReaderCloseMark
    BY <1>8, <1>9 DEF ReadCall, ReaderCloseMark, userVars
  <1>10. CASE ReadCheck \/ ReadEvent \/ ReadCanceled \/ ReadDrain
    BY <1>8, <1>10 DEF ReadCheck, ReadEvent, ReadCanceled, ReadDrain, userVars, ReaderInv
  <1>11. CASE ReaderCloseRest
    BY <1>1, <1>11 DEF ReaderCloseRest, decVars
  <1> QED BY <1>2, <1>3, <1>4, <1>5, <1>6, <1>7, <1>9, <1>10, <1>11, UserSteps

LEMMA TextConcat ==
  ASSUME NEW a \in Seq(Nat), NEW b \in Seq(Nat), NEW c \in Seq(Nat)
  PROVE  (a \o b) \o c = a \o (b \o c)
  BY ConcatAssociative

LEMMA ReaderStep ==
  ASSUME RestTypes, DecInv, ReaderInv, [Next]_vars
  PROVE  ReaderInv'
  <1>0. text \in Seq(Nat) /\ buf \in Seq(Nat) /\ got \in Seq(Events) /\ ch \in Seq(Events)
    BY DEF RestTypes
  <1>1. ASSUME UNCHANGED <<user, got, text, result, readVars>>
        PROVE  ReaderInv'
    BY <1>1 DEF readVars, ReaderInv, TextOf, Fails, HasDone
  <1>2. CASE Others
    BY <1>1, <1>2 DEF Others, userVars
  <1>3. ASSUME user' = user, user # "read", UNCHANGED readVars
        PROVE  ReaderInv'
    BY <1>3 DEF readVars, ReaderInv
  <1>4. CASE Recv \/ RecvEnded \/ CollectEvent \/ CollectEnded \/ CollectCanceled
    BY <1>3, <1>4 DEF Recv, RecvEnded, CollectEvent, CollectEnded, CollectCanceled
  <1>5. CASE CancelContext
    BY <1>1, <1>5 DEF CancelContext
  <1>6. CASE ReadCall
    <2>1. UNCHANGED <<user, got, text, result, buf, rclosed, closing>> /\ rpc = "idle" /\ rpc' = "check" /\ user = "read"
      BY <1>6 DEF ReadCall, userVars
    <2> QED BY <2>1 DEF ReaderInv, TextOf, Fails, HasDone
  <1>7. CASE ReadCheck
    <2>1. /\ UNCHANGED <<user, got, text, result, buf, rclosed, closing>> /\ rpc = "check"
          /\ \/ rpc' = "recv" /\ ~rclosed
             \/ rpc' = "drain" /\ (buf # <<>> \/ rclosed)
      BY <1>7 DEF ReadCheck, userVars
    <2> QED BY <2>1 DEF ReaderInv, TextOf, Fails, HasDone
  <1>8. CASE ReadEvent
    <2>1. /\ Take /\ buf' = buf \o TextIn(Head(ch)) /\ UNCHANGED <<user, text, closing>> /\ rpc = "recv"
          /\ rclosed' <=> rclosed \/ IsDone(Head(ch))
          /\ rpc' \in {"idle", "check"}
          /\ \/ Head(ch).type = "error" /\ result' = IF result = "none" THEN "error" ELSE result
             \/ Head(ch).type # "error" /\ result' = result
      BY <1>8 DEF ReadEvent, Verdict, IsDone
    <2>2. user = "read" /\ text \o buf = TextOf(got) /\ result \in {"none", "eof", "error"}
      BY <2>1 DEF ReaderInv
    <2>3. text' \o buf' = TextOf(got)'
      <3>1. /\ TextIn(Head(ch)) \in Seq(Nat)
            /\ TextOf(got)' = TextOf(got) \o TextIn(Head(ch))
        BY <2>1, TakeText
      <3>2. \A t \in Seq(Nat) : (text \o buf) \o t = text \o (buf \o t)
        BY <1>0, TextConcat
      <3> QED BY <2>1, <2>2, <3>1, <3>2, Zenon
    <2>4. PICK e \in Events : e = Head(ch) /\ got' = Append(got, e)
      BY <2>1, TakeText
    <2>5. ASSUME closing = "open"
          PROVE  /\ rclosed' => HasDone(got)' /\ rpc' # "recv"
                 /\ \A i \in 1..Len(got') : IsDone(got'[i]) => i = Len(got') /\ rclosed'
                 /\ rpc' # "drain"
                 /\ result' # "eof"
                 /\ result' # "error" => ~Fails(got)'
      <3>1. ~rclosed /\ result # "eof" /\ (\A i \in 1..Len(got) : ~IsDone(got[i])) /\ (result # "error" => ~Fails(got))
        BY <2>1, <2>2, <2>5 DEF ReaderInv
      <3>2. /\ Len(got) \in Nat /\ Len(got') = Len(got) + 1 /\ got'[Len(got) + 1] = e
            /\ \A i \in 1..Len(got) : got'[i] = got[i]
        BY <1>0, <2>4, AppendProperties
      <3>3. \A i \in 1..Len(got') : i \in 1..Len(got) \/ i = Len(got')
        BY <3>2
      <3>4. Len(got') \in 1..Len(got') /\ got'[Len(got')] = e
        BY <3>2
      <3>5. rclosed' <=> IsDone(e)
        BY <2>1, <2>4, <3>1
      <3>6. \A i \in 1..Len(got') : IsDone(got'[i]) => i = Len(got') /\ rclosed'
        BY <3>1, <3>2, <3>3, <3>4, <3>5
      <3>7. rclosed' => HasDone(got)'
        BY <3>4, <3>5 DEF HasDone
      <3>8. result' # "error" => ~Fails(got)'
        BY <2>1, <2>2, <3>1, TakeText
      <3> QED BY <2>1, <2>2, <3>1, <3>6, <3>7, <3>8
    <2>6. result' \in {"none", "eof", "error"} /\ user' = user /\ closing' = closing
      BY <2>1, <2>2
    <2> QED BY <2>2, <2>3, <2>5, <2>6 DEF ReaderInv
  <1>9. CASE ReadCanceled
    <2>1. UNCHANGED <<user, got, text, buf, rclosed, closing>> /\ rpc = "recv" /\ rpc' = "idle"
          /\ result' = IF result = "none" THEN "error" ELSE result
      BY <1>9 DEF ReadCanceled, Verdict
    <2> QED BY <2>1 DEF ReaderInv, TextOf, Fails, HasDone
  <1>10. CASE ReadDrain
    <2>1. /\ UNCHANGED <<user, got, rclosed, closing>> /\ rpc = "drain" /\ rpc' = "idle"
          /\ text' = text \o buf /\ buf' = <<>>
          /\ \/ buf = <<>> /\ result' = IF result = "none" THEN "eof" ELSE result
             \/ buf # <<>> /\ result' = result
      BY <1>10 DEF ReadDrain, Verdict
    <2>2. user = "read" /\ text \o buf = TextOf(got)
      BY <2>1 DEF ReaderInv
    <2>3. text' \o buf' = TextOf(got)'
      <3>1. text \o buf \in Seq(Nat)
        BY <1>0, ConcatProperties
      <3>2. text' \o buf' = text \o buf
        BY <2>1, <3>1, ConcatEmptySeq
      <3> QED BY <2>1, <2>2, <3>2 DEF TextOf
    <2>4. (Fails(got)' <=> Fails(got)) /\ (HasDone(got)' <=> HasDone(got))
      BY <2>1 DEF Fails, HasDone
    <2> QED BY <2>1, <2>2, <2>3, <2>4 DEF ReaderInv
  <1>11. CASE ReaderCloseMark
    <2>1. user = "read" /\ UNCHANGED <<user, got, text, result, buf, rpc>> /\ closing' # "open"
      BY <1>11 DEF ReaderCloseMark, userVars
    <2> QED BY <2>1 DEF ReaderInv, TextOf
  <1>12. CASE ReaderCloseRest
    <2>1. UNCHANGED <<user, got, text, result, buf, rpc>> /\ closing' # "open"
      BY <1>12 DEF ReaderCloseRest
    <2> QED BY <2>1 DEF ReaderInv, TextOf
  <1> QED BY <1>2, <1>4, <1>5, <1>6, <1>7, <1>8, <1>9, <1>10, <1>11, <1>12, UserSteps

----------------------------------------------------------------------------
(* The invariant holds throughout.                                         *)

LEMMA InitInv == Init => RestInv
  <1> SUFFICES ASSUME Init PROVE RestInv
    OBVIOUS
  <1>1. /\ call = "new" /\ format = "json" /\ lines = <<>> /\ rd = 0 /\ dec = "gone" /\ frame = <<>>
        /\ held = <<>> /\ ch = <<>> /\ got = <<>> /\ text = <<>> /\ buf = <<>> /\ chClosed = FALSE
        /\ doneEmitted = FALSE /\ result = "none" /\ rpc = "idle" /\ rclosed = FALSE
    BY DEF Init
  <1>a. <<>> \o <<>> = <<>> /\ Len(<<>>) = 0
    <2>1. <<>> \in Seq(Nat)
      OBVIOUS
    <2> QED BY <2>1, ConcatEmptySeq
  <1>2. Len(<<>>) = 0 /\ Stream = <<>> /\ Decoded = <<>> /\ Base = 0 /\ text \o buf = <<>>
    <2>1. Stream = <<>> /\ Decoded = <<>> /\ text \o buf = <<>>
      BY <1>1, <1>a, Zenon DEF Stream, Decoded
    <2>2. rd = 0 /\ Len(frame) = 0
      BY <1>1, <1>a, Zenon
    <2>3. Base = 0
      BY <2>2 DEF Base
    <2> QED BY <1>a, <2>1, <2>3
  <1>3. RestTypes
    BY <1>1, <1>2 DEF RestTypes, Formats
  <1>4. FrameInv /\ DecInv
    BY <1>1, <1>2 DEF FrameInv, DecInv
  <1>5. DoneInv /\ BodyInv
    BY <1>1, <1>2 DEF DoneInv, BodyInv, HasDone
  <1>6. TextOf(got) = <<>> /\ ~Fails(got)
    BY <1>1, NoText DEF Fails
  <1>7. CollectInv /\ ReaderInv
    BY <1>1, <1>2, <1>6 DEF CollectInv, ReaderInv, HasDone
  <1> QED BY <1>3, <1>4, <1>5, <1>7 DEF RestInv

LEMMA RestInvariant == Spec => []RestInv
  <1>1. RestInv /\ [Next]_vars => RestInv'
    <2> SUFFICES ASSUME RestInv, [Next]_vars PROVE RestInv'
      OBVIOUS
    <2>1. RestTypes /\ FrameInv /\ DecInv /\ DoneInv /\ BodyInv /\ CollectInv /\ ReaderInv
      BY DEF RestInv
    <2>2. RestTypes'
      BY <2>1, TypesStep, TextTypesStep DEF RestTypes
    <2>3. FrameInv' /\ DecInv'
      BY <2>1, FrameStep, DecStep
    <2>4. DoneInv' /\ BodyInv'
      BY <2>1, DoneStep, BodyStep
    <2>5. CollectInv' /\ ReaderInv'
      BY <2>1, CollectStep, ReaderStep
    <2> QED BY <2>2, <2>3, <2>4, <2>5 DEF RestInv
  <1> QED BY <1>1, InitInv, PTL DEF Spec

----------------------------------------------------------------------------
(* The theorems.                                                           *)

LEMMA FrontAppend ==
  ASSUME NEW s \in Seq(Events), NEW e \in Events
  PROVE  Front(Append(s, e)) = s
  <1>1. /\ Append(s, e) \in Seq(Events) /\ Len(Append(s, e)) = Len(s) + 1 /\ Len(s) \in Nat
        /\ \A i \in 1..Len(s) : Append(s, e)[i] = s[i]
    BY AppendProperties
  <1>2. Front(Append(s, e)) = SubSeq(Append(s, e), 1, Len(s))
    BY <1>1 DEF Front
  <1> QED BY <1>1, <1>2

\* When the channel is closed, the stream is the body, or it has a failure of the
\* decoder's.
LEMMA ClosedStream ==
  ASSUME RestInv, chClosed, Failure \notin Range(Stream)
  PROVE  /\ Expected = Body(rd) /\ Expected \in Seq(BodyEvents)
         /\ IsComplete(Stream, Expected)
  <1>0. RestTypes /\ DecInv /\ BodyInv
    BY DEF RestInv
  <1>1. dec = "gone" /\ call = "stream"
    BY <1>0 DEF DecInv
  <1>2. Decoded = Stream
    BY <1>0, <1>1, NothingHeld
  <1>3. Stream \in Seq(Events) /\ DOMAIN Stream = 1..Len(Stream) /\ Len(Stream) \in Nat
    BY <1>0, StreamTypes
  <1>4. ASSUME NEW c \in 0..Len(Stream), IsBroken(Stream, Body(rd), c)
        PROVE  FALSE
    <2>1. PICK i \in (c + 1)..Len(Stream) : Stream[i] = Failure
      BY <1>4 DEF IsBroken
    <2>2. i \in DOMAIN Stream
      BY <1>3
    <2> QED BY <2>1, <2>2 DEF Range
  <1>5. rd = Len(lines) /\ IsComplete(Stream, Body(rd))
    BY <1>0, <1>1, <1>2, <1>4 DEF BodyInv
  <1>6. Expected = Body(rd)
    BY <1>5, EventsOfIn DEF Expected, Body
  <1>7. Body(rd) \in Seq(BodyEvents)
    BY <1>0, BodyType DEF RestTypes
  <1> QED BY <1>5, <1>6, <1>7

\* The events of a closed REST stream are the body's, whole and in order, unless the
\* decoder has said that it failed; and every closed stream has its Done, the agent's
\* or the decoder's own, which is then the last event and the only Done.
THEOREM RestStreamIsBody == Spec => []StreamIsBody
  <1>1. ASSUME RestInv PROVE StreamIsBody
    <2> DEFINE dones == {i \in DOMAIN Stream : IsDone(Stream[i])}
               own == {i \in dones : Stream[i] = Done}
    <2>0. RestTypes /\ DecInv /\ DoneInv /\ BodyInv
      BY <1>1 DEF RestInv
    <2>1. Stream \in Seq(Events) /\ DOMAIN Stream = 1..Len(Stream) /\ Len(Stream) \in Nat
      BY <2>0, StreamTypes
    <2>2. chClosed => dones # {}
      BY <2>0, <2>1 DEF DecInv, DoneInv, HasDone
    <2>3. ASSUME NEW i \in own
          PROVE  i = Len(Stream) /\ dones = {i}
      <3>1. i \in 1..Len(Stream) /\ Stream[i] = Done /\ IsDone(Stream[i])
        BY <2>1
      <3>2. held \in Seq(Events)
        BY <2>0 DEF RestTypes
      <3>3. i \in 1..Len(Decoded) /\ Decoded[i] = Stream[i]
        BY <2>1, <3>1, <3>2, ConcatProperties DEF Decoded
      <3>4. dec \in {"close", "gone"}
        BY <2>0, <3>1, <3>3 DEF DoneInv
      <3>5. Decoded = Stream
        BY <2>0, <3>4, NothingHeld
      <3>6. i = Len(Stream) /\ \A j \in 1..Len(Stream) : IsDone(Stream[j]) => j = i
        BY <2>0, <3>1, <3>3, <3>5 DEF DoneInv
      <3> QED BY <2>1, <3>1, <3>6
    <2>4. ASSUME chClosed, Failure \notin Range(Stream)
          PROVE  Expected = IF own = {} THEN Stream ELSE Front(Stream)
      <3>1. Expected \in Seq(BodyEvents) /\ IsComplete(Stream, Expected)
        BY <1>1, <2>4, ClosedStream
      <3>2. Expected \in Seq(Events) /\ \A i \in 1..Len(Expected) : Expected[i] # Done
        BY <3>1, BodyEventsAre
      <3>3. ASSUME Stream = Expected
            PROVE  own = {}
        BY <2>1, <3>2, <3>3
      <3>4. ASSUME Stream = Append(Expected, Done)
            PROVE  own # {} /\ Front(Stream) = Expected
        <4>1. Done \in Events /\ IsDone(Done)
          BY OwnEvents
        <4>2. Len(Stream) \in 1..Len(Stream) /\ Stream[Len(Stream)] = Done
          BY <3>2, <3>4, <4>1, AppendProperties
        <4>3. Len(Stream) \in own
          BY <2>1, <4>1, <4>2
        <4> QED BY <3>2, <3>4, <4>1, <4>3, FrontAppend
      <3> QED BY <3>1, <3>3, <3>4 DEF IsComplete
    <2> HIDE DEF dones, own
    <2>5. \A i \in own : i = Len(Stream) /\ dones = {i}
      BY <2>3
    <2> QED BY <2>2, <2>4, <2>5, Zenon DEF StreamIsBody, dones, own
  <1> QED BY <1>1, RestInvariant, PTL

\* What a reader or CollectText has received is a beginning of what the decoder has
\* made.
LEMMA GotPrefix ==
  ASSUME RestTypes
  PROVE  /\ got \in Seq(Events) /\ Len(got) \in Nat /\ Len(got) <= Len(Decoded)
         /\ \A i \in 1..Len(got) : got[i] = Decoded[i]
  <1>1. got \in Seq(Events) /\ ch \in Seq(Events) /\ held \in Seq(Events)
    BY DEF RestTypes
  <1>2. /\ Stream \in Seq(Events) /\ Len(Stream) = Len(got) + Len(ch)
        /\ \A i \in 1..Len(got) : Stream[i] = got[i]
    BY <1>1, ConcatProperties DEF Stream
  <1>3. /\ Len(Decoded) = Len(Stream) + Len(held)
        /\ \A i \in 1..Len(Stream) : Decoded[i] = Stream[i]
    <2>1. \A s, t \in Seq(Events) : /\ Len(s \o t) = Len(s) + Len(t)
                                    /\ \A i \in 1..Len(s) : (s \o t)[i] = s[i]
      BY ConcatProperties
    <2> QED BY <1>1, <1>2, <2>1, Zenon DEF Decoded
  <1>4. Len(got) \in Nat /\ Len(ch) \in Nat /\ Len(held) \in Nat
    BY <1>1
  <1> QED BY <1>1, <1>2, <1>3, <1>4

\* The text of the body with the decoder's own Done is the body's.
LEMMA OwnDoneText ==
  ASSUME NEW s \in Seq(Events)
  PROVE  TextOf(Append(s, Done)) = TextOf(s) /\ (Fails(Append(s, Done)) <=> Fails(s))
  <1>1. Done \in Events /\ TextIn(Done) = <<>> /\ Done.type # "error"
    BY OwnEvents
  <1>2. TextOf(s) \in Seq(Nat) /\ TextOf(Append(s, Done)) = TextOf(s) \o <<>>
    BY <1>1, TextAppend
  <1>3. TextOf(s) \o <<>> = TextOf(s)
    BY <1>2, ConcatEmptySeq
  <1> QED BY <1>1, <1>2, <1>3, FailsAppend

LEMMA NoDone ==
  ASSUME NEW s \in Seq(Events), ~HasDone(s)
  PROVE  UpToDone(s) = s
  <1>1. DOMAIN s = 1..Len(s)
    OBVIOUS
  <1>2. {i \in DOMAIN s : IsDone(s[i])} = {}
    BY <1>1 DEF HasDone
  <1> QED BY <1>2, Zenon DEF UpToDone

LEMMA CollectComplete ==
  ASSUME RestInv, user = "collect", result = "text"
  PROVE  ~Fails(Expected) /\ text = TextOf(Expected)
  <1>0. RestTypes /\ CollectInv
    BY DEF RestInv
  <1>1. text = TextOf(got) /\ ~Fails(got) /\ chClosed /\ ch = <<>>
    BY <1>0 DEF CollectInv
  <1>2. got \in Seq(Events) /\ Stream = got
    BY <1>0, <1>1, ConcatEmptySeq DEF RestTypes, Stream
  <1>3. Failure \notin Range(Stream)
    BY <1>1, <1>2, OwnEvents DEF Range, Fails
  <1>4. Expected \in Seq(BodyEvents) /\ IsComplete(got, Expected)
    BY <1>1, <1>2, <1>3, ClosedStream
  <1>5. Expected \in Seq(Events)
    BY <1>4, BodyEventsAre
  <1> QED BY <1>1, <1>4, <1>5, OwnDoneText DEF IsComplete

\* The reader has received a beginning of the body's events that ends in their first
\* Done.
LEMMA ReadUpTo ==
  ASSUME RestTypes, NEW s \in Seq(Events), Len(got) \in 1..Len(s),
         \A i \in 1..Len(got) : got[i] = s[i],
         \A i \in 1..Len(got) : IsDone(got[i]) <=> i = Len(got)
  PROVE  UpToDone(s) = got /\ \E i \in DOMAIN got : IsDone(got[i])
  <1>1. got \in Seq(Events) /\ DOMAIN got = 1..Len(got) /\ Len(got) \in Nat
    BY DEF RestTypes
  <1>2. \A m, n \in Nat : m \in 1..n => m \in 1..m
    OBVIOUS
  <1>3. Len(s) \in Nat
    OBVIOUS
  <1>4. Len(got) \in 1..Len(got)
    BY <1>1, <1>2, <1>3, Zenon
  <1> QED BY <1>1, <1>4, FirstDone

LEMMA ReadComplete ==
  ASSUME RestInv, user = "read", result = "eof", closing = "open"
  PROVE  LET sent == UpToDone(Body(rd))
         IN  /\ ~Fails(sent) /\ text = TextOf(sent)
             /\ (\E i \in DOMAIN sent : IsDone(sent[i])) \/ (link = "eof" /\ rd = Len(lines))
  <1> DEFINE sent == UpToDone(Body(rd))
  <1>0. RestTypes /\ FrameInv /\ DecInv /\ BodyInv /\ ReaderInv
    BY DEF RestInv
  <1>1. /\ text \o buf = TextOf(got) /\ buf = <<>> /\ ~Fails(got) /\ HasDone(got)
        /\ \A i \in 1..Len(got) : IsDone(got[i]) => i = Len(got)
    BY <1>0 DEF ReaderInv
  <1>2. text = TextOf(got)
    BY <1>0, <1>1, ConcatEmptySeq DEF RestTypes
  <1>3. /\ got \in Seq(Events) /\ Len(got) \in Nat /\ Len(got) <= Len(Decoded)
        /\ \A i \in 1..Len(got) : got[i] = Decoded[i]
        /\ DOMAIN got = 1..Len(got)
    BY <1>0, GotPrefix
  <1>4. /\ Len(got) \in 1..Len(got)
        /\ \A i \in 1..Len(got) : IsDone(got[i]) <=> i = Len(got)
    BY <1>1, <1>3 DEF HasDone
  <1>5. Body(rd) \in Seq(BodyEvents) /\ Body(rd) \in Seq(Events) /\ Len(Body(rd)) \in Nat
    BY <1>0, BodyType, BodyEventsAre DEF RestTypes
  <1>6. ASSUME Len(got) <= Len(Body(rd)), \A i \in 1..Len(got) : got[i] = Body(rd)[i]
        PROVE  sent = got /\ \E i \in DOMAIN got : IsDone(got[i])
    <2>1. PICK s \in Seq(Events) : s = Body(rd)
      BY <1>5
    <2>2. \A m, n \in Nat : m \in 1..m /\ m <= n => m \in 1..n
      OBVIOUS
    <2>3. Len(got) \in 1..Len(s) /\ \A i \in 1..Len(got) : got[i] = s[i]
      BY <1>3, <1>4, <1>5, <1>6, <2>1, <2>2, Zenon
    <2> QED BY <1>0, <1>4, <2>1, <2>3, ReadUpTo
  <1>7. ASSUME sent = got
        PROVE  ~Fails(sent) /\ text = TextOf(sent)
    BY <1>1, <1>2, <1>7
  <1>8. dec \in {"scan", "send"} =>
           /\ Len(got) <= Len(Body(rd))
           /\ \A i \in 1..Len(got) : got[i] = Body(rd)[i]
    <2> SUFFICES ASSUME dec \in {"scan", "send"}
                 PROVE  /\ Len(got) <= Len(Body(rd))
                        /\ \A i \in 1..Len(got) : got[i] = Body(rd)[i]
      OBVIOUS
    <2>1. Decoded = Body(Base)
      BY <1>0 DEF BodyInv
    <2>2. CASE dec = "scan"
      <3>1. /\ FrameEvents(frame) \in Seq(BodyEvents) /\ Body(Base) \in Seq(BodyEvents)
            /\ Body(rd) = Body(Base) \o FrameEvents(frame)
        BY <1>0, <2>2, Flush
      <3>2. /\ Len(Body(Base)) \in Nat /\ Len(FrameEvents(frame)) \in Nat
            /\ Len(Body(rd)) = Len(Body(Base)) + Len(FrameEvents(frame))
            /\ \A i \in 1..Len(Body(Base)) : Body(rd)[i] = Body(Base)[i]
        BY <3>1, ConcatProperties
      <3> QED BY <1>3, <2>1, <3>2
    <2>3. CASE dec = "send"
      <3>1. frame = <<>> /\ rd \in Nat
        BY <1>0, <2>3 DEF FrameInv, RestTypes
      <3>2. Base = rd
        BY <3>1 DEF Base
      <3> QED BY <1>3, <2>1, <3>2
    <2> QED BY <2>2, <2>3
  <1>9. CASE dec \in {"scan", "send"}
    BY <1>6, <1>7, <1>8, <1>9, Zenon
  <1>10. call = "stream"
    <2>1. got # <<>>
      BY <1>4
    <2> QED BY <1>0, <2>1, Zenon DEF DecInv
  <1>11. ASSUME NEW c \in 0..Len(Decoded), IsBroken(Decoded, Body(rd), c)
         PROVE  /\ Len(got) <= Len(Body(rd))
                /\ \A i \in 1..Len(got) : got[i] = Body(rd)[i]
    <2>1. c <= Len(Body(rd)) /\ \A i \in 1..c : Decoded[i] = Body(rd)[i]
      BY <1>11 DEF IsBroken
    <2>2. Len(got) <= c
      <3> SUFFICES ASSUME ~(Len(got) <= c) PROVE FALSE
        OBVIOUS
      <3>0. Len(Decoded) \in Nat
        BY <1>0, StreamTypes
      <3>1. Len(got) \in (c + 1)..Len(Decoded) /\ IsDone(Decoded[Len(got)])
        <4>1. \A m, n \in Nat : m <= n /\ ~(m <= c) => m \in (c + 1)..n
          BY <3>0
        <4> QED BY <1>3, <1>4, <3>0, <4>1, Zenon
      <3>2. PICK j \in (c + 1)..Len(got) : Decoded[j] = Failure
        BY <1>11, <3>1 DEF IsBroken
      <3>3. j \in 1..Len(got)
        BY <1>3, <3>0
      <3>4. j \in DOMAIN got /\ got[j] = Failure
        BY <1>3, <3>2, <3>3
      <3> QED BY <1>1, <3>4, OwnEvents DEF Fails
    <2> QED BY <1>3, <1>5, <2>1, <2>2
  <1>12. ASSUME link = "eof", rd = Len(lines), IsComplete(Decoded, Body(rd))
         PROVE  ~Fails(sent) /\ text = TextOf(sent)
    <2>1. CASE Decoded = Body(rd)
      BY <1>3, <1>6, <1>7, <2>1
    <2>2. CASE Decoded = Append(Body(rd), Done) /\ ~HasDone(Body(rd))
      <3>1. PICK s \in Seq(Events) : s = Body(rd)
        BY <1>5
      <3>2. Decoded = Append(s, Done) /\ ~HasDone(s)
        BY <2>2, <3>1
      <3>3. /\ Len(s) \in Nat /\ Len(Decoded) = Len(s) + 1 /\ Decoded \in Seq(Events)
            /\ \A i \in 1..Len(s) : Decoded[i] = s[i]
        BY <3>2, AppendProperties, OwnEvents
      <3>4. Len(got) = Len(Decoded)
        <4> SUFFICES ASSUME Len(got) # Len(Decoded) PROVE FALSE
          OBVIOUS
        <4>1. Len(got) \in 1..Len(s)
          <5>1. \A m, n \in Nat : m \in 1..m /\ m <= n + 1 /\ m # n + 1 => m \in 1..n
            OBVIOUS
          <5> QED BY <1>3, <1>4, <3>3, <5>1, Zenon
        <4> QED BY <1>3, <1>4, <3>2, <3>3, <4>1 DEF HasDone
      <3>5. got = Decoded
        BY <1>3, <3>3, <3>4, SeqEqual
      <3>6. sent = s
        BY <3>1, <3>2, NoDone
      <3> QED BY <1>1, <1>2, <3>2, <3>5, <3>6, OwnDoneText
    <2> QED BY <1>12, <2>1, <2>2 DEF IsComplete
  <1>13. CASE dec \notin {"scan", "send"}
    <2>1. dec \in {"sendLast", "finish", "close", "gone"}
      BY <1>0, <1>13 DEF RestTypes
    <2>2. \/ link = "eof" /\ rd = Len(lines) /\ IsComplete(Decoded, Body(rd))
          \/ \E c \in 0..Len(Decoded) : IsBroken(Decoded, Body(rd), c)
      BY <1>0, <1>10, <2>1 DEF BodyInv
    <2>3. CASE \E c \in 0..Len(Decoded) : IsBroken(Decoded, Body(rd), c)
      BY <1>6, <1>7, <1>11, <2>3, Zenon
    <2> QED BY <1>12, <2>2, <2>3, Zenon
  <1> QED BY <1>9, <1>13

\* CollectText's text without an error, and the text of a reader that meets its end
\* without one, are all that the agent sent, up to its Done: no break of the connection
\* passes off a part of it as the whole.
THEOREM RestCompleteOrError == Spec => []CompleteOrError
  <1>1. ASSUME RestInv PROVE CompleteOrError
    <2>1. EventsOf(rd) = Body(rd)
      BY EventsOfIn DEF Body
    <2> QED BY <1>1, <2>1, CollectComplete, ReadComplete, Zenon DEF CompleteOrError
  <1> QED BY <1>1, RestInvariant, PTL
=============================================================================
