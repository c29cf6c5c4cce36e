--------------------------- MODULE SnmpWalkProofs ----------------------------
(***************************************************************************)
(* Theorems about SnmpWalk for columns and MIBs of any size, any batch     *)
(* size and any row limits.                                                *)
(***************************************************************************)
EXTENDS SnmpWalk, SequenceTheorems, TLAPS

USE ColumnAssumption, RequestAssumption

-----------------------------------------------------------------------------
(* Sequences of OIDs                                                        *)

CurOf(s) == IF s = <<>> THEN Base ELSE s[Len(s)]
Distinct(s) == \A i, j \in 1..Len(s) : s[i] = s[j] => i = j

\* t is s with the first k rows of r at its end.
Extended(s, r, k, t) ==
    /\ Len(t) = Len(s) + k
    /\ \A i \in 1..Len(s) : t[i] = s[i]
    /\ \A i \in 1..k : t[Len(s) + i] = r[i]

\* No row is above the one the walk has come to.
LEMMA CurIsTop ==
  ASSUME NEW s \in Seq(Under), Ascending(s)
  PROVE  CurOf(s) \in Under /\ \A i \in 1..Len(s) : s[i] <= CurOf(s)
<1>1. Len(s) \in Nat /\ (s # <<>> => Len(s) > 0) /\ (s = <<>> => Len(s) = 0)
  BY EmptySeq, LenProperties
<1>2. \A i \in 1..Len(s) : s[i] \in Under
  BY ElementOfSeq
<1>3. Under \subseteq Int /\ Base \in Under
  BY DEF Under, Column, Base
<1>4. CASE s = <<>>
  BY <1>1, <1>3, <1>4 DEF CurOf
<1>5. CASE s # <<>>
  <2>1. CurOf(s) = s[Len(s)] /\ Len(s) \in 1..Len(s)
    BY <1>1, <1>5 DEF CurOf
  <2>2. \A i \in 1..Len(s) : i # Len(s) => s[i] < s[Len(s)]
    BY <1>1, <2>1 DEF Ascending
  <2>3. \A i \in 1..Len(s) : s[i] \in Int /\ (i = Len(s) => s[i] = s[Len(s)])
    BY <1>2, <1>3
  <2>4. \A i \in 1..Len(s) : s[i] <= s[Len(s)]
    BY <2>1, <2>2, <2>3
  <2>5. QED
    BY <1>2, <2>1, <2>4
<1>6. QED
  BY <1>4, <1>5

LEMMA AscendingDistinct ==
  ASSUME NEW s \in Seq(Under), Ascending(s)
  PROVE  Distinct(s)
<1>1. \A i \in 1..Len(s) : s[i] \in Under
  BY ElementOfSeq
<1>2. Under \subseteq Int
  BY DEF Under, Column, Base
<1>3. SUFFICES ASSUME NEW i \in 1..Len(s), NEW j \in 1..Len(s), s[i] = s[j]
               PROVE  i = j
  BY DEF Distinct
<1>4. s[i] \in Int /\ s[j] \in Int
  BY <1>1, <1>2
<1>5. i < j => s[i] < s[j]
  BY DEF Ascending
<1>6. j < i => s[j] < s[i]
  BY DEF Ascending
<1>7. Len(s) \in Nat
  BY LenProperties
<1>8. QED
  BY <1>3, <1>4, <1>5, <1>6, <1>7

\* Rows above the present one that ascend keep the whole ascending.
LEMMA ExtendedAscends ==
  ASSUME NEW s \in Seq(Under), Ascending(s), NEW t \in Seq(Under),
         NEW r, NEW k \in Nat, Extended(s, r, k, t),
         \A i \in 1..k : r[i] > CurOf(s) /\ \A j \in 1..(i - 1) : r[i] > r[j]
  PROVE  Ascending(t)
<1>1. Len(s) \in Nat /\ Len(t) = Len(s) + k
  BY LenProperties DEF Extended
<1>2. \A i \in 1..Len(t) : t[i] \in Int
  BY ElementOfSeq DEF Under, Column, Base
<1>3. CurOf(s) \in Int /\ \A i \in 1..Len(s) : s[i] \in Int /\ s[i] <= CurOf(s)
  BY CurIsTop, ElementOfSeq DEF Under, Column, Base
<1>4. SUFFICES ASSUME NEW i \in 1..Len(t), NEW j \in 1..Len(t), i < j
               PROVE  t[i] < t[j]
  BY DEF Ascending
<1>5. CASE j <= Len(s)
  <2>1. i \in 1..Len(s) /\ j \in 1..Len(s)
    BY <1>1, <1>4, <1>5
  <2>2. t[i] = s[i] /\ t[j] = s[j] /\ s[i] < s[j]
    BY <2>1, <1>4 DEF Extended, Ascending
  <2>3. QED
    BY <2>2
<1>6. CASE j > Len(s)
  <2> DEFINE b == j - Len(s)
  <2>1. b \in 1..k /\ j = Len(s) + b
    BY <1>1, <1>4, <1>6
  <2>2. t[j] = r[b]
    <3> HIDE DEF b
    <3>1. QED
      BY <2>1 DEF Extended
  <2>3. CASE i <= Len(s)
    <3>1. t[i] = s[i] /\ s[i] <= CurOf(s)
      BY <1>1, <1>3, <1>4, <2>3, i \in 1..Len(s) DEF Extended
    <3>2. r[b] > CurOf(s)
      BY <2>1
    <3> HIDE DEF b
    <3>3. QED
      BY <1>2, <1>3, <2>2, <3>1, <3>2
  <2>4. CASE i > Len(s)
    <3> DEFINE a == i - Len(s)
    <3>1. a \in 1..k /\ i = Len(s) + a /\ a \in 1..(b - 1)
      BY <1>1, <1>4, <2>4
    <3> HIDE DEF a, b
    <3>2. t[i] = r[a] /\ r[b] > r[a]
      BY <2>1, <3>1 DEF Extended
    <3>3. QED
      BY <1>2, <2>2, <3>2
  <2>5. QED
    BY <1>1, <1>4, <2>3, <2>4
<1>7. QED
  BY <1>1, <1>4, <1>5, <1>6

LEMMA ExtendedRows ==
  ASSUME NEW s \in Seq(Under), NEW t \in Seq(Under),
         NEW r \in Seq(Values), NEW k \in 0..Len(r), Extended(s, r, k, t)
  PROVE  /\ RowSet(s) \subseteq RowSet(t)
         /\ \A i \in 1..k : r[i] \in RowSet(t)
         /\ RowSet(t) \subseteq RowSet(s) \cup RowSet(r)
<1>1. Len(s) \in Nat /\ Len(r) \in Nat /\ k \in Nat /\ Len(t) = Len(s) + k
  BY LenProperties DEF Extended
<1>2. RowSet(s) \subseteq RowSet(t)
  BY <1>1 DEF Extended, RowSet
<1>3. ASSUME NEW i \in 1..k PROVE r[i] \in RowSet(t)
  <2>1. Len(s) + i \in 1..Len(t) /\ t[Len(s) + i] = r[i]
    BY <1>1 DEF Extended
  <2>2. QED
    BY <2>1 DEF RowSet
<1>4. ASSUME NEW i \in 1..Len(t) PROVE t[i] \in RowSet(s) \cup RowSet(r)
  <2>1. CASE i <= Len(s)
    BY <1>1, <2>1, i \in 1..Len(s), t[i] = s[i] DEF Extended, RowSet
  <2>2. CASE i > Len(s)
    <3> DEFINE b == i - Len(s)
    <3>1. b \in 1..k /\ i = Len(s) + b /\ b \in 1..Len(r)
      BY <1>1, <2>2
    <3> HIDE DEF b
    <3>2. t[i] = r[b]
      BY <3>1 DEF Extended
    <3>3. QED
      BY <3>1, <3>2 DEF RowSet
  <2>3. QED
    BY <1>1, <2>1, <2>2
<1>5. QED
  BY <1>2, <1>3, <1>4 DEF RowSet

-----------------------------------------------------------------------------
(* Type correctness                                                         *)

Busy == waiting => phase # "idle"
Room == phase # "idle" => Len(out) < limit

TypeInv == TypeOK /\ Busy /\ Room

LEMMA SetFacts ==
  /\ Under \subseteq Int /\ Under \subseteq Values /\ Column \subseteq Under
  /\ Base \in Under /\ End \notin Under /\ End \in Values
  /\ Oids \subseteq Values /\ Values \subseteq Int
BY DEF Under, Values, Column, Oids, Base, End

LEMMA LimitType ==
  ASSUME NEW m \in MaxRows PROVE LimitOf(m) \in 1..256
BY DEF LimitOf

LEMMA RowsTypes ==
  ASSUME TypeOK, NEW o, NEW n
  PROVE  FirstAfter(o, n) \subseteq Seq(Values) /\ AnyRows \subseteq Seq(Values)
<1>1. After(o) \cup {End} \subseteq Values
  BY SetFacts DEF After, TypeOK
<1>2. ASSUME NEW x \in FirstAfter(o, n) PROVE x \in Seq(Values)
  <2>1. PICK k \in 1..(Cardinality(After(o)) + 1) : x \in [1..k -> After(o) \cup {End}]
    BY <1>2 DEF FirstAfter
  <2>2. k \in Nat
    OBVIOUS
  <2>3. x \in [1..k -> Values]
    BY <1>1, <2>1
  <2>4. QED
    BY <2>2, <2>3, SeqDef
<1>3. ASSUME NEW x \in AnyRows PROVE x \in Seq(Values)
  <2>1. PICK k \in 0..2 : x \in [1..k -> Values]
    BY <1>3 DEF AnyRows
  <2>2. QED
    BY <2>1, SeqDef
<1>4. QED
  BY <1>2, <1>3

LEMMA ReplyType ==
  ASSUME NEW id \in {0, 1}, NEW status \in {"ok", "tooBig", "error"},
         NEW rows \in Seq(Values)
  PROVE  Reply(id, status, rows) \in Datagram
BY DEF Reply, Datagram

LEMMA RepliesTypes ==
  ASSUME TypeOK, NEW o \in Values, NEW n, NEW id \in {0, 1}
  PROVE  BulkReplies(o, n, id) \subseteq Datagram /\ NextReplies(o, id) \subseteq Datagram
<1>1. <<>> \in Seq(Values) /\ <<o>> \in Seq(Values)
  BY SMT
<1>2. \A m : FirstAfter(o, m) \subseteq Seq(Values) /\ AnyRows \subseteq Seq(Values)
  BY RowsTypes
<1>3. \A rows \in Seq(Values) :
        /\ Reply(id, "ok", rows) \in Datagram
        /\ Reply(id, "tooBig", rows) \in Datagram
        /\ Reply(id, "error", rows) \in Datagram
  BY ReplyType
<1>4. ASSUME NEW d \in BulkReplies(o, n, id) PROVE d \in Datagram
  <2>1. CASE d \in {Reply(id, "tooBig", <<>>), Reply(id, "error", <<>>)}
    BY <1>1, <1>3, <2>1
  <2>2. CASE d \notin {Reply(id, "tooBig", <<>>), Reply(id, "error", <<>>)}
    <3>1. PICK x \in IF rogue THEN AnyRows ELSE FirstAfter(o, n) : d = Reply(id, "ok", x)
      BY <1>4, <2>2 DEF BulkReplies
    <3>2. x \in Seq(Values)
      BY <1>2, <3>1
    <3>3. QED
      BY <1>3, <3>1, <3>2
  <2>3. QED
    BY <2>1, <2>2
<1>5. ASSUME NEW d \in NextReplies(o, id) PROVE d \in Datagram
  <2>1. CASE d \in {Reply(id, "error", x) : x \in {<<>>, <<o>>}}
    <3>1. d = Reply(id, "error", <<>>) \/ d = Reply(id, "error", <<o>>)
      BY <2>1
    <3>2. QED
      BY <1>1, <1>3, <3>1
  <2>2. CASE d \notin {Reply(id, "error", x) : x \in {<<>>, <<o>>}}
    <3>1. PICK x \in IF rogue THEN AnyRows ELSE FirstAfter(o, 1) : d = Reply(id, "ok", x)
      BY <1>5, <2>2 DEF NextReplies
    <3>2. x \in Seq(Values)
      BY <1>2, <3>1
    <3>3. QED
      BY <1>3, <3>1, <3>2
  <2>3. QED
    BY <2>1, <2>2
<1>6. QED
  BY <1>4, <1>5

LEMMA BatchType ==
  ASSUME TypeInv, phase # "idle" PROVE Batch \in 1..reps
<1>1. Len(out) \in Nat
  BY LenProperties DEF TypeInv, TypeOK
<1>2. QED
  BY <1>1 DEF TypeInv, TypeOK, Room, Batch

LEMMA CurType == ASSUME TypeOK PROVE Cur \in Under /\ Cur = CurOf(out)
<1>1. CASE out = <<>>
  BY <1>1, SetFacts DEF Cur, CurOf
<1>2. CASE out # <<>>
  BY <1>2, EmptySeq, ElementOfSeq DEF Cur, CurOf, TypeOK
<1>3. QED
  BY <1>1, <1>2

\* What the first k rows of an answer do to the rows of the walk.
LEMMA TakenRows ==
  ASSUME TypeOK, NEW r \in Seq(Values), NEW k \in 0..Len(r), Takes(r, k)
  PROVE  /\ out \o SubSeq(r, 1, k) \in Seq(Under)
         /\ Extended(out, r, k, out \o SubSeq(r, 1, k))
         /\ k = 0 \/ Len(out) + k <= limit
<1> DEFINE h == SubSeq(r, 1, k)
<1>1. Len(r) \in Nat /\ k \in Nat /\ Len(out) \in Nat /\ out \in Seq(Under)
  BY LenProperties DEF TypeOK
<1>2. \A i \in 1..k : r[i] \in Under
  BY SetFacts DEF Takes, Fits
<1>3. h \in Seq(Under) /\ Len(h) = k /\ \A i \in 1..k : h[i] = r[i]
  BY <1>1, <1>2, SubSeqProperties
<1>4. /\ out \o h \in Seq(Under)
      /\ Len(out \o h) = Len(out) + k
      /\ \A i \in 1..(Len(out) + k) :
            (out \o h)[i] = IF i <= Len(out) THEN out[i] ELSE h[i - Len(out)]
  <2> HIDE DEF h
  <2>1. QED
    BY <1>1, <1>3, ConcatProperties
<1>5. \A i \in 1..Len(out) : (out \o h)[i] = out[i]
  BY <1>1, <1>4
<1>6. ASSUME NEW i \in 1..k PROVE (out \o h)[Len(out) + i] = r[i]
  <2> HIDE DEF h
  <2>1. (Len(out) + i) - Len(out) = i /\ Len(out) + i \in 1..(Len(out) + k)
        /\ ~(Len(out) + i <= Len(out))
    BY <1>1
  <2>2. QED
    BY <1>3, <1>4, <2>1
<1>7. k = 0 \/ Len(out) + k <= limit
  BY <1>1 DEF Takes, Fits
<1>8. QED
  BY <1>4, <1>5, <1>6, <1>7 DEF Extended

LEMMA TypeInit == Init => TypeInv
<1> SUFFICES ASSUME Init PROVE TypeInv
  OBVIOUS
<1>1. out \in Seq(Under) /\ RepsMax \in 1..RepsMax
  BY EmptySeq DEF Init
<1>2. mib \subseteq Oids
  <2>1. CASE rogue
    BY <2>1 DEF Init
  <2>2. CASE ~rogue
    BY <2>2 DEF Init
  <2>3. QED
    BY <2>1, <2>2
<1>3. inbox \subseteq Datagram /\ limit \in 1..256 /\ rid \in {0, 1}
  BY DEF Init
<1>4. Busy /\ Room
  BY DEF Init, Busy, Room
<1>5. QED
  BY <1>1, <1>2, <1>3, <1>4 DEF Init, TypeInv, TypeOK

LEMMA AskTypes ==
  ASSUME TypeInv, NEW R \in SUBSET Datagram, Ask, Deliver(inbox, R) \/ Deliver({}, R)
  PROVE  waiting' = TRUE /\ rid' \in {0, 1} /\ inbox' \subseteq Datagram
<1>1. inbox \subseteq Datagram /\ rid \in {0, 1}
  BY DEF TypeInv, TypeOK
<1>2. PICK old \in SUBSET Datagram : Deliver(old, R)
  BY <1>1
<1>3. PICK late \in {{}} \cup {{d} : d \in {e \in old : e.rid = rid}},
           new \in {{}} \cup {{d} : d \in R} : inbox' = late \cup new
  BY <1>2 DEF Deliver
<1>4. late \subseteq Datagram
  BY <1>3
<1>5. new \subseteq Datagram
  BY <1>3
<1>6. QED
  BY <1>1, <1>3, <1>4, <1>5 DEF Ask

\* Once a walk is over, or starts again with GETNEXT, all but its rows is as at
\* its start.
LEMMA FinishTypes ==
  ASSUME TypeInv, Finish
  PROVE  /\ phase' = "idle" /\ unsupported' \in BOOLEAN /\ fell_back' = FALSE
         /\ reps' \in 1..RepsMax /\ rid' \in {0, 1} /\ inbox' \subseteq Datagram
<1>1. unsupported' \in BOOLEAN
  BY Zenon DEF Finish
<1>2. QED
  BY <1>1 DEF Finish, Fresh

LEMMA FallbackTypes ==
  ASSUME TypeInv, Fallback
  PROVE  /\ phase' = "next" /\ unsupported' \in BOOLEAN /\ fell_back' = TRUE
         /\ reps' \in 1..RepsMax /\ rid' \in {0, 1} /\ inbox' \subseteq Datagram
         /\ out' \in Seq(Under) /\ Len(out') = 0 /\ whole' \in BOOLEAN
<1>1. unsupported' \in BOOLEAN /\ whole' \in BOOLEAN
  BY Zenon DEF Fallback, TypeInv, TypeOK
<1>2. QED
  BY <1>1, EmptySeq DEF Fallback, Fresh

LEMMA TypeStep == TypeInv /\ [Next]_vars => TypeInv'
<1> SUFFICES ASSUME TypeInv, [Next]_vars PROVE TypeInv'
  OBVIOUS
<1> USE DEF TypeInv
<1>1. CASE ChangeMib
  BY <1>1 DEF ChangeMib, TypeOK, Busy, Room, history, walk
<1>2. CASE Expire
  BY <1>2 DEF Expire, TypeOK, Busy, Room, history, walk
<1>3. CASE StartWalk
  <2>1. limit' \in 1..256
    BY <1>3, LimitType DEF StartWalk
  <2>2. out' \in Seq(Under) /\ Len(out') = 0
    BY <1>3, EmptySeq DEF StartWalk
  <2>3. QED
    BY <1>3, <2>1, <2>2 DEF StartWalk, TypeOK, Busy, Room
<1>4. CASE AskBulk
  <2>1. BulkReplies(Cur, Batch, rid') \subseteq Datagram
    <3>1. rid' \in {0, 1}
      BY <1>4 DEF AskBulk, Ask, TypeOK
    <3>2. Cur \in Values
      BY CurType, SetFacts
    <3>3. QED
      BY <3>1, <3>2, RepliesTypes
  <2>2. waiting' = TRUE /\ rid' \in {0, 1} /\ inbox' \subseteq Datagram
    BY <1>4, <2>1, AskTypes DEF AskBulk, Ask
  <2>3. QED
    BY <1>4, <2>2 DEF AskBulk, TypeOK, Busy, Room, history
<1>5. CASE AskNext
  <2>1. NextReplies(Cur, rid') \subseteq Datagram
    <3>1. rid' \in {0, 1}
      BY <1>5 DEF AskNext, Ask, TypeOK
    <3>2. Cur \in Values
      BY CurType, SetFacts
    <3>3. QED
      BY <3>1, <3>2, RepliesTypes
  <2>2. waiting' = TRUE /\ rid' \in {0, 1} /\ inbox' \subseteq Datagram
    BY <1>5, <2>1, AskTypes DEF AskNext, Ask
  <2>3. QED
    BY <1>5, <2>2 DEF AskNext, TypeOK, Busy, Room, history
<1>6. CASE Receive
  <2>1. PICK d \in inbox : Matches(d) /\ IF phase = "bulk" THEN TakeBulk(d) ELSE TakeNext(d)
    BY <1>6 DEF Receive
  <2>2. d.rows \in Seq(Values) /\ phase # "idle" /\ Batch \in 1..reps /\ Len(out) \in Nat
    BY <1>6, BatchType, LenProperties DEF Receive, TypeOK, Datagram, Busy
  <2>3. CASE phase = "bulk"
    <3>1. CASE d.status = "tooBig" /\ Batch > 1
      <4>1. Smaller(Batch) \in 1..RepsMax
        BY <2>2, <3>1 DEF Smaller, TypeOK
      <4>2. QED
        BY <1>6, <2>1, <2>3, <3>1, <4>1 DEF Receive, TakeBulk, GoOn, TypeOK, Busy, Room
    <3>2. CASE ~(d.status = "tooBig" /\ Batch > 1) /\ (d.status # "ok" \/ d.rows = <<>>)
      <4>1. Fallback
        BY <2>1, <2>3, <3>2 DEF TakeBulk
      <4>2. limit' = limit /\ waiting' = FALSE
        BY <1>6 DEF Receive
      <4>3. Len(out') < limit' /\ phase' = "next"
        <5>1. Len(out') = 0 /\ phase' = "next"
          BY <4>1, FallbackTypes
        <5>2. QED
          BY <4>2, <5>1 DEF TypeOK
      <4>4. Busy' /\ Room'
        BY <4>3 DEF Busy, Room
      <4>5. TypeOK'
        BY <1>6, <4>1, FallbackTypes DEF Receive, TypeOK
      <4>6. QED
        BY <4>4, <4>5
    <3>3. CASE ~(d.status = "tooBig" /\ Batch > 1) /\ ~(d.status # "ok" \/ d.rows = <<>>)
      <4>1. PICK k \in 0..Len(d.rows) :
              /\ Takes(d.rows, k)
              /\ out' = out \o SubSeq(d.rows, 1, k)
              /\ IF k < Len(d.rows) \/ Len(out) + k = limit THEN Finish
                 ELSE GoOn /\ UNCHANGED reps
        BY <2>1, <2>3, <3>3 DEF TakeBulk
      <4>2. /\ out' \in Seq(Under) /\ Len(out') = Len(out) + k
            /\ k = 0 \/ Len(out) + k <= limit
        BY <2>2, <4>1, TakenRows DEF Extended
      <4>3. CASE k < Len(d.rows) \/ Len(out) + k = limit
        <5>1. Finish /\ whole' = whole
          BY <2>1, <2>3, <3>3, <4>1, <4>3 DEF TakeBulk
        <5>2. QED
          BY <1>6, <4>2, <5>1, FinishTypes DEF Receive, TypeOK, Busy, Room
      <4>4. CASE ~(k < Len(d.rows) \/ Len(out) + k = limit)
        <5>1. Len(out') < limit
          BY <2>2, <4>2, <4>4 DEF Room, TypeOK
        <5>2. QED
          BY <1>6, <2>1, <2>3, <3>3, <4>1, <4>2, <4>4, <5>1 DEF Receive, TakeBulk, GoOn, TypeOK, Busy, Room
      <4>5. QED
        BY <4>3, <4>4
    <3>4. QED
      BY <3>1, <3>2, <3>3
  <2>4. CASE phase = "next"
    <3>1. CASE d.rows = <<>> \/ d.rows[1] \notin Under \ RowSet(out)
      <4>1. Finish /\ out' = out /\ whole' \in BOOLEAN
        BY <2>1, <2>4, <3>1, Zenon DEF TakeNext
      <4>2. QED
        BY <1>6, <4>1, FinishTypes DEF Receive, TypeOK, Busy, Room
    <3>2. CASE ~(d.rows = <<>> \/ d.rows[1] \notin Under \ RowSet(out))
      <4>1. out' = Append(out, d.rows[1]) /\ whole' \in BOOLEAN
        BY <2>1, <2>4, <3>2, Zenon DEF TakeNext
      <4>2. out' \in Seq(Under) /\ Len(out') = Len(out) + 1
        BY <3>2, <4>1, AppendProperties DEF TypeOK
      <4>3. CASE Len(out) + 1 = limit
        <5>1. Finish
          BY <2>1, <2>4, <3>2, <4>3 DEF TakeNext
        <5>2. QED
          BY <1>6, <4>1, <4>2, <5>1, FinishTypes DEF Receive, TypeOK, Busy, Room
      <4>4. CASE Len(out) + 1 # limit
        <5>1. Len(out') < limit
          BY <2>2, <4>2, <4>4 DEF Room, TypeOK
        <5>2. QED
          BY <1>6, <2>1, <2>4, <3>2, <4>1, <4>2, <4>4, <5>1 DEF Receive, TakeNext, GoOn, TypeOK, Busy, Room
      <4>5. QED
        BY <4>3, <4>4
    <3>3. QED
      BY <3>1, <3>2
  <2>5. QED
    BY <2>2, <2>3, <2>4 DEF TypeOK
<1>7. CASE Timeout
  <2>1. CASE phase = "bulk" /\ Fallback
    <3>1. UNCHANGED <<mib, rogue, limit, always, ever>> /\ waiting' = FALSE
      BY <1>7 DEF Timeout
    <3>2. Len(out') < limit' /\ phase' = "next"
      <4>1. Len(out') = 0 /\ phase' = "next"
        BY <2>1, FallbackTypes
      <4>2. QED
        BY <3>1, <4>1 DEF TypeOK
    <3>3. Busy' /\ Room'
      BY <3>2 DEF Busy, Room
    <3>4. TypeOK'
      BY <2>1, <3>1, FallbackTypes DEF TypeOK
    <3>5. QED
      BY <3>3, <3>4
  <2>2. CASE phase = "next" /\ out' = out /\ Finish /\ whole' = FALSE
    BY <1>7, <2>2, FinishTypes DEF Timeout, TypeOK, Busy, Room
  <2>3. QED
    BY <1>7, <2>1, <2>2 DEF Timeout
<1>8. CASE UNCHANGED vars
  BY <1>8 DEF vars, walk, history, TypeOK, Busy, Room
<1>9. QED
  BY <1>1, <1>2, <1>3, <1>4, <1>5, <1>6, <1>7, <1>8 DEF Next

\* The state of a walk keeps its types.
THEOREM WalkTypeCorrect == Spec => []TypeOK
<1>1. TypeInv => TypeOK
  BY DEF TypeInv
<1>2. QED
  BY <1>1, TypeInit, TypeStep, PTL DEF Spec

-----------------------------------------------------------------------------
(* No row twice, none of another column, no more than the limit             *)

\* A GETBULK walk goes up; a GETNEXT walk is only kept from coming back to a
\* row it has.
Ordered == phase = "bulk" => Ascending(out)

RowsInv == TypeInv /\ RowsOnce /\ Ordered

LEMMA RowsOnceOf ==
  ASSUME TypeOK, Distinct(out), Len(out) <= limit
  PROVE  RowsOnce
<1>1. RowSet(out) \subseteq Under
  BY ElementOfSeq DEF TypeOK, RowSet
<1>2. QED
  BY <1>1 DEF RowsOnce, Distinct

\* What an answer to a GETBULK does to the rows.
LEMMA BulkRows ==
  ASSUME RowsInv, phase = "bulk", NEW d \in Datagram, TakeBulk(d)
  PROVE  /\ out' \in Seq(Under) => Ascending(out')
         /\ Len(out') <= limit
<1>1. Len(out) \in Nat /\ limit \in Nat /\ Len(out) <= limit /\ d.rows \in Seq(Values)
  BY LenProperties DEF RowsInv, TypeInv, TypeOK, RowsOnce, Datagram
<1>2. CASE d.status = "tooBig" /\ Batch > 1
  BY <1>1, <1>2 DEF TakeBulk, RowsInv, Ordered
<1>3. CASE ~(d.status = "tooBig" /\ Batch > 1) /\ (d.status # "ok" \/ d.rows = <<>>)
  <2>1. Len(out') = 0
    BY <1>3, EmptySeq DEF TakeBulk, Fallback
  <2>2. QED
    BY <1>1, <2>1 DEF Ascending
<1>4. CASE ~(d.status = "tooBig" /\ Batch > 1) /\ ~(d.status # "ok" \/ d.rows = <<>>)
  <2>1. PICK k \in 0..Len(d.rows) : Takes(d.rows, k) /\ out' = out \o SubSeq(d.rows, 1, k)
    BY <1>4 DEF TakeBulk
  <2>2. /\ out' \in Seq(Under) /\ Extended(out, d.rows, k, out')
        /\ k = 0 \/ Len(out) + k <= limit
    BY <1>1, <2>1, TakenRows DEF RowsInv, TypeInv
  <2>3. Len(d.rows) \in Nat /\ k \in Nat
    BY <1>1, LenProperties
  <2>4. Len(out') <= limit
    BY <1>1, <2>2, <2>3 DEF Extended
  <2>5. \A i \in 1..k : d.rows[i] > CurOf(out) /\ \A j \in 1..(i - 1) : d.rows[i] > d.rows[j]
    BY <2>1, CurType DEF Takes, Fits, RowsInv, TypeInv
  <2>6. Ascending(out) /\ out \in Seq(Under)
    BY DEF RowsInv, Ordered, TypeInv, TypeOK
  <2>7. Ascending(out')
    BY <2>2, <2>3, <2>5, <2>6, ExtendedAscends
  <2>8. QED
    BY <2>4, <2>7
<1>5. QED
  BY <1>2, <1>3, <1>4

\* What an answer to a GETNEXT does to them.
LEMMA NextRows ==
  ASSUME RowsInv, phase = "next", NEW d \in Datagram, TakeNext(d)
  PROVE  Distinct(out') /\ Len(out') <= limit
<1>1. Len(out) \in Nat /\ limit \in Nat /\ Len(out) < limit /\ Distinct(out) /\ out \in Seq(Under)
  BY LenProperties DEF RowsInv, TypeInv, TypeOK, RowsOnce, Room, Distinct
<1>2. CASE d.rows = <<>> \/ d.rows[1] \notin Under \ RowSet(out)
  BY <1>1, <1>2 DEF TakeNext
<1>3. CASE ~(d.rows = <<>> \/ d.rows[1] \notin Under \ RowSet(out))
  <2> DEFINE x == d.rows[1]
  <2>1. out' = Append(out, x) /\ x \in Under /\ x \notin RowSet(out)
    BY <1>3 DEF TakeNext
  <2> HIDE DEF x
  <2>2. /\ Len(out') = Len(out) + 1 /\ out'[Len(out) + 1] = x
        /\ \A i \in 1..Len(out) : out'[i] = out[i]
    BY <1>1, <2>1, AppendProperties
  <2>3. \A i \in 1..Len(out) : out'[i] # x
    BY <2>1, <2>2 DEF RowSet
  <2>4. ASSUME NEW i \in 1..Len(out'), NEW j \in 1..Len(out'), out'[i] = out'[j]
        PROVE  i = j
    <3>1. CASE i <= Len(out) /\ j <= Len(out)
      BY <1>1, <2>2, <2>4, <3>1 DEF Distinct
    <3>2. CASE i = Len(out) + 1 /\ j <= Len(out)
      BY <1>1, <2>2, <2>3, <2>4, <3>2
    <3>3. CASE i <= Len(out) /\ j = Len(out) + 1
      BY <1>1, <2>2, <2>3, <2>4, <3>3
    <3>4. QED
      BY <1>1, <2>2, <2>4, <3>1, <3>2, <3>3
  <2>5. QED
    BY <1>1, <2>2, <2>4 DEF Distinct
<1>4. QED
  BY <1>2, <1>3

LEMMA RowsStep == RowsInv /\ [Next]_vars => RowsInv'
<1> SUFFICES ASSUME RowsInv, [Next]_vars PROVE RowsInv'
  OBVIOUS
<1>1. TypeInv /\ TypeInv' /\ RowsOnce /\ Ordered /\ out' \in Seq(Under)
  BY TypeStep DEF RowsInv, TypeInv, TypeOK
<1>2. ASSUME Distinct(out)', Len(out') <= limit' PROVE RowsOnce'
  <2>1. RowSet(out)' \subseteq Under
    BY <1>1, ElementOfSeq DEF RowSet
  <2>2. QED
    BY <1>2, <2>1 DEF RowsOnce, Distinct
<1>3. ASSUME UNCHANGED <<out, limit>>, phase' = phase PROVE RowsInv'
  BY <1>1, <1>3 DEF RowsInv, RowsOnce, Ordered, RowSet, Ascending
<1>4. ASSUME Len(out') = 0 PROVE RowsInv'
  <2>1. Ascending(out)' /\ Distinct(out)'
    BY <1>4 DEF Ascending, Distinct
  <2>2. Len(out') <= limit'
    BY <1>1, <1>4 DEF TypeInv, TypeOK
  <2>3. QED
    BY <1>1, <1>2, <2>1, <2>2 DEF RowsInv, Ordered
<1>5. CASE StartWalk
  BY <1>4, <1>5, EmptySeq DEF StartWalk
<1>6. CASE ChangeMib \/ Expire \/ AskBulk \/ AskNext
  BY <1>3, <1>6 DEF ChangeMib, Expire, AskBulk, AskNext, walk
<1>7. CASE Receive
  <2>1. PICK d \in inbox : IF phase = "bulk" THEN TakeBulk(d) ELSE TakeNext(d)
    BY <1>7 DEF Receive
  <2>2. d \in Datagram /\ limit' = limit /\ phase \in {"bulk", "next"}
    BY <1>1, <1>7 DEF Receive, TypeInv, TypeOK, Busy
  <2>3. CASE phase = "bulk"
    <3>1. Ascending(out)' /\ Len(out') <= limit'
      BY <1>1, <2>1, <2>2, <2>3, BulkRows DEF Ascending
    <3>2. Distinct(out)'
      BY <1>1, <3>1, AscendingDistinct DEF Ascending, Distinct
    <3>3. QED
      BY <1>1, <1>2, <3>1, <3>2 DEF RowsInv, Ordered
  <2>4. CASE phase = "next"
    <3>1. Distinct(out)' /\ Len(out') <= limit'
      BY <2>1, <2>2, <2>4, NextRows DEF Distinct
    <3>2. phase' # "bulk"
      BY <2>1, <2>4 DEF TakeNext, Finish, GoOn
    <3>3. QED
      BY <1>1, <1>2, <3>1, <3>2 DEF RowsInv, Ordered
  <2>5. QED
    BY <2>2, <2>3, <2>4
<1>8. CASE Timeout
  <2>1. CASE Fallback
    BY <1>4, <2>1, EmptySeq DEF Fallback
  <2>2. CASE out' = out /\ Finish
    <3>1. Distinct(out)' /\ Len(out') <= limit' /\ phase' = "idle"
      BY <1>1, <1>8, <2>2 DEF Timeout, RowsOnce, Distinct, Finish
    <3>2. QED
      BY <1>1, <1>2, <3>1 DEF RowsInv, Ordered
  <2>3. QED
    BY <1>8, <2>1, <2>2 DEF Timeout
<1>9. CASE UNCHANGED vars
  BY <1>3, <1>9 DEF vars, walk
<1>10. QED
  BY <1>5, <1>6, <1>7, <1>8, <1>9 DEF Next

LEMMA RowsInit == Init => RowsInv
<1> SUFFICES ASSUME Init PROVE RowsInv
  OBVIOUS
<1>1. TypeInv /\ Len(out) = 0 /\ limit = 1
  BY TypeInit, EmptySeq DEF Init
<1>2. Distinct(out) /\ Ascending(out) /\ Len(out) <= limit
  BY <1>1 DEF Distinct, Ascending
<1>3. QED
  BY <1>1, <1>2, RowsOnceOf DEF RowsInv, TypeInv, Ordered

\* Whatever the agent answers, no row is returned twice and no more than the
\* caller asked for.
THEOREM RowsOnceTheorem == Spec => []RowsOnce
<1>1. RowsInv => RowsOnce
  BY DEF RowsInv
<1>2. QED
  BY <1>1, RowsInit, RowsStep, PTL DEF Spec

-----------------------------------------------------------------------------
(* Rows that were there all the time                                        *)

\* All rows up to where the walk has come are in.
CaughtUp(s) == \A p \in always \cap Column : p <= CurOf(s) => p \in RowSet(s)
Caught == ~rogue => CaughtUp(out)

\* The MIB is between what stayed and what ever was there.
Kept == phase # "idle" => always \subseteq mib /\ mib \subseteq ever

\* s leads on from o: it goes up, and jumps no row that stays.
Led(s, o) ==
    /\ s # <<>> /\ Ascending(s)
    /\ RowSet(s) \subseteq ever \cup {End}
    /\ \A i \in 1..Len(s) : s[i] > o
    /\ \A p \in always : p > o => p \in RowSet(s) \/ \A i \in 1..Len(s) : s[i] < p

\* What an agent that is not rogue answered to the request that waits.
Honest ==
    waiting /\ ~rogue => \A d \in inbox : d.rid = rid =>
        IF d.status = "ok" THEN Led(d.rows, Cur) ELSE d.rows \in {<<>>, <<Cur>>}

StayInv == RowsWereThere /\ Kept /\ Caught /\ Honest /\ StableRowsReturned
WalkInv == RowsInv /\ StayInv

\* k rows of an answer that leads on, put at the end of the rows there are.
LEMMA LedRows ==
  ASSUME TypeOK, NEW s \in Seq(Under), Ascending(s), CaughtUp(s),
         RowSet(s) \subseteq ever \cup {Base},
         NEW r \in Seq(Values), Led(r, CurOf(s)),
         NEW k \in 0..Len(r), \A i \in 1..k : r[i] \in Column,
         NEW t \in Seq(Under), Extended(s, r, k, t)
  PROVE  /\ Ascending(t)
         /\ RowSet(t) \subseteq ever \cup {Base}
         /\ CaughtUp(t)
         /\ k < Len(r) /\ r[k + 1] \notin Column =>
                \A p \in always \cap Column : p \in RowSet(t)
<1>1. /\ Len(s) \in Nat /\ Len(r) \in Nat /\ k \in Nat /\ Len(t) = Len(s) + k
      /\ \A i \in 1..Len(r) : r[i] \in Int
      /\ CurOf(s) \in Int /\ CurOf(s) >= 0
  <2>1. Len(s) \in Nat /\ Len(r) \in Nat /\ k \in Nat /\ Len(t) = Len(s) + k
    BY LenProperties DEF Extended
  <2>2. \A i \in 1..Len(r) : r[i] \in Values
    BY ElementOfSeq
  <2>3. CurOf(s) \in Under
    BY CurIsTop
  <2>4. CurOf(s) \in Int /\ CurOf(s) >= 0
    BY <2>3 DEF Under, Base, Column
  <2>5. QED
    BY <2>1, <2>2, <2>4, SetFacts
<1>2. /\ Ascending(r) /\ \A i \in 1..Len(r) : r[i] > CurOf(s)
      /\ RowSet(r) \subseteq ever \cup {End}
      /\ \A p \in always : p > CurOf(s) =>
            p \in RowSet(r) \/ \A i \in 1..Len(r) : r[i] < p
  BY DEF Led
<1>3. Ascending(t)
  <2>1. ASSUME NEW i \in 1..k
        PROVE  r[i] > CurOf(s) /\ \A j \in 1..(i - 1) : r[i] > r[j]
    <3>1. i \in 1..Len(r) /\ \A j \in 1..(i - 1) : j \in 1..Len(r) /\ j < i
      BY <1>1
    <3>2. \A j \in 1..(i - 1) : r[j] < r[i] /\ r[j] \in Int /\ r[i] \in Int
      BY <1>1, <1>2, <3>1 DEF Ascending
    <3>3. QED
      BY <1>2, <3>1, <3>2
  <2>2. QED
    BY <1>1, <2>1, ExtendedAscends
<1>4. RowSet(s) \subseteq RowSet(t) /\ \A i \in 1..k : r[i] \in RowSet(t)
  BY ExtendedRows
<1>5. RowSet(t) \subseteq ever \cup {Base}
  <2>1. RowSet(t) \subseteq Under
    BY ElementOfSeq DEF RowSet
  <2>2. RowSet(t) \subseteq RowSet(s) \cup RowSet(r)
    BY ExtendedRows
  <2>3. QED
    BY <1>2, <2>1, <2>2, SetFacts
<1>6. \A p \in always \cap Column : p \in Int /\ p <= ColumnEnd /\ p \in always
  BY DEF Column
<1>7. \A p \in always \cap Column : p <= CurOf(s) => p \in RowSet(t)
  BY <1>4 DEF CaughtUp
<1>8. ASSUME NEW p \in always \cap Column, p > CurOf(s), p \in RowSet(r),
             NEW n \in 1..Len(r), p <= r[n]
      PROVE  \E i \in 1..n : p = r[i]
  <2>1. PICK i \in 1..Len(r) : p = r[i]
    BY <1>8 DEF RowSet
  <2>2. ~(n < i)
    BY <1>1, <1>2, <1>6, <1>8, <2>1 DEF Ascending
  <2>3. QED
    BY <1>1, <2>1, <2>2
<1>9. ASSUME NEW p \in always \cap Column, p > CurOf(s), k > 0, p <= r[k]
      PROVE  p \in RowSet(t)
  <2>1. k \in 1..Len(r) /\ r[k] \in Int
    BY <1>1, <1>9
  <2>2. p \in RowSet(r)
    BY <1>2, <1>6, <1>9, <2>1
  <2>3. PICK i \in 1..k : p = r[i]
    BY <1>8, <1>9, <2>1, <2>2
  <2>4. QED
    BY <1>4, <2>3
<1>10. CaughtUp(t)
  <2>1. SUFFICES ASSUME NEW p \in always \cap Column, p <= CurOf(t), p > CurOf(s)
                 PROVE  p \in RowSet(t)
    BY <1>1, <1>6, <1>7 DEF CaughtUp
  <2>2. CASE k = 0
    <3>1. CurOf(t) = CurOf(s)
      BY <1>1, <2>2, EmptySeq DEF CurOf, Extended
    <3>2. QED
      BY <1>1, <1>6, <2>1, <3>1
  <2>3. CASE k > 0
    <3>1. t # <<>> /\ t[Len(t)] = r[k]
      BY <1>1, <2>3, EmptySeq DEF Extended
    <3>2. CurOf(t) = r[k]
      BY <3>1 DEF CurOf
    <3>3. QED
      BY <1>9, <2>1, <2>3, <3>2
  <2>4. QED
    BY <1>1, <2>2, <2>3
<1>11. ASSUME k < Len(r), r[k + 1] \notin Column, NEW p \in always \cap Column
       PROVE  p \in RowSet(t)
  <2>1. k + 1 \in 1..Len(r) /\ r[k + 1] \in Int /\ r[k + 1] > CurOf(s)
    BY <1>1, <1>2, <1>11
  <2>2. r[k + 1] > ColumnEnd
    BY <1>1, <1>11, <2>1 DEF Column
  <2>3. CASE p > CurOf(s)
    <3>1. p \in RowSet(r)
      BY <1>2, <1>6, <2>1, <2>2, <2>3
    <3>2. PICK i \in 1..(k + 1) : p = r[i]
      BY <1>6, <1>8, <2>1, <2>2, <2>3, <3>1
    <3>3. i # k + 1
      BY <1>11, <3>2
    <3>4. QED
      BY <1>1, <1>4, <3>2, <3>3
  <2>4. QED
    BY <1>1, <1>6, <1>7, <2>3
<1>12. QED
  BY <1>3, <1>5, <1>10, <1>11

LEMMA FirstAfterLeads ==
  ASSUME TypeOK, Kept, phase # "idle", NEW n, NEW s \in FirstAfter(Cur, n)
  PROVE  Led(s, Cur)
<1>1. PICK k \in 1..(Cardinality(After(Cur)) + 1) : s \in [1..k -> After(Cur) \cup {End}]
  BY DEF FirstAfter
<1>2. k \in Nat /\ k >= 1 /\ After(Cur) \cup {End} \subseteq Values
  <2>1. k \in Nat /\ k >= 1
    OBVIOUS
  <2>2. After(Cur) \cup {End} \subseteq Values
    BY SetFacts DEF After, TypeOK
  <2>3. QED
    BY <2>1, <2>2
<1>3. s \in Seq(Values) /\ DOMAIN s = 1..k
  <2>1. s \in [1..k -> Values]
    BY <1>1, <1>2
  <2>2. QED
    BY <1>2, <2>1, SeqDef
<1>4. Len(s) = k
  BY <1>2, <1>3, LenProperties
<1>5. s # <<>>
  BY <1>2, <1>4, EmptySeq
<1>6. Ascending(s) /\ \A p \in After(Cur) : p \in RowSet(s) \/ \A i \in 1..Len(s) : s[i] < p
  BY DEF FirstAfter
<1>7. Cur \in Int /\ Cur <= ColumnEnd /\ End > ColumnEnd
  BY CurType DEF Under, Base, Column, End
<1>8. ASSUME NEW i \in 1..Len(s) PROVE s[i] > Cur /\ s[i] \in ever \cup {End}
  <2>1. s[i] \in After(Cur) \cup {End}
    BY <1>1, <1>4
  <2>2. End > Cur
    BY <1>7 DEF End
  <2>3. QED
    BY <2>1, <2>2 DEF After, Kept
<1>9. RowSet(s) \subseteq ever \cup {End}
  BY <1>8 DEF RowSet
<1>10. \A p \in always : p > Cur => p \in After(Cur)
  BY DEF After, Kept
<1>11. QED
  BY <1>5, <1>6, <1>8, <1>9, <1>10 DEF Led

\* Of what is on the socket after a request, only its own answers match.
LEMMA AskMatches ==
  ASSUME TypeOK, NEW R, Ask, Deliver(inbox, R) \/ Deliver({}, R),
         NEW d \in inbox', d.rid = rid'
  PROVE  d \in R
<1>1. rid' # rid
  BY DEF Ask, TypeOK
<1>2. PICK old : Deliver(old, R)
  OBVIOUS
<1>3. PICK late \in {{}} \cup {{e} : e \in {f \in old : f.rid = rid}},
           new \in {{}} \cup {{e} : e \in R} : inbox' = late \cup new
  BY <1>2 DEF Deliver
<1>4. d \notin late
  BY <1>1, <1>3
<1>5. QED
  BY <1>3, <1>4

LEMMA ReplyParts ==
  ASSUME NEW id, NEW status, NEW rows
  PROVE  Reply(id, status, rows).status = status /\ Reply(id, status, rows).rows = rows
BY DEF Reply

LEMMA RepliesHonest ==
  ASSUME TypeOK, Kept, phase # "idle", ~rogue, NEW n, NEW id,
         NEW d \in BulkReplies(Cur, n, id) \cup NextReplies(Cur, id)
  PROVE  IF d.status = "ok" THEN Led(d.rows, Cur) ELSE d.rows \in {<<>>, <<Cur>>}
<1>1. CASE \E m : \E x \in FirstAfter(Cur, m) : d = Reply(id, "ok", x)
  BY <1>1, ReplyParts, FirstAfterLeads
<1>2. CASE \E st \in {"tooBig", "error"}, x \in {<<>>, <<Cur>>} : d = Reply(id, st, x)
  BY <1>2, ReplyParts
<1>3. CASE d \in BulkReplies(Cur, n, id)
  <2>1. \/ d = Reply(id, "tooBig", <<>>) \/ d = Reply(id, "error", <<>>)
        \/ \E x \in FirstAfter(Cur, n) : d = Reply(id, "ok", x)
    BY <1>3 DEF BulkReplies
  <2>2. QED
    BY <1>1, <1>2, <2>1
<1>4. CASE d \in NextReplies(Cur, id)
  <2>1. \/ \E x \in {<<>>, <<Cur>>} : d = Reply(id, "error", x)
        \/ \E x \in FirstAfter(Cur, 1) : d = Reply(id, "ok", x)
    BY <1>4 DEF NextReplies
  <2>2. QED
    BY <1>1, <1>2, <2>1
<1>5. QED
  BY <1>3, <1>4

\* What RowsWereThere and Caught say of rows s, and StableRowsReturned of the
\* rows of a walk that ends.
Good(s) == Ascending(s) /\ RowSet(s) \subseteq ever \cup {Base} /\ CaughtUp(s)
Complete(s) ==
    \A o \in always \cap Column :
        o \in RowSet(s) \/ (Len(s) = limit /\ \A i \in 1..Len(s) : s[i] < o)

LEMMA NoRowsGood ==
  ASSUME NEW s, s = <<>> PROVE Good(s)
<1>1. Len(s) = 0 /\ CurOf(s) = 0
  BY EmptySeq DEF CurOf, Base
<1>2. RowSet(s) = {} /\ Ascending(s)
  BY <1>1 DEF RowSet, Ascending
<1>3. \A p \in Column : ~(p <= 0)
  BY DEF Column
<1>4. QED
  BY <1>1, <1>2, <1>3 DEF Good, CaughtUp

LEMMA GoodAtLimit ==
  ASSUME TypeOK, NEW s \in Seq(Under), Good(s), Len(s) = limit PROVE Complete(s)
<1>1. CurOf(s) \in Int /\ \A i \in 1..Len(s) : s[i] \in Int /\ s[i] <= CurOf(s)
  <2>1. CurOf(s) \in Under /\ \A i \in 1..Len(s) : s[i] <= CurOf(s)
    BY CurIsTop DEF Good
  <2>2. \A i \in 1..Len(s) : s[i] \in Under
    BY ElementOfSeq
  <2>3. QED
    BY <2>1, <2>2, SetFacts
<1>2. \A o \in always \cap Column : o \in Int /\ (o <= CurOf(s) => o \in RowSet(s))
  BY DEF Good, CaughtUp, Column
<1>3. ASSUME NEW o \in always \cap Column, ~(o <= CurOf(s)), NEW i \in 1..Len(s)
      PROVE  s[i] < o
  BY <1>1, <1>2, <1>3
<1>4. QED
  BY <1>2, <1>3 DEF Complete

\* An answer to a GETBULK leaves the rows good, and complete if it ends the walk.
LEMMA BulkStay ==
  ASSUME WalkInv, ~rogue, waiting, phase = "bulk", NEW d \in inbox, Matches(d), TakeBulk(d)
  PROVE  Good(out') /\ (phase' = "idle" => Complete(out'))
<1>1. TypeOK /\ Good(out) /\ d.rows \in Seq(Values) /\ Len(out) \in Nat /\ limit \in Nat
  BY LenProperties DEF WalkInv, StayInv, RowsWereThere, Caught, Good, RowsInv, TypeInv,
     TypeOK, Datagram
<1>2. CASE d.status = "tooBig" /\ Batch > 1
  BY <1>1, <1>2 DEF TakeBulk, GoOn
<1>3. CASE ~(d.status = "tooBig" /\ Batch > 1) /\ (d.status # "ok" \/ d.rows = <<>>)
  BY <1>3, NoRowsGood DEF TakeBulk, Fallback
<1>4. CASE ~(d.status = "tooBig" /\ Batch > 1) /\ ~(d.status # "ok" \/ d.rows = <<>>)
  <2>1. PICK k \in 0..Len(d.rows) :
           /\ Takes(d.rows, k)
           /\ out' = out \o SubSeq(d.rows, 1, k)
           /\ IF k < Len(d.rows) \/ Len(out) + k = limit THEN Finish
              ELSE GoOn /\ UNCHANGED reps
    BY <1>4 DEF TakeBulk
  <2>2. Led(d.rows, CurOf(out))
    BY <1>1, <1>4, CurType DEF WalkInv, StayInv, Honest, Matches
  <2>3. /\ out' \in Seq(Under) /\ Extended(out, d.rows, k, out')
        /\ k = 0 \/ Len(out) + k <= limit
    BY <1>1, <2>1, TakenRows
  <2>4. \A i \in 1..k : d.rows[i] \in Column
    BY <2>1 DEF Takes, Fits
  <2>5. /\ Good(out')
        /\ k < Len(d.rows) /\ d.rows[k + 1] \notin Column =>
              \A p \in always \cap Column : p \in RowSet(out')
    BY <1>1, <2>2, <2>3, <2>4, LedRows DEF Good, TypeOK
  <2>6. Len(d.rows) \in Nat /\ k \in Nat /\ Len(out') = Len(out) + k /\ Len(out) < limit
    BY <1>1, <2>3, LenProperties DEF Extended, WalkInv, RowsInv, TypeInv, Room
  <2>7. ASSUME phase' = "idle" PROVE Complete(out')
    <3>1. k < Len(d.rows) \/ Len(out) + k = limit
      BY <2>1, <2>7 DEF GoOn
    <3>2. CASE Len(out) + k = limit
      BY <1>1, <2>3, <2>5, <2>6, <3>2, GoodAtLimit
    <3>3. CASE Len(out) + k # limit
      <4>1. ~Fits(d.rows, k + 1) /\ k + 1 \in 1..Len(d.rows)
        BY <2>1, <2>6, <3>1, <3>3 DEF Takes
      <4>2. Len(out) + (k + 1) <= limit
        BY <1>1, <2>3, <2>6, <3>3
      <4>3. d.rows[k + 1] > Cur /\ \A j \in 1..((k + 1) - 1) : d.rows[k + 1] > d.rows[j]
        <5>1. d.rows[k + 1] > Cur
          BY <1>1, <2>2, <4>1, CurType DEF Led
        <5>2. ASSUME NEW j \in 1..((k + 1) - 1) PROVE d.rows[k + 1] > d.rows[j]
          <6>1. j \in 1..Len(d.rows) /\ j < k + 1
            BY <2>6, <4>1
          <6>2. d.rows[j] < d.rows[k + 1] /\ d.rows[j] \in Int /\ d.rows[k + 1] \in Int
            BY <1>1, <2>2, <4>1, <6>1, ElementOfSeq, SetFacts DEF Led, Ascending
          <6>3. QED
            BY <6>2
        <5>3. QED
          BY <5>1, <5>2
      <4>4. d.rows[k + 1] \notin Column
        BY <4>1, <4>2, <4>3 DEF Fits
      <4>5. QED
        BY <2>5, <2>6, <3>1, <3>3, <4>4 DEF Complete
    <3>4. QED
      BY <3>2, <3>3
  <2>8. QED
    BY <2>5, <2>7
<1>5. QED
  BY <1>2, <1>3, <1>4

\* So does an answer to a GETNEXT; the walk it ends is complete if none of its
\* answers was a refusal.
LEMMA NextStay ==
  ASSUME WalkInv, ~rogue, waiting, phase = "next", NEW d \in inbox, Matches(d), TakeNext(d)
  PROVE  Good(out') /\ (phase' = "idle" /\ whole' => Complete(out'))
<1>1. /\ TypeOK /\ Good(out) /\ d.rows \in Seq(Values) /\ Len(d.rows) \in Nat
      /\ out \in Seq(Under) /\ Len(out) \in Nat /\ CurOf(out) = Cur
  BY CurType, LenProperties DEF WalkInv, StayInv, RowsWereThere, Caught, Good, RowsInv,
     TypeInv, TypeOK, Datagram
<1>2. whole' => d.status = "ok"
  BY Zenon DEF TakeNext
<1>3. IF d.status = "ok" THEN Led(d.rows, Cur) ELSE d.rows \in {<<>>, <<Cur>>}
  BY DEF WalkInv, StayInv, Honest, Matches
<1>4. ASSUME Led(d.rows, Cur)
      PROVE  /\ d.rows # <<>> /\ 0 \in 0..Len(d.rows) /\ 1 \in 0..Len(d.rows)
             /\ d.rows[1] \in Int /\ d.rows[1] > Cur /\ Cur \in Int /\ Cur >= 0
             /\ d.rows[1] \notin RowSet(out)
  <2>1. d.rows # <<>> /\ Len(d.rows) >= 1
    BY <1>1, <1>4, EmptySeq DEF Led
  <2>2. d.rows[1] \in Int /\ d.rows[1] > Cur
    <3>1. 1 \in 1..Len(d.rows)
      BY <1>1, <2>1
    <3>2. d.rows[1] \in Values
      BY <1>1, <3>1, ElementOfSeq
    <3>3. QED
      BY <1>4, <3>1, <3>2, SetFacts DEF Led
  <2>3. Cur \in Int /\ Cur >= 0
    BY <1>1, CurType DEF Under, Base, Column
  <2>4. \A i \in 1..Len(out) : out[i] \in Int /\ out[i] <= Cur
    <3>1. \A i \in 1..Len(out) : out[i] <= Cur
      BY <1>1, CurIsTop DEF Good
    <3>2. \A i \in 1..Len(out) : out[i] \in Under
      BY <1>1, ElementOfSeq
    <3>3. QED
      BY <3>1, <3>2, SetFacts
  <2>5. d.rows[1] \notin RowSet(out)
    BY <2>2, <2>3, <2>4 DEF RowSet
  <2>6. QED
    BY <1>1, <2>1, <2>2, <2>3, <2>5
<1>5. CASE d.rows = <<>> \/ d.rows[1] \notin Under \ RowSet(out)
  <2>1. out' = out
    BY <1>5 DEF TakeNext
  <2>2. ASSUME whole' PROVE Complete(out')
    <3>1. Led(d.rows, Cur)
      BY <1>2, <1>3, <2>2
    <3>2. d.rows[1] \notin Column
      BY <1>4, <1>5, <3>1, SetFacts
    <3>3. 0 \in 0..Len(d.rows) /\ 0 < Len(d.rows) /\ d.rows[0 + 1] \notin Column
      BY <1>1, <1>4, <3>1, <3>2
    <3>4. Extended(out, d.rows, 0, out)
      BY <1>1 DEF Extended
    <3>5. \A p \in always \cap Column : p \in RowSet(out)
      <4>1. \A i \in 1..0 : d.rows[i] \in Column
        OBVIOUS
      <4>2. QED
        BY <1>1, <3>1, <3>3, <3>4, <4>1, LedRows DEF Good
    <3>6. QED
      BY <2>1, <3>5 DEF Complete
  <2>3. QED
    BY <1>1, <2>1, <2>2
<1>6. CASE ~(d.rows = <<>> \/ d.rows[1] \notin Under \ RowSet(out))
  <2> DEFINE x == d.rows[1]
  <2>1. /\ out' = Append(out, x) /\ x \in Under /\ x \notin RowSet(out)
        /\ IF Len(out) + 1 = limit THEN Finish ELSE GoOn /\ UNCHANGED reps
    BY <1>6 DEF TakeNext
  <2>2. /\ out' \in Seq(Under) /\ Len(out') = Len(out) + 1 /\ out'[Len(out) + 1] = x
        /\ \A i \in 1..Len(out) : out'[i] = out[i]
    <3> HIDE DEF x
    <3>1. QED
      BY <1>1, <2>1, AppendProperties
  <2>3. Extended(out, d.rows, 1, out')
    BY <2>2 DEF Extended
  <2>4. ASSUME Led(d.rows, Cur) PROVE Good(out')
    <3>1. \A i \in 1..1 : d.rows[i] \in Column
      BY <1>4, <2>1, <2>4 DEF Under, Base
    <3>2. QED
      BY <1>1, <1>4, <2>2, <2>3, <2>4, <3>1, LedRows DEF Good
  <2>5. ASSUME ~Led(d.rows, Cur) PROVE Good(out')
    <3>1. d.rows = <<Cur>>
      BY <1>3, <1>6, <2>5
    <3>2. x = Cur /\ Cur \notin RowSet(out)
      BY <2>1, <3>1
    <3>3. out = <<>>
      <4>1. SUFFICES ASSUME out # <<>> PROVE Cur \in RowSet(out)
        BY <3>2
      <4>2. Len(out) \in 1..Len(out) /\ Cur = out[Len(out)]
        BY <1>1, <4>1, EmptySeq DEF Cur
      <4>3. QED
        BY <4>2 DEF RowSet
    <3>4. Len(out') = 1 /\ out'[1] = Base
      BY <2>2, <3>2, <3>3, EmptySeq DEF Cur
    <3>5. Ascending(out') /\ RowSet(out') = {Base} /\ CurOf(out') = 0
      <4>1. out' # <<>>
        BY <2>2, <3>4, EmptySeq
      <4>2. QED
        BY <3>4, <4>1 DEF Ascending, RowSet, CurOf, Base
    <3>6. \A p \in Column : ~(p <= 0)
      BY DEF Column
    <3>7. QED
      BY <3>5, <3>6 DEF Good, CaughtUp
  <2>6. ASSUME phase' = "idle" PROVE Complete(out')
    <3>1. Len(out) + 1 = limit
      BY <2>1, <2>6 DEF GoOn
    <3>2. QED
      BY <1>1, <2>2, <2>4, <2>5, <3>1, GoodAtLimit
  <2>7. QED
    BY <2>4, <2>5, <2>6
<1>7. QED
  BY <1>5, <1>6

\* Steps that leave the walk alone: the agent's rows may change, what stayed
\* shrinks and what ever was grows.
LEMMA SameWalk ==
  ASSUME WalkInv, UNCHANGED <<walk, rogue, whole>>,
         always' \subseteq always, ever \subseteq ever',
         phase # "idle" => always' \subseteq mib' /\ mib' \subseteq ever'
  PROVE  StayInv'
<1>1. UNCHANGED <<phase, waiting, limit, out, rid, inbox, rogue, whole>>
  BY DEF walk
<1>2. Kept' /\ (RowsWereThere' /\ Caught' /\ StableRowsReturned')
  BY <1>1 DEF WalkInv, StayInv, Kept, RowsWereThere, Caught, CaughtUp, CurOf, Ascending,
     RowSet, StableRowsReturned
<1>3. ASSUME NEW s, Led(s, Cur) PROVE Led(s, Cur)'
  BY <1>1, <1>3 DEF Led, RowSet, Ascending, Cur
<1>4. Honest'
  <2>1. Cur' = Cur
    BY <1>1 DEF Cur
  <2>2. SUFFICES ASSUME waiting', ~rogue', NEW d \in inbox', d.rid = rid'
                 PROVE  IF d.status = "ok" THEN Led(d.rows, Cur)'
                        ELSE d.rows \in {<<>>, <<Cur'>>}
    BY DEF Honest
  <2>3. IF d.status = "ok" THEN Led(d.rows, Cur) ELSE d.rows \in {<<>>, <<Cur>>}
    BY <1>1, <2>2 DEF WalkInv, StayInv, Honest
  <2>4. QED
    BY <1>3, <2>1, <2>3
<1>5. QED
  BY <1>2, <1>4 DEF StayInv

\* Steps after which no request waits.
LEMMA GoodStay ==
  ASSUME ~waiting', always' = always, ever' = ever, mib' = mib, limit' = limit,
         rogue' = rogue, Kept, phase # "idle",
         ~rogue => Good(out') /\ (phase' = "idle" /\ whole' => Complete(out'))
  PROVE  StayInv'
<1>1. Kept'
  BY DEF Kept
<1>2. RowsWereThere' /\ Caught'
  BY DEF Good, RowsWereThere, Caught, CaughtUp, CurOf, Ascending, RowSet
<1>3. StableRowsReturned'
  BY DEF Complete, StableRowsReturned, RowSet
<1>4. Honest'
  BY DEF Honest
<1>5. QED
  BY <1>1, <1>2, <1>3, <1>4 DEF StayInv

LEMMA AskHonest ==
  ASSUME WalkInv, phase # "idle", Ask, UNCHANGED <<mib, rogue, phase, limit, out, history>>,
         NEW n, NEW R, R = BulkReplies(Cur, n, rid') \/ R = NextReplies(Cur, rid'),
         Deliver(inbox, R) \/ Deliver({}, R)
  PROVE  StayInv'
<1>1. TypeOK /\ Kept
  BY DEF WalkInv, RowsInv, TypeInv, StayInv
<1>2. UNCHANGED <<always, ever, whole>>
  BY DEF history
<1>3. RowsWereThere' /\ Kept' /\ Caught' /\ StableRowsReturned'
  BY <1>2 DEF WalkInv, StayInv, Kept, RowsWereThere, Caught, CaughtUp, CurOf, Ascending,
     RowSet, StableRowsReturned
<1>4. Honest'
  <2>1. Cur' = Cur /\ \A s : Led(s, Cur)' = Led(s, Cur)
    BY <1>2 DEF Cur, Led, RowSet, Ascending
  <2>2. SUFFICES ASSUME ~rogue', NEW d \in inbox', d.rid = rid'
                 PROVE  IF d.status = "ok" THEN Led(d.rows, Cur)'
                        ELSE d.rows \in {<<>>, <<Cur'>>}
    BY DEF Honest
  <2>3. d \in R
    BY <1>1, <2>2, AskMatches
  <2>4. IF d.status = "ok" THEN Led(d.rows, Cur) ELSE d.rows \in {<<>>, <<Cur>>}
    BY <1>1, <2>2, <2>3, RepliesHonest
  <2>5. QED
    BY <2>1, <2>4
<1>5. QED
  BY <1>3, <1>4 DEF StayInv

LEMMA StayStep == WalkInv /\ [Next]_vars => StayInv'
<1> SUFFICES ASSUME WalkInv, [Next]_vars PROVE StayInv'
  OBVIOUS
<1>1. TypeOK /\ Busy /\ RowsWereThere /\ Kept /\ Caught /\ StableRowsReturned
  BY DEF WalkInv, RowsInv, TypeInv, StayInv
<1>2. CASE ChangeMib
  <2>1. CASE phase = "idle"
    BY <1>2, <2>1, SameWalk DEF ChangeMib, history
  <2>2. CASE phase # "idle"
    <3>1. /\ always' = always \cap mib' /\ ever' = ever \cup mib'
          /\ UNCHANGED <<walk, rogue, whole>>
      BY <1>2, <2>2 DEF ChangeMib
    <3>2. QED
      BY <3>1, SameWalk
  <2>3. QED
    BY <2>1, <2>2
<1>3. CASE Expire \/ UNCHANGED vars
  <2>1. UNCHANGED <<walk, rogue, mib, always, ever, whole>>
    BY <1>3 DEF Expire, vars, history
  <2>2. QED
    BY <1>1, <2>1, SameWalk DEF Kept
<1>4. CASE StartWalk
  <2>1. out' = <<>> /\ always' = mib /\ ever' = mib /\ mib' = mib /\ phase' # "idle"
    BY <1>4 DEF StartWalk
  <2>2. ~waiting'
    BY <1>1, <1>4 DEF StartWalk, Busy
  <2>3. Len(out') = 0 /\ CurOf(out') = 0
    BY <2>1, EmptySeq DEF CurOf, Base
  <2>4. RowSet(out)' = {} /\ Ascending(out)'
    BY <2>3 DEF RowSet, Ascending
  <2>5. \A p \in Column : ~(p <= 0)
    BY DEF Column
  <2>6. RowsWereThere' /\ Caught'
    BY <2>3, <2>4, <2>5 DEF RowsWereThere, Caught, CaughtUp, CurOf
  <2>7. Kept' /\ Honest' /\ StableRowsReturned'
    BY <2>1, <2>2 DEF Kept, Honest, StableRowsReturned
  <2>8. QED
    BY <2>6, <2>7 DEF StayInv
<1>5. CASE AskBulk
  BY <1>5, AskHonest DEF AskBulk
<1>6. CASE AskNext
  BY <1>6, AskHonest DEF AskNext
<1>7. CASE Receive
  <2>1. PICK d \in inbox : Matches(d) /\ IF phase = "bulk" THEN TakeBulk(d) ELSE TakeNext(d)
    BY <1>7 DEF Receive
  <2>2. /\ ~waiting' /\ waiting /\ UNCHANGED <<mib, rogue, limit, always, ever>>
        /\ phase \in {"bulk", "next"}
    BY <1>1, <1>7 DEF Receive, Busy, TypeOK
  <2>3. ~rogue => Good(out') /\ (phase' = "idle" /\ whole' => Complete(out'))
    BY <2>1, <2>2, BulkStay, NextStay
  <2>4. QED
    BY <1>1, <2>2, <2>3, GoodStay
<1>8. CASE Timeout
  <2>1. /\ ~waiting' /\ phase # "idle" /\ UNCHANGED <<mib, rogue, limit, always, ever>>
    BY <1>1, <1>8 DEF Timeout, Busy
  <2>2. CASE Fallback
    BY <1>1, <2>1, <2>2, NoRowsGood, GoodStay DEF Fallback
  <2>3. CASE out' = out /\ whole' = FALSE
    BY <1>1, <2>1, <2>3, GoodStay DEF Good, RowsWereThere, Caught
  <2>4. QED
    BY <1>8, <2>2, <2>3 DEF Timeout
<1>9. QED
  BY <1>2, <1>3, <1>4, <1>5, <1>6, <1>7, <1>8 DEF Next

LEMMA WalkInit == Init => WalkInv
<1> SUFFICES ASSUME Init PROVE WalkInv
  OBVIOUS
<1>1. RowsInv /\ out = <<>> /\ ~waiting /\ phase = "idle" /\ whole = FALSE
  BY RowsInit DEF Init
<1>2. RowsWereThere /\ Caught
  BY <1>1, NoRowsGood DEF Good, RowsWereThere, Caught
<1>3. QED
  BY <1>1, <1>2 DEF WalkInv, StayInv, Kept, Honest, StableRowsReturned

LEMMA WalkStep == WalkInv /\ [Next]_vars => WalkInv'
BY RowsStep, StayStep DEF WalkInv

\* An agent that answers by the protocol has only rows returned that it had
\* while the walk was under way, in their order, or the base OID it refused.
THEOREM RowsWereThereTheorem == Spec => []RowsWereThere
<1>1. WalkInv => RowsWereThere
  BY DEF WalkInv, StayInv
<1>2. QED
  BY <1>1, WalkInit, WalkStep, PTL DEF Spec

\* A walk without a lost or refused GETNEXT returns every row that stayed,
\* whatever the batch sizes, late and doubled answers and other rows do.
THEOREM StableRowsTheorem == Spec => []StableRowsReturned
<1>1. WalkInv => StableRowsReturned
  BY DEF WalkInv, StayInv
<1>2. QED
  BY <1>1, WalkInit, WalkStep, PTL DEF Spec

\* Of any agent and for columns, batches and limits of any size, a walk makes up
\* no rows (nms/snmp.py:448-548).
THEOREM HonestTheorem == Spec => []RowsAreHonest
<1>1. RowsOnce /\ RowsWereThere => RowsAreHonest
  BY DEF RowsAreHonest
<1>2. QED
  BY <1>1, RowsOnceTheorem, RowsWereThereTheorem, PTL
=============================================================================
