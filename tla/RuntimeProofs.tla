--------------------------- MODULE RuntimeProofs ---------------------------
(***************************************************************************)
(* The machinery under the tasks, for any streams, limits and bounds: the  *)
(* events of a task and the streams that show them, and the processes of a *)
(* run; and the scheduler for any number of slots and submits, where IInv  *)
(* is inductive and the properties are its conjuncts.                      *)
(***************************************************************************)
EXTENDS MCRuntime, FiniteSetTheorems, SequenceTheorems, TLAPS

USE RuntimeAssumption

---------------------------------------------------------------------------
(* Three sequences in a row: what was sent, what is left, what waits       *)

\* An element goes from the front of one sequence to the end of another ...
LEMMA MoveOne ==
    ASSUME NEW S, NEW a \in Seq(S), NEW b \in Seq(S), b # <<>>
    PROVE  /\ Append(a, Head(b)) \in Seq(S) /\ Head(b) \in S /\ Tail(b) \in Seq(S)
           /\ Append(a, Head(b)) \o Tail(b) = a \o b
<1>1. Head(b) \in S /\ Tail(b) \in Seq(S) /\ b = <<Head(b)>> \o Tail(b) /\ <<Head(b)>> \in Seq(S)
  <2>1. /\ Head(b) \in S /\ Tail(b) \in Seq(S) /\ Len(Tail(b)) = Len(b) - 1
        /\ \A i \in 1..Len(Tail(b)) : Tail(b)[i] = b[i + 1]
    BY HeadTailProperties
  <2>2. Len(b) \in Nat \ {0} /\ <<Head(b)>> \in Seq(S) /\ Len(<<Head(b)>>) = 1 /\ Head(b) = b[1]
    BY <2>1, EmptySeq
  <2>3. /\ <<Head(b)>> \o Tail(b) \in Seq(S) /\ Len(<<Head(b)>> \o Tail(b)) = Len(b)
        /\ \A i \in 1..Len(b) : (<<Head(b)>> \o Tail(b))[i] = b[i]
    BY <2>1, <2>2, ConcatProperties
  <2>4. <<Head(b)>> \o Tail(b) = b
    BY <2>3, SeqEqual
  <2> QED BY <2>1, <2>2, <2>4
<1>2. Append(a, Head(b)) = a \o <<Head(b)>> /\ Append(a, Head(b)) \in Seq(S)
  BY <1>1, AppendIsConcat, AppendProperties
<1>3. (a \o <<Head(b)>>) \o Tail(b) = a \o (<<Head(b)>> \o Tail(b))
  BY <1>1, ConcatAssociative
<1> QED BY <1>1, <1>2, <1>3

\* ... also when an empty one stands between them.
LEMMA MoveOver ==
    ASSUME NEW S, NEW a \in Seq(S), NEW c \in Seq(S), c # <<>>
    PROVE  /\ Append(a, Head(c)) \in Seq(S) /\ Head(c) \in S /\ Tail(c) \in Seq(S)
           /\ Append(a, Head(c)) \o <<>> \o Tail(c) = a \o <<>> \o c
<1>1. Append(a, Head(c)) \in Seq(S) /\ Append(a, Head(c)) \o Tail(c) = a \o c
  BY MoveOne
<1>2. Append(a, Head(c)) \o <<>> = Append(a, Head(c)) /\ a \o <<>> = a
  BY <1>1, ConcatEmptySeq
<1> QED BY <1>1, <1>2, MoveOne

\* What is added at the end of the third is added at the end of all.
LEMMA AddThird ==
    ASSUME NEW S, NEW a \in Seq(S), NEW b \in Seq(S), NEW c \in Seq(S), NEW e \in S
    PROVE  a \o b \o Append(c, e) = Append(a \o b \o c, e)
<1>1. /\ a \o b \in Seq(S) /\ (a \o b) \o c \in Seq(S) /\ <<e>> \in Seq(S)
  BY ConcatProperties
<1>2. Append(c, e) = c \o <<e>> /\ Append((a \o b) \o c, e) = ((a \o b) \o c) \o <<e>>
  BY <1>1, AppendIsConcat
<1>3. ((a \o b) \o c) \o <<e>> = (a \o b) \o (c \o <<e>>)
  BY <1>1, ConcatAssociative
<1> QED BY <1>2, <1>3

---------------------------------------------------------------------------
(* EventBus: the invariant                                                 *)

Min2(a, b) == IF a < b THEN a ELSE b

\* The history is the latest of the events published.
HistoryInv ==
    /\ Len(history) = Min2(published, HistoryMax)
    /\ \A i \in 1..Len(history) : history[i].id = published - Len(history) + i

Ordered(s) == \A i, j \in 1..Len(s) : i < j => s[i].id < s[j].id
UpToNow(s) == \A i \in 1..Len(s) : s[i].id <= published
Complete(s) == /\ Len(s) >= Min2(published, HistoryMax)
               /\ \A i \in 1..Len(s) : s[i].id = published - Len(s) + i

\* What a stream shows is in order; while it is registered also not ahead of
\* what is published, and complete if it lost nothing.
StreamInv(r) ==
    /\ Ordered(B!Shown(r))
    /\ r.stage = "unused" => r.sent = <<>> /\ r.queue = <<>> /\ ~r.lost
    /\ B!Registered(r) => UpToNow(B!Shown(r)) /\ (~r.lost => Complete(B!Shown(r)))

\* An event that closes streams is about an execution that is over.
Ends(s) == \E i \in 1..Len(s) : s[i].s \in B!STREAM_END
EndInv ==
    /\ Ends(history) => B!Over
    /\ \A x \in Stream : B!Registered(stream[x]) /\ (Ends(stream[x].rest) \/ Ends(stream[x].queue)) => B!Over
    /\ B!EndedMeansOver

BusInv == B!TypeOK /\ HistoryInv /\ (\A x \in Stream : StreamInv(stream[x])) /\ EndInv

\* The three parts of a stream together.
LEMMA ShownType ==
    ASSUME NEW r \in B!StreamState
    PROVE  /\ r.sent \in Seq(B!Event) /\ r.rest \in Seq(B!Event) /\ r.queue \in Seq(B!Event)
           /\ B!Shown(r) \in Seq(B!Event)
           /\ B!Shown(r) = r.sent \o r.rest \o r.queue
<1>1. r.sent \in Seq(B!Event) /\ r.rest \in Seq(B!Event) /\ r.queue \in Seq(B!Event)
  BY DEF B!StreamState
<1>2. r.sent \o r.rest \in Seq(B!Event)
  BY <1>1, ConcatProperties
<1>3. (r.sent \o r.rest) \o r.queue \in Seq(B!Event)
  BY <1>1, <1>2, ConcatProperties
<1> QED BY <1>1, <1>3 DEF B!Shown

LEMMA BusInit == B!Init => BusInv
<1> SUFFICES ASSUME B!Init PROVE BusInv
  OBVIOUS
<1>1. <<>> \in Seq(B!Event) /\ Len(<<>>) = 0 /\ <<>> \o <<>> = <<>>
  BY EmptySeq, ConcatEmptySeq
<1>2. \A x \in Stream : /\ stream[x] \in B!StreamState /\ B!Shown(stream[x]) = <<>>
                        /\ stream[x].stage = "unused" /\ ~stream[x].lost
                        /\ stream[x].sent = <<>> /\ stream[x].queue = <<>> /\ stream[x].rest = <<>>
  BY <1>1 DEF B!Init, B!StreamState, B!Shown
<1>3. B!TypeOK
  BY <1>1, <1>2 DEF B!Init, B!TypeOK, B!Status
<1>4. HistoryInv
  BY <1>1 DEF B!Init, HistoryInv, Min2
<1>5. \A x \in Stream : StreamInv(stream[x])
  BY <1>1, <1>2 DEF StreamInv, Ordered, B!Registered
<1>6. EndInv
  BY <1>1, <1>2 DEF B!Init, EndInv, Ends, B!EndedMeansOver, B!Registered
<1> QED BY <1>3, <1>4, <1>5, <1>6 DEF BusInv

---------------------------------------------------------------------------
(* Publishing                                                              *)

\* The history after an event has been added and the oldest one dropped.
LEMMA TrimEffect ==
    ASSUME BusInv, NEW e \in B!Event, e.id = published + 1
    PROVE  LET h == B!Trim(Append(history, e)) IN
           /\ h \in Seq(B!Event) /\ Len(h) <= HistoryMax
           /\ Len(h) = Min2(published + 1, HistoryMax)
           /\ \A i \in 1..Len(h) : h[i].id = published + 1 - Len(h) + i
           /\ Ends(h) => Ends(history) \/ e.s \in B!STREAM_END
<1> DEFINE g == Append(history, e)
           h == B!Trim(g)
           k == Len(g) - HistoryMax
<1>1. /\ published \in Nat /\ history \in Seq(B!Event) /\ Len(history) \in Nat
      /\ Len(history) = Min2(published, HistoryMax)
      /\ \A i \in 1..Len(history) : history[i].id = published - Len(history) + i
  BY DEF BusInv, B!TypeOK, HistoryInv
<1>2. /\ g \in Seq(B!Event) /\ Len(g) = Len(history) + 1
      /\ \A i \in 1..Len(history) : g[i] = history[i]
      /\ g[Len(history) + 1] = e
  BY <1>1, AppendProperties
<1>3. \A i \in 1..Len(g) : g[i].id = published + 1 - Len(g) + i
  BY <1>1, <1>2
<1>4. Ends(g) => Ends(history) \/ e.s \in B!STREAM_END
  BY <1>1, <1>2 DEF Ends
<1>5. CASE Len(g) <= HistoryMax
  <2>1. h = g
    BY <1>1, <1>2, <1>5 DEF B!Trim
  <2> QED BY <1>1, <1>2, <1>3, <1>4, <1>5, <2>1 DEF Min2
<1>6. CASE Len(g) > HistoryMax
  <2>1. h = SubSeq(g, k + 1, Len(g)) /\ Len(history) = HistoryMax /\ k = 1
    BY <1>1, <1>2, <1>6 DEF B!Trim, Min2
  <2>2. \A i \in k + 1 .. Len(g) : g[i] \in B!Event
    BY <1>1, <1>2, <2>1, ElementOfSeq
  <2>3. /\ h \in Seq(B!Event) /\ Len(h) = HistoryMax
        /\ \A i \in 1..HistoryMax : h[i] = g[k + i]
    BY <1>1, <1>2, <2>1, <2>2, SubSeqProperties
  <2>4. Ends(h) => Ends(g)
    BY <1>2, <2>1, <2>3 DEF Ends
  <2>5. Len(h) = Min2(published + 1, HistoryMax)
    <3>1. Len(h) = HistoryMax /\ HistoryMax = Min2(published, HistoryMax)
      BY <1>1, <2>1, <2>3
    <3> HIDE DEF h
    <3> QED BY <1>1, <3>1 DEF Min2
  <2>6. \A i \in 1..Len(h) : h[i].id = published + 1 - Len(h) + i
    <3> SUFFICES ASSUME NEW i \in 1..HistoryMax PROVE h[i].id = published + 1 - HistoryMax + i
      BY <2>3
    <3>1. k + i \in 1..Len(g) /\ k + i = i + 1
      BY <1>2, <2>1
    <3>2. g[k + i].id = published + 1 - Len(g) + (k + i)
      BY <1>3, <3>1
    <3> QED BY <1>1, <1>2, <2>1, <2>3, <3>1, <3>2
  <2> QED BY <1>4, <2>3, <2>4, <2>5, <2>6
<1> QED BY <1>1, <1>2, <1>5, <1>6

\* An event with the next id keeps a sequence of events in order and complete.
LEMMA AppendEvent ==
    ASSUME NEW s \in Seq(B!Event), NEW e \in B!Event
    PROVE  /\ Append(s, e) \in Seq(B!Event) /\ Len(s) \in Nat /\ Len(Append(s, e)) = Len(s) + 1
           /\ \A i \in 1..Len(s) : Append(s, e)[i] = s[i] /\ s[i].id \in Nat
           /\ Append(s, e)[Len(s) + 1] = e
           /\ Ends(Append(s, e)) => Ends(s) \/ e.s \in B!STREAM_END
<1>1. /\ Append(s, e) \in Seq(B!Event) /\ Len(s) \in Nat /\ Len(Append(s, e)) = Len(s) + 1
      /\ \A i \in 1..Len(s) : Append(s, e)[i] = s[i]
      /\ Append(s, e)[Len(s) + 1] = e
  BY AppendProperties, LenProperties
<1>2. \A i \in 1..Len(s) : s[i].id \in Nat
  <2>1. \A i \in 1..Len(s) : s[i] \in B!Event
    BY ElementOfSeq
  <2> QED BY <2>1 DEF B!Event
<1> QED BY <1>1, <1>2 DEF Ends

LEMMA AppendOrdered ==
    ASSUME NEW p \in Nat, NEW s \in Seq(B!Event), NEW e \in B!Event, e.id = p + 1,
           Ordered(s), \A i \in 1..Len(s) : s[i].id <= p
    PROVE  /\ Ordered(Append(s, e))
           /\ \A i \in 1..Len(Append(s, e)) : Append(s, e)[i].id <= p + 1
<1> DEFINE t == Append(s, e)
<1>1. /\ Len(s) \in Nat /\ Len(t) = Len(s) + 1
      /\ \A i \in 1..Len(s) : t[i] = s[i] /\ s[i].id \in Nat
      /\ t[Len(s) + 1] = e
  BY AppendEvent
<1> HIDE DEF t
<1>2. \A i \in 1..Len(t) : t[i].id <= p + 1
  BY <1>1
<1>3. ASSUME NEW i \in 1..Len(t), NEW j \in 1..Len(t), i < j PROVE t[i].id < t[j].id
  <2>1. i \in 1..Len(s) /\ t[i].id \in Nat /\ t[i].id <= p
    BY <1>1, <1>3
  <2>2. CASE j = Len(s) + 1
    BY <1>1, <2>1, <2>2
  <2>3. CASE j # Len(s) + 1
    <3>1. j \in 1..Len(s)
      BY <1>1, <2>3
    <3> QED BY <1>1, <1>3, <2>1, <3>1 DEF Ordered
  <2> QED BY <2>2, <2>3
<1>4. Ordered(t)
  BY <1>3 DEF Ordered
<1> QED BY <1>2, <1>4 DEF t

LEMMA AppendComplete ==
    ASSUME NEW p \in Nat, NEW s \in Seq(B!Event), NEW e \in B!Event, e.id = p + 1,
           Len(s) >= Min2(p, HistoryMax), \A i \in 1..Len(s) : s[i].id = p - Len(s) + i
    PROVE  /\ Len(Append(s, e)) >= Min2(p + 1, HistoryMax)
           /\ \A i \in 1..Len(Append(s, e)) :
                Append(s, e)[i].id = p + 1 - Len(Append(s, e)) + i
<1> DEFINE t == Append(s, e)
<1>1. /\ Len(s) \in Nat /\ Len(t) = Len(s) + 1
      /\ \A i \in 1..Len(s) : t[i] = s[i] /\ s[i].id \in Nat
      /\ t[Len(s) + 1] = e
  BY AppendEvent
<1> HIDE DEF t
<1>2. Len(t) >= Min2(p + 1, HistoryMax)
  BY <1>1 DEF Min2
<1>3. ASSUME NEW i \in 1..Len(t) PROVE t[i].id = p + 1 - Len(t) + i
  <2>1. CASE i = Len(s) + 1
    BY <1>1, <2>1
  <2>2. CASE i # Len(s) + 1
    <3>1. i \in 1..Len(s)
      BY <1>1, <2>2
    <3> QED BY <1>1, <3>1
  <2> QED BY <2>1, <2>2
<1> QED BY <1>2, <1>3 DEF t

\* A registered stream gets the event or loses it.
LEMMA DeliveredEffect ==
    ASSUME BusInv, NEW x \in Stream, B!Registered(stream[x]),
           NEW e \in B!Event, e.id = published + 1,
           NEW q, q = B!Delivered(stream[x], e)
    PROVE  /\ q \in B!StreamState /\ Len(q.rest) <= HistoryMax /\ Len(q.queue) <= QueueMax
           /\ q.stage = stream[x].stage
           /\ Ordered(B!Shown(q))
           /\ \A i \in 1..Len(B!Shown(q)) : B!Shown(q)[i].id <= published + 1
           /\ ~q.lost => /\ Len(B!Shown(q)) >= Min2(published + 1, HistoryMax)
                         /\ \A i \in 1..Len(B!Shown(q)) :
                              B!Shown(q)[i].id = published + 1 - Len(B!Shown(q)) + i
           /\ Ends(q.rest) => Ends(stream[x].rest)
           /\ Ends(q.queue) => Ends(stream[x].queue) \/ e.s \in B!STREAM_END
<1> DEFINE r == stream[x]
           s == B!Shown(r)
<1>1. /\ r \in B!StreamState /\ published \in Nat
      /\ Len(r.rest) <= HistoryMax /\ Len(r.queue) <= QueueMax
  BY DEF BusInv, B!TypeOK
<1>2. Ordered(s) /\ UpToNow(s) /\ (~r.lost => Complete(s))
  BY DEF BusInv, StreamInv
<1>3. /\ r.sent \in Seq(B!Event) /\ r.rest \in Seq(B!Event) /\ r.queue \in Seq(B!Event)
      /\ s \in Seq(B!Event) /\ s = r.sent \o r.rest \o r.queue
  BY <1>1, ShownType
<1>4. q = IF Len(r.queue) < QueueMax THEN [r EXCEPT !.queue = Append(r.queue, e)]
                                     ELSE [r EXCEPT !.lost = TRUE]
  BY DEF B!Delivered
<1> HIDE DEF r, s
<1>5. CASE Len(r.queue) < QueueMax
  <2>1. /\ Append(r.queue, e) \in Seq(B!Event) /\ Len(r.queue) \in Nat
        /\ Len(Append(r.queue, e)) = Len(r.queue) + 1
        /\ Ends(Append(r.queue, e)) => Ends(r.queue) \/ e.s \in B!STREAM_END
    BY <1>3, AppendEvent
  <2>2. /\ q \in B!StreamState /\ q.queue = Append(r.queue, e) /\ q.rest = r.rest
        /\ q.sent = r.sent /\ q.stage = r.stage /\ q.lost = r.lost
    BY <1>1, <1>4, <1>5, <2>1 DEF B!StreamState
  <2>3. B!Shown(q) = Append(s, e)
    <3>1. r.sent \o r.rest \o Append(r.queue, e) = Append(r.sent \o r.rest \o r.queue, e)
      <4>1. \A a, b, c \in Seq(B!Event) : a \o b \o Append(c, e) = Append(a \o b \o c, e)
        BY AddThird
      <4> QED BY <1>3, <4>1
    <3> QED BY <1>3, <2>2, <3>1 DEF B!Shown
  <2>4. /\ Ordered(Append(s, e))
        /\ \A i \in 1..Len(Append(s, e)) : Append(s, e)[i].id <= published + 1
    BY <1>1, <1>2, <1>3, AppendOrdered DEF UpToNow
  <2>5. ~r.lost => /\ Len(Append(s, e)) >= Min2(published + 1, HistoryMax)
                   /\ \A i \in 1..Len(Append(s, e)) :
                        Append(s, e)[i].id = published + 1 - Len(Append(s, e)) + i
    BY <1>1, <1>2, <1>3, AppendComplete DEF Complete
  <2>6. Len(q.queue) <= QueueMax
    BY <1>5, <2>1, <2>2
  <2> QED BY <1>1, <2>1, <2>2, <2>3, <2>4, <2>5, <2>6 DEF r
<1>6. CASE ~(Len(r.queue) < QueueMax)
  <2>1. /\ q \in B!StreamState /\ q.stage = r.stage /\ q.lost
        /\ q.sent = r.sent /\ q.rest = r.rest /\ q.queue = r.queue
    BY <1>1, <1>4, <1>6 DEF B!StreamState
  <2>2. B!Shown(q) = s
    BY <1>3, <2>1 DEF B!Shown
  <2>3. \A i \in 1..Len(s) : s[i].id <= published + 1
    <3>1. \A i \in 1..Len(s) : s[i].id \in Nat
      BY <1>3, AppendEvent
    <3> QED BY <1>1, <1>2, <3>1 DEF UpToNow
  <2> QED BY <1>1, <1>2, <2>1, <2>2, <2>3 DEF r
<1> QED BY <1>5, <1>6

LEMMA PublishInv ==
    ASSUME BusInv, NEW s \in B!Status \cup {"agent"}, B!Publish(s), restarts' \in Nat,
           status' \in B!Status, B!Over => B!Over', s \in B!STREAM_END => B!Over'
    PROVE  BusInv'
<1> DEFINE e == [id |-> published + 1, s |-> s]
<1>1. /\ published \in Nat /\ published' = published + 1
      /\ history' = B!Trim(Append(history, e))
      /\ stream' = [x \in Stream |-> IF B!Registered(stream[x]) THEN B!Delivered(stream[x], e)
                                                                ELSE stream[x]]
      /\ e \in B!Event /\ e.id = published + 1 /\ e.s = s
  BY DEF B!Publish, BusInv, B!TypeOK, B!Event
<1> HIDE DEF e
<1>2. /\ history' \in Seq(B!Event) /\ Len(history') <= HistoryMax /\ HistoryInv'
      /\ Ends(history') => B!Over'
  <2>1. Ends(history') => Ends(history) \/ s \in B!STREAM_END
    BY <1>1, TrimEffect
  <2>2. /\ history' \in Seq(B!Event) /\ Len(history') <= HistoryMax
        /\ Len(history') = Min2(published + 1, HistoryMax)
        /\ \A i \in 1..Len(history') : history'[i].id = published + 1 - Len(history') + i
    BY <1>1, TrimEffect
  <2>3. HistoryInv'
    BY <1>1, <2>2 DEF HistoryInv
  <2> QED BY <2>1, <2>2, <2>3 DEF BusInv, EndInv
<1>3. ASSUME NEW x \in Stream
      PROVE  /\ stream'[x] \in B!StreamState
             /\ Len(stream'[x].rest) <= HistoryMax /\ Len(stream'[x].queue) <= QueueMax
             /\ StreamInv(stream[x])'
             /\ B!Registered(stream'[x]) /\ (Ends(stream'[x].rest) \/ Ends(stream'[x].queue)) => B!Over'
             /\ stream'[x].stage = "ended" => B!Over'
  <2>1. CASE B!Registered(stream[x])
    <3>1. stream'[x] = B!Delivered(stream[x], e)
      BY <1>1, <2>1
    <3>2. stream[x].stage \notin {"ended", "unused"}
      BY <2>1 DEF B!Registered
    <3>3. /\ stream'[x] \in B!StreamState
          /\ Len(stream'[x].rest) <= HistoryMax /\ Len(stream'[x].queue) <= QueueMax
          /\ stream'[x].stage = stream[x].stage
      BY <1>1, <2>1, <3>1, DeliveredEffect
    <3>4. StreamInv(stream[x])'
      <4> DEFINE t == B!Shown(stream'[x])
      <4>1. /\ Ordered(t) /\ \A i \in 1..Len(t) : t[i].id <= published + 1
            /\ ~stream'[x].lost => /\ Len(t) >= Min2(published + 1, HistoryMax)
                                   /\ \A i \in 1..Len(t) : t[i].id = published + 1 - Len(t) + i
        <5>1. \A q : q = B!Delivered(stream[x], e) =>
                /\ Ordered(B!Shown(q)) /\ \A i \in 1..Len(B!Shown(q)) : B!Shown(q)[i].id <= published + 1
                /\ ~q.lost => /\ Len(B!Shown(q)) >= Min2(published + 1, HistoryMax)
                              /\ \A i \in 1..Len(B!Shown(q)) :
                                   B!Shown(q)[i].id = published + 1 - Len(B!Shown(q)) + i
          BY <1>1, <2>1, DeliveredEffect
        <5> QED BY <3>1, <5>1
      <4>2. t = B!Shown(stream[x])'
        BY DEF B!Shown
      <4> HIDE DEF t
      <4>3. /\ Ordered(t) /\ \A i \in 1..Len(t) : t[i].id <= published'
            /\ ~stream'[x].lost => /\ Len(t) >= Min2(published', HistoryMax)
                                   /\ \A i \in 1..Len(t) : t[i].id = published' - Len(t) + i
        BY <1>1, <4>1
      <4> QED BY <3>2, <3>3, <4>2, <4>3 DEF StreamInv, Ordered, UpToNow, Complete
    <3>5. Ends(stream'[x].rest) \/ Ends(stream'[x].queue) => B!Over'
      BY <1>1, <2>1, <3>1, DeliveredEffect DEF BusInv, EndInv
    <3> QED BY <3>2, <3>3, <3>4, <3>5
  <2>2. CASE ~B!Registered(stream[x])
    <3>1. stream'[x] = stream[x]
      BY <1>1, <2>2
    <3> QED BY <2>2, <3>1 DEF BusInv, B!TypeOK, StreamInv, EndInv, B!EndedMeansOver, B!Registered
  <2> QED BY <2>1, <2>2
<1>4. B!TypeOK'
  BY <1>1, <1>2, <1>3 DEF B!TypeOK
<1>5. EndInv'
  BY <1>2, <1>3 DEF EndInv, B!EndedMeansOver
<1> QED BY <1>2, <1>3, <1>4, <1>5 DEF BusInv

---------------------------------------------------------------------------
(* Every step of the events and streams keeps the invariant                *)

\* What the publishing of a status change means for the execution.
LEMMA ChangeStatusInv == ASSUME BusInv, B!ChangeStatus PROVE BusInv'
<1>1. PICK s \in B!Changes[status] : status' = s /\ B!Publish(s)
  BY DEF B!ChangeStatus
<1>2. restarts' \in Nat
  BY DEF B!ChangeStatus, BusInv, B!TypeOK
<1>3. /\ s \in B!Status /\ (B!Over => B!Over') /\ (s \in B!STREAM_END => B!Over')
  <2>1. /\ status \in {"none", "queued", "running", "pending_approval", "review",
                       "done", "conflict", "failed", "cancelled"}
        /\ status' = s
    BY <1>1 DEF BusInv, B!TypeOK, B!Status, B!TERMINAL
  <2>2. CASE status \in {"none", "queued", "running", "pending_approval"}
    BY <1>1, <2>1, <2>2 DEF B!Changes, B!Status, B!TERMINAL, B!STREAM_END, B!Over
  <2>3. CASE status \in {"review", "done", "conflict", "failed", "cancelled"}
    BY <1>1, <2>1, <2>3 DEF B!Changes, B!Status, B!TERMINAL, B!STREAM_END, B!Over
  <2> QED BY <2>1, <2>2, <2>3
<1> QED BY <1>1, <1>2, <1>3, PublishInv

LEMMA AgentSpeaksInv == ASSUME BusInv, B!AgentSpeaks PROVE BusInv'
<1>1. B!Publish("agent") /\ restarts' \in Nat /\ status' \in B!Status /\ (B!Over => B!Over')
  BY DEF B!AgentSpeaks, BusInv, B!TypeOK, B!Over
<1>2. "agent" \notin B!STREAM_END
  BY DEF B!STREAM_END, B!TERMINAL
<1> QED BY <1>1, <1>2, PublishInv

\* A step of one stream.
LEMMA GoesInv ==
    ASSUME BusInv, NEW x \in Stream, NEW r \in B!StreamState, B!Goes(x, r),
           Len(r.rest) <= HistoryMax, Len(r.queue) <= QueueMax, StreamInv(r),
           B!Registered(r) /\ (Ends(r.rest) \/ Ends(r.queue)) => B!Over,
           r.stage = "ended" => B!Over
    PROVE  BusInv'
<1>1. /\ stream \in [Stream -> B!StreamState] /\ stream' = [stream EXCEPT ![x] = r]
      /\ status' = status /\ published' = published /\ history' = history /\ restarts' = restarts
  BY DEF B!Goes, BusInv, B!TypeOK
<1>2. /\ stream' \in [Stream -> B!StreamState]
      /\ \A y \in Stream : stream'[y] = IF y = x THEN r ELSE stream[y]
  BY <1>1
<1>3. B!TypeOK'
  BY <1>1, <1>2 DEF BusInv, B!TypeOK
<1>4. HistoryInv' /\ B!Over' = B!Over
  BY <1>1 DEF BusInv, HistoryInv, B!Over
<1>5. \A y \in Stream : StreamInv(stream[y])'
  BY <1>1, <1>2 DEF BusInv, StreamInv, UpToNow, Complete
<1>6. EndInv'
  BY <1>1, <1>2, <1>4 DEF BusInv, EndInv, B!EndedMeansOver
<1> QED BY <1>3, <1>4, <1>5, <1>6 DEF BusInv

\* A new stream holds the history, which is the latest of what was published.
LEMMA SubscribeInv == ASSUME BusInv, NEW x \in Stream, B!Subscribe(x) PROVE BusInv'
<1> DEFINE r == [stream[x] EXCEPT !.stage = "subscribed", !.rest = history]
<1>1. /\ stream[x] \in B!StreamState /\ stream[x].sent = <<>> /\ stream[x].queue = <<>>
      /\ ~stream[x].lost /\ history \in Seq(B!Event) /\ Len(history) <= HistoryMax
      /\ published \in Nat /\ Len(stream[x].queue) <= QueueMax /\ HistoryInv
      /\ Ends(history) => B!Over
      /\ B!Goes(x, r)
  BY DEF B!Subscribe, BusInv, B!TypeOK, StreamInv, EndInv
<1>2. /\ r \in B!StreamState /\ r.sent = <<>> /\ r.queue = <<>> /\ r.rest = history
      /\ r.stage = "subscribed" /\ ~r.lost
  BY <1>1 DEF B!StreamState
<1> HIDE DEF r
<1>3. B!Shown(r) = history
  BY <1>1, <1>2, ConcatEmptySeq DEF B!Shown
<1>4. Len(history) \in Nat /\ Len(history) <= published
      /\ \A i \in 1..Len(history) : history[i].id = published - Len(history) + i
  BY <1>1 DEF HistoryInv, Min2
<1>5. Ordered(history) /\ UpToNow(history) /\ Complete(history)
  <2>1. UpToNow(history)
    <3> SUFFICES ASSUME NEW i \in 1..Len(history) PROVE history[i].id <= published
      BY DEF UpToNow
    <3> QED BY <1>1, <1>4
  <2>2. Ordered(history)
    <3> SUFFICES ASSUME NEW i \in 1..Len(history), NEW j \in 1..Len(history), i < j
                 PROVE  history[i].id < history[j].id
      BY DEF Ordered
    <3> QED BY <1>1, <1>4
  <2>3. Len(history) >= Min2(published, HistoryMax)
    BY <1>1, <1>4 DEF HistoryInv, Min2
  <2> QED BY <1>4, <2>1, <2>2, <2>3 DEF Complete
<1>6. StreamInv(r)
  BY <1>2, <1>3, <1>5 DEF StreamInv
<1>7. ~Ends(<<>>)
  BY DEF Ends
<1> QED BY <1>1, <1>2, <1>6, <1>7, GoesInv

LEMMA StageInv ==
    ASSUME BusInv, NEW x \in Stream, NEW st \in {"open", "gone", "orphan"},
           stream[x].stage \in {"subscribed", "open"},
           B!Goes(x, [stream[x] EXCEPT !.stage = st])
    PROVE  BusInv'
<1> DEFINE r == [stream[x] EXCEPT !.stage = st]
<1>1. /\ stream[x] \in B!StreamState /\ StreamInv(stream[x]) /\ B!Registered(stream[x])
      /\ Len(stream[x].rest) <= HistoryMax /\ Len(stream[x].queue) <= QueueMax
      /\ Ends(stream[x].rest) \/ Ends(stream[x].queue) => B!Over
  BY DEF BusInv, B!TypeOK, EndInv, B!Registered
<1>2. /\ r \in B!StreamState /\ r.sent = stream[x].sent /\ r.queue = stream[x].queue
      /\ r.rest = stream[x].rest /\ r.stage = st /\ r.lost = stream[x].lost
  BY <1>1 DEF B!StreamState
<1> HIDE DEF r
<1>3. B!Shown(r) = B!Shown(stream[x])
  BY <1>2 DEF B!Shown
<1>4. StreamInv(r)
  BY <1>1, <1>2, <1>3 DEF StreamInv
<1> QED BY <1>1, <1>2, <1>4, GoesInv DEF r

\* An event that is sent was the next one held: what the stream shows is the same.
LEMMA SendInv ==
    ASSUME BusInv, NEW x \in Stream, NEW r \in B!StreamState, NEW e \in B!Event,
           stream[x].stage = "open",
           B!Goes(x, r), r.sent = Append(stream[x].sent, e), r.lost = stream[x].lost,
           r.stage = IF e.s \in B!STREAM_END THEN "ended" ELSE "open",
           Len(r.rest) <= HistoryMax, Len(r.queue) <= QueueMax,
           B!Shown(r) = B!Shown(stream[x]),
           e.s \in B!STREAM_END \/ Ends(r.rest) \/ Ends(r.queue)
              => Ends(stream[x].rest) \/ Ends(stream[x].queue)
    PROVE  BusInv'
<1>1. /\ StreamInv(stream[x]) /\ B!Registered(stream[x])
      /\ Ends(stream[x].rest) \/ Ends(stream[x].queue) => B!Over
  BY DEF BusInv, EndInv, B!Registered
<1>2. StreamInv(r)
  BY <1>1 DEF StreamInv
<1> QED BY <1>1, <1>2, GoesInv

\* Taking the first of a sequence of events.
LEMMA TakeFirst ==
    ASSUME NEW s \in Seq(B!Event), s # <<>>
    PROVE  /\ Head(s) \in B!Event /\ Tail(s) \in Seq(B!Event) /\ Len(Tail(s)) <= Len(s)
           /\ Len(s) \in Nat
           /\ Head(s).s \in B!STREAM_END \/ Ends(Tail(s)) => Ends(s)
<1>1. /\ Head(s) \in B!Event /\ Tail(s) \in Seq(B!Event) /\ Len(Tail(s)) = Len(s) - 1
      /\ Len(s) \in Nat \ {0} /\ Head(s) = s[1]
      /\ \A i \in 1..Len(Tail(s)) : Tail(s)[i] = s[i + 1]
  BY HeadTailProperties, EmptySeq
<1> QED BY <1>1 DEF Ends

LEMMA ReplayInv == ASSUME BusInv, NEW x \in Stream, B!Replay(x) PROVE BusInv'
<1> DEFINE e == Head(stream[x].rest)
           r == B!AfterSending([stream[x] EXCEPT !.rest = Tail(@)], e)
<1>1. /\ stream[x] \in B!StreamState /\ stream[x].stage = "open" /\ stream[x].rest # <<>>
      /\ B!Goes(x, r) /\ Len(stream[x].rest) <= HistoryMax /\ Len(stream[x].queue) <= QueueMax
  BY DEF B!Replay, BusInv, B!TypeOK
<1>2. /\ stream[x].sent \in Seq(B!Event) /\ stream[x].rest \in Seq(B!Event)
      /\ stream[x].queue \in Seq(B!Event)
      /\ B!Shown(stream[x]) = stream[x].sent \o stream[x].rest \o stream[x].queue
  BY <1>1, ShownType
<1>3. /\ e \in B!Event /\ Tail(stream[x].rest) \in Seq(B!Event)
      /\ Len(Tail(stream[x].rest)) <= HistoryMax
      /\ e.s \in B!STREAM_END \/ Ends(Tail(stream[x].rest)) => Ends(stream[x].rest)
  <2>1. Len(Tail(stream[x].rest)) <= Len(stream[x].rest) /\ Len(stream[x].rest) \in Nat
        /\ Len(Tail(stream[x].rest)) \in Nat
    BY <1>1, <1>2, TakeFirst, LenProperties
  <2> QED BY <1>1, <1>2, <2>1, TakeFirst
<1>4. /\ Append(stream[x].sent, e) \in Seq(B!Event)
      /\ Append(stream[x].sent, e) \o Tail(stream[x].rest) = stream[x].sent \o stream[x].rest
  <2>1. \A a, b \in Seq(B!Event) : b # <<>> =>
           /\ Append(a, Head(b)) \in Seq(B!Event)
           /\ Append(a, Head(b)) \o Tail(b) = a \o b
    BY MoveOne
  <2> QED BY <1>1, <1>2, <2>1
<1> HIDE DEF e
<1>5. /\ r \in B!StreamState /\ r.sent = Append(stream[x].sent, e)
      /\ r.rest = Tail(stream[x].rest) /\ r.queue = stream[x].queue /\ r.lost = stream[x].lost
      /\ r.stage = IF e.s \in B!STREAM_END THEN "ended" ELSE "open"
  BY <1>1, <1>3, <1>4 DEF B!AfterSending, B!StreamState
<1> HIDE DEF r
<1>6. B!Shown(r) = B!Shown(stream[x])
  BY <1>2, <1>4, <1>5 DEF B!Shown
<1> QED BY <1>1, <1>3, <1>5, <1>6, SendInv

LEMMA FollowInv == ASSUME BusInv, NEW x \in Stream, B!Follow(x) PROVE BusInv'
<1> DEFINE e == Head(stream[x].queue)
           r == B!AfterSending([stream[x] EXCEPT !.queue = Tail(@)], e)
<1>1. /\ stream[x] \in B!StreamState /\ stream[x].stage = "open" /\ stream[x].rest = <<>>
      /\ stream[x].queue # <<>>
      /\ B!Goes(x, r) /\ Len(stream[x].rest) <= HistoryMax /\ Len(stream[x].queue) <= QueueMax
  BY DEF B!Follow, BusInv, B!TypeOK
<1>2. /\ stream[x].sent \in Seq(B!Event) /\ stream[x].rest \in Seq(B!Event)
      /\ stream[x].queue \in Seq(B!Event)
      /\ B!Shown(stream[x]) = stream[x].sent \o stream[x].rest \o stream[x].queue
  BY <1>1, ShownType
<1>3. /\ e \in B!Event /\ Tail(stream[x].queue) \in Seq(B!Event)
      /\ Len(Tail(stream[x].queue)) <= QueueMax
      /\ e.s \in B!STREAM_END \/ Ends(Tail(stream[x].queue)) => Ends(stream[x].queue)
  <2>1. Len(Tail(stream[x].queue)) <= Len(stream[x].queue) /\ Len(stream[x].queue) \in Nat
        /\ Len(Tail(stream[x].queue)) \in Nat
    BY <1>1, <1>2, TakeFirst, LenProperties
  <2> QED BY <1>1, <1>2, <2>1, TakeFirst
<1>4. /\ Append(stream[x].sent, e) \in Seq(B!Event)
      /\ Append(stream[x].sent, e) \o <<>> \o Tail(stream[x].queue)
            = stream[x].sent \o <<>> \o stream[x].queue
  <2>1. \A a, b \in Seq(B!Event) : b # <<>> =>
           /\ Append(a, Head(b)) \in Seq(B!Event)
           /\ Append(a, Head(b)) \o <<>> \o Tail(b) = a \o <<>> \o b
    BY MoveOver
  <2> QED BY <1>1, <1>2, <2>1
<1> HIDE DEF e
<1>5. /\ r \in B!StreamState /\ r.sent = Append(stream[x].sent, e)
      /\ r.rest = <<>> /\ r.queue = Tail(stream[x].queue) /\ r.lost = stream[x].lost
      /\ r.stage = IF e.s \in B!STREAM_END THEN "ended" ELSE "open"
  BY <1>1, <1>3, <1>4 DEF B!AfterSending, B!StreamState
<1> HIDE DEF r
<1>6. B!Shown(r) = B!Shown(stream[x])
  BY <1>1, <1>2, <1>4, <1>5 DEF B!Shown
<1>7. ~Ends(<<>>)
  BY DEF Ends
<1>8. Len(r.rest) <= HistoryMax
  BY <1>1, <1>5
<1> QED BY <1>1, <1>3, <1>5, <1>6, <1>7, <1>8, SendInv

\* A restart forgets the events and ends every registered stream.
LEMMA RestartInv == ASSUME BusInv, B!Restart PROVE BusInv'
<1>1. /\ restarts' = restarts + 1 /\ published' = 0 /\ history' = <<>>
      /\ status' = IF status = "running" THEN "queued" ELSE status
      /\ stream' = [x \in Stream |-> IF B!Registered(stream[x])
                                     THEN [stream[x] EXCEPT !.stage = "gone"] ELSE stream[x]]
  BY DEF B!Restart
<1>2. <<>> \in Seq(B!Event) /\ Len(<<>>) = 0 /\ ~Ends(<<>>)
  BY EmptySeq DEF Ends
<1>3. status' \in B!Status /\ (B!Over => B!Over')
  BY <1>1 DEF BusInv, B!TypeOK, B!Status, B!Over
<1>4. ASSUME NEW x \in Stream
      PROVE  /\ stream'[x] \in B!StreamState /\ ~B!Registered(stream'[x])
             /\ Len(stream'[x].rest) <= HistoryMax /\ Len(stream'[x].queue) <= QueueMax
             /\ StreamInv(stream'[x])
             /\ stream'[x].stage = "ended" => B!Over'
  <2>1. /\ stream[x] \in B!StreamState /\ StreamInv(stream[x])
        /\ Len(stream[x].rest) <= HistoryMax /\ Len(stream[x].queue) <= QueueMax
        /\ stream[x].stage = "ended" => B!Over
    BY DEF BusInv, B!TypeOK, EndInv, B!EndedMeansOver
  <2>2. CASE B!Registered(stream[x])
    <3>1. stream'[x] = [stream[x] EXCEPT !.stage = "gone"]
      BY <1>1, <2>2
    <3>2. /\ stream'[x] \in B!StreamState /\ stream'[x].stage = "gone"
          /\ stream'[x].sent = stream[x].sent /\ stream'[x].rest = stream[x].rest
          /\ stream'[x].queue = stream[x].queue
      BY <2>1, <3>1 DEF B!StreamState
    <3>3. B!Shown(stream'[x]) = B!Shown(stream[x])
      BY <3>2 DEF B!Shown
    <3> QED BY <2>1, <3>2, <3>3 DEF StreamInv, B!Registered
  <2>3. CASE ~B!Registered(stream[x])
    BY <1>1, <1>3, <2>1, <2>3
  <2> QED BY <2>2, <2>3
<1>5. B!TypeOK'
  BY <1>1, <1>2, <1>3, <1>4 DEF BusInv, B!TypeOK
<1>6. HistoryInv'
  BY <1>1, <1>2 DEF HistoryInv, Min2
<1>7. \A x \in Stream : StreamInv(stream[x])'
  BY <1>4 DEF StreamInv
<1>8. EndInv'
  BY <1>1, <1>2, <1>4 DEF EndInv, B!EndedMeansOver
<1> QED BY <1>5, <1>6, <1>7, <1>8 DEF BusInv

LEMMA BusStep == BusInv /\ [B!Next]_bvars => BusInv'
<1> SUFFICES ASSUME BusInv, [B!Next]_bvars PROVE BusInv'
  OBVIOUS
<1>1. CASE B!ChangeStatus
  BY <1>1, ChangeStatusInv
<1>2. CASE B!AgentSpeaks
  BY <1>2, AgentSpeaksInv
<1>3. ASSUME NEW x \in Stream, B!Subscribe(x) PROVE BusInv'
  BY <1>3, SubscribeInv
<1>4. ASSUME NEW x \in Stream, B!Begin(x) PROVE BusInv'
  BY <1>4, StageInv DEF B!Begin
<1>5. ASSUME NEW x \in Stream, B!Replay(x) PROVE BusInv'
  BY <1>5, ReplayInv
<1>6. ASSUME NEW x \in Stream, B!Follow(x) PROVE BusInv'
  BY <1>6, FollowInv
<1>7. ASSUME NEW x \in Stream, B!Disconnect(x) PROVE BusInv'
  BY <1>7, StageInv DEF B!Disconnect
<1>8. CASE B!Restart
  BY <1>8, RestartInv
<1>9. CASE UNCHANGED bvars
  BY <1>9 DEF bvars, BusInv, B!TypeOK, HistoryInv, StreamInv, UpToNow, Complete, EndInv,
              B!EndedMeansOver, B!Over
<1> QED BY <1>1, <1>2, <1>3, <1>4, <1>5, <1>6, <1>7, <1>8, <1>9 DEF B!Next

---------------------------------------------------------------------------
(* The theorems about the events                                           *)

\* Every variable of the events has its type, and the history and the queues
\* keep their limits (EventBus.history_max, maxsize).
THEOREM EventBusTypes == B!Spec => []B!TypeOK
<1>1. BusInv => B!TypeOK
  BY DEF BusInv
<1> QED BY BusInit, BusStep, <1>1, PTL DEF B!Spec, bvars, B!vars

\* The invariant of a stream says what its two properties say.
LEMMA BusInvSeam == BusInv => SeamExact /\ EndedMeansOver
<1> SUFFICES ASSUME BusInv PROVE SeamExact /\ EndedMeansOver
  OBVIOUS
<1>1. B!ShownInOrder
  BY DEF BusInv, StreamInv, Ordered, B!ShownInOrder
<1>2. B!NothingMissed
  BY DEF BusInv, StreamInv, Complete, Min2, B!NothingMissed
<1> QED BY <1>1, <1>2 DEF BusInv, EndInv, SeamExact, B!SeamExact, EndedMeansOver

\* However publishing, subscribing, replaying and restarting interleave, a stream
\* of stream_task shows each event once and in order, and leaves none out between
\* the history it replays and its queue unless the queue overflowed.
THEOREM StreamsSeamExact == B!Spec => []SeamExact
BY BusInit, BusStep, BusInvSeam, PTL DEF B!Spec, bvars, B!vars

\* stream_task closes a stream only when the task's execution is over, also when
\* what closes it is an old event out of the replayed history.
THEOREM StreamsEndWithExecution == B!Spec => []EndedMeansOver
BY BusInit, BusStep, BusInvSeam, PTL DEF B!Spec, bvars, B!vars

---------------------------------------------------------------------------
(* Executor: who is killed                                                 *)

\* The safety half of TreeDies (_kill, _escalate): whatever a _kill has seen is dead,
\* or still to be signalled, or in the list of an escalation that sleeps.
Pending == snap \cup UNION due
KillsGoOn == doomed \cap alive \subseteq Pending

\* Executor.run leaves its read loop only with a dead agent or with a kill under way.
AgentNotLeft == reading # "reading" => X!agent \notin alive \/ X!agent \in Pending

\* Pids are not used again, so a fork is nobody a _kill has seen; a kill that follows
\* another one begins where that one still has its pids.
ExecInv ==
    /\ X!TypeOK /\ snap \cup doomed \subseteq 1..forked
    /\ reading = "reading" => doomed = {}
    /\ reaped => X!agent \notin alive
    /\ KillsGoOn /\ AgentNotLeft

LEMMA TreeLemma ==
    ASSUME NEW al, NEW par
    PROVE  X!agent \in X!Tree(al, par) /\ X!Tree(al, par) \subseteq {X!agent} \cup al
BY DEF X!Tree

\* The processes of the run, and what a _kill would see.
LEMMA ProcFacts ==
    ASSUME ExecInv
    PROVE  /\ X!agent \in 1..forked /\ 1..forked \subseteq X!Proc /\ forked \in Nat
           /\ alive \subseteq 1..forked
           /\ X!agent \in X!Tree(alive, parent) /\ X!Tree(alive, parent) \subseteq 1..forked
<1>1. /\ X!agent \in 1..forked /\ 1..forked \subseteq X!Proc /\ forked \in Nat
      /\ alive \subseteq 1..forked
  BY DEF ExecInv, X!TypeOK, X!Proc, X!agent
<1>2. X!agent \in X!Tree(alive, parent) /\ X!Tree(alive, parent) \subseteq {X!agent} \cup alive
  BY TreeLemma
<1> QED BY <1>1, <1>2

LEMMA ExecInit == X!Init => ExecInv
<1> SUFFICES ASSUME X!Init PROVE ExecInv
  OBVIOUS
<1>1. X!agent = 1 /\ 1 \in X!Proc
  BY DEF X!agent, X!Proc
<1>2. /\ alive \subseteq 1..forked /\ stubborn \subseteq 1..forked /\ forked \in X!Proc
      /\ out \subseteq alive /\ err \subseteq alive
  BY <1>1 DEF X!Init
<1>3. parent \in [X!Proc -> alive \cup {0}]
  BY DEF X!Init
<1>4. X!TypeOK
  BY <1>2, <1>3 DEF X!Init, X!TypeOK, X!Outcome
<1> QED BY <1>1, <1>4 DEF X!Init, ExecInv, KillsGoOn, AgentNotLeft

\* Processes that die are gone from everywhere but the lists of the kills.
LEMMA DieEffect ==
    ASSUME ExecInv, NEW S, X!Die(S)
    PROVE  /\ alive' \subseteq alive /\ alive' = alive \ S /\ forked' = forked /\ stubborn' = stubborn
           /\ out' \subseteq alive' /\ err' \subseteq alive'
           /\ parent' \in [X!Proc -> alive' \cup {0}]
<1>1. /\ alive' = alive \ S /\ forked' = forked /\ stubborn' = stubborn
      /\ out' = out \ S /\ err' = err \ S
      /\ parent' = [p \in X!Proc |-> IF parent[p] \in S THEN 0 ELSE parent[p]]
      /\ out \subseteq alive /\ err \subseteq alive /\ parent \in [X!Proc -> alive \cup {0}]
  BY DEF X!Die, ExecInv, X!TypeOK
<1> QED BY <1>1

LEMMA ForkInv == ASSUME ExecInv, NEW p \in alive, X!Fork(p) PROVE ExecInv'
<1>1. /\ forked < MaxProcs /\ forked' = forked + 1 /\ alive' = alive \cup {forked'}
      /\ parent' = [parent EXCEPT ![forked'] = p]
      /\ stubborn' \in {stubborn, stubborn \cup {forked'}}
      /\ out' \in {out} \cup (IF p \in out THEN {out \cup {forked'}} ELSE {})
      /\ err' \in {err} \cup (IF p \in err THEN {err \cup {forked'}} ELSE {})
      /\ UNCHANGED <<reading, outcome, reaped, snap, again, due, doomed>>
  BY DEF X!Fork, X!runVars
<1>2. /\ forked' \in X!Proc /\ forked' \notin 1..forked /\ 1..forked \subseteq 1..forked'
      /\ forked' \in 1..forked' /\ X!agent # forked'
  BY <1>1, ProcFacts DEF ExecInv, X!TypeOK, X!Proc
<1>3. alive' \subseteq 1..forked' /\ stubborn' \subseteq 1..forked'
  BY <1>1, <1>2 DEF ExecInv, X!TypeOK
<1>4. out' \subseteq alive' /\ err' \subseteq alive'
  BY <1>1 DEF ExecInv, X!TypeOK
<1>5. parent' \in [X!Proc -> alive' \cup {0}]
  BY <1>1, <1>2 DEF ExecInv, X!TypeOK
<1>6. X!TypeOK'
  BY <1>1, <1>2, <1>3, <1>4, <1>5 DEF ExecInv, X!TypeOK
<1>7. KillsGoOn' /\ AgentNotLeft'
  BY <1>1, <1>2 DEF ExecInv, KillsGoOn, AgentNotLeft, Pending
<1> QED BY <1>1, <1>2, <1>6, <1>7 DEF ExecInv

LEMMA ExitInv == ASSUME ExecInv, NEW p \in alive, X!Exit(p) PROVE ExecInv'
<1>1. X!Die({p}) /\ UNCHANGED <<reading, outcome, reaped, snap, again, due, doomed>>
  BY DEF X!Exit, X!runVars
<1>2. X!TypeOK'
  BY <1>1, DieEffect DEF ExecInv, X!TypeOK
<1> QED BY <1>1, <1>2, DieEffect DEF ExecInv, KillsGoOn, AgentNotLeft, Pending

LEMMA ClosePipeInv == ASSUME ExecInv, NEW p \in alive, X!ClosePipe(p) PROVE ExecInv'
<1>1. /\ out' \subseteq out /\ err' \subseteq err
      /\ UNCHANGED <<alive, forked, parent, stubborn>>
      /\ UNCHANGED <<reading, outcome, reaped, snap, again, due, doomed>>
  BY DEF X!ClosePipe, X!runVars
<1>2. X!TypeOK'
  BY <1>1 DEF ExecInv, X!TypeOK
<1> QED BY <1>1, <1>2 DEF ExecInv, KillsGoOn, AgentNotLeft, Pending

LEMMA LeaveInv ==
    ASSUME ExecInv, NEW o \in X!Outcome, NEW kill \in BOOLEAN, X!Leave(o, kill)
    PROVE  ExecInv'
<1>1. /\ reading = "reading" /\ outcome' = o
      /\ UNCHANGED <<alive, forked, parent, stubborn, out, err, reaped, due>>
  BY DEF X!Leave, X!procVars
<1>2. CASE kill \/ ~reaped
  <2>1. /\ reading' = "killing" /\ again' = (kill /\ ~reaped)
        /\ snap' = X!Tree(alive, parent) /\ doomed' = X!Tree(alive, parent)
    BY <1>2 DEF X!Leave, X!Snapshot
  <2>2. again' \in BOOLEAN
    BY <2>1 DEF ExecInv, X!TypeOK
  <2>3. X!TypeOK'
    BY <1>1, <2>1, <2>2, ProcFacts DEF ExecInv, X!TypeOK
  <2> QED BY <1>1, <2>1, <2>3, ProcFacts DEF ExecInv, KillsGoOn, AgentNotLeft, Pending
<1>3. CASE ~(kill \/ ~reaped)
  <2>1. reading' = "waiting" /\ UNCHANGED <<snap, again, doomed>>
    BY <1>3 DEF X!Leave
  <2>2. X!TypeOK'
    BY <1>1, <2>1 DEF ExecInv, X!TypeOK
  <2> QED BY <1>1, <1>3, <2>1, <2>2 DEF ExecInv, KillsGoOn, AgentNotLeft, Pending
<1> QED BY <1>2, <1>3

LEMMA SignalInv == ASSUME ExecInv, X!Signal PROVE ExecInv'
<1>1. /\ reading = "killing" /\ X!Die(snap \ stubborn) /\ due' = due \cup {snap}
      /\ again' = FALSE /\ UNCHANGED <<outcome, reaped>>
      /\ snap \subseteq UNION due' /\ UNION due \subseteq UNION due'
  BY DEF X!Signal, X!Scheduled
<1>2. /\ X!agent \in X!Tree(alive', parent')
      /\ X!Tree(alive', parent') \subseteq 1..forked'
  BY <1>1, TreeLemma, ProcFacts, DieEffect
<1>3. /\ snap \subseteq X!Proc /\ 1..forked \subseteq X!Proc /\ forked' = forked
      /\ due' \subseteq SUBSET X!Proc
  BY <1>1, ProcFacts, DieEffect DEF ExecInv, X!TypeOK
<1>4. CASE again
  <2>1. /\ snap' = X!Tree(alive', parent') /\ doomed' = doomed \cup X!Tree(alive', parent')
        /\ reading' = reading
    BY <1>4 DEF X!Signal, X!Snapshot
  <2>2. X!TypeOK'
    BY <1>1, <1>2, <1>3, <2>1, DieEffect DEF ExecInv, X!TypeOK
  <2> QED BY <1>1, <1>2, <1>3, <2>1, <2>2, DieEffect DEF ExecInv, KillsGoOn, AgentNotLeft, Pending
<1>5. CASE ~again
  <2>1. snap' = {} /\ doomed' = doomed /\ reading' = "waiting"
    BY <1>5 DEF X!Signal
  <2>2. X!TypeOK'
    BY <1>1, <1>3, <2>1, DieEffect DEF ExecInv, X!TypeOK
  <2> QED BY <1>1, <1>3, <2>1, <2>2, DieEffect DEF ExecInv, KillsGoOn, AgentNotLeft, Pending
<1> QED BY <1>4, <1>5

LEMMA EscalateInv == ASSUME ExecInv, X!Escalate PROVE ExecInv'
<1>1. PICK S \in due : X!Die(S) /\ due' = due \ {S}
  BY DEF X!Escalate
<1>2. UNCHANGED <<reading, outcome, reaped, snap, again, doomed>>
  BY DEF X!Escalate
<1>3. UNION due \subseteq S \cup UNION due'
  BY <1>1
<1>4. X!TypeOK'
  BY <1>1, <1>2, DieEffect DEF ExecInv, X!TypeOK
<1> QED BY <1>1, <1>2, <1>3, <1>4, DieEffect DEF ExecInv, KillsGoOn, AgentNotLeft, Pending

LEMMA ReapInv == ASSUME ExecInv, X!Reap PROVE ExecInv'
<1>1. /\ X!agent \notin alive /\ reaped' = TRUE
      /\ UNCHANGED <<alive, forked, parent, stubborn, out, err, reading, outcome, snap, again, due, doomed>>
  BY DEF X!Reap, X!procVars
<1>2. X!TypeOK'
  BY <1>1 DEF ExecInv, X!TypeOK
<1> QED BY <1>1, <1>2 DEF ExecInv, KillsGoOn, AgentNotLeft, Pending

LEMMA ToPhaseInv ==
    ASSUME ExecInv, NEW from \in {"waiting", "draining"}, NEW to \in {"draining", "over"},
           X!ToPhase(from, to)
    PROVE  ExecInv'
<1>1. /\ reading = from /\ reading' = to
      /\ UNCHANGED <<alive, forked, parent, stubborn, out, err, outcome, reaped, snap, again, due, doomed>>
  BY DEF X!ToPhase, X!procVars
<1>2. X!TypeOK'
  BY <1>1 DEF ExecInv, X!TypeOK
<1> QED BY <1>1, <1>2 DEF ExecInv, KillsGoOn, AgentNotLeft, Pending

LEMMA ExecStep == ExecInv /\ [X!Next]_xvars => ExecInv'
<1> SUFFICES ASSUME ExecInv, [X!Next]_xvars PROVE ExecInv'
  OBVIOUS
<1>1. ASSUME NEW p \in alive, X!Fork(p) \/ X!Exit(p) \/ X!ClosePipe(p) PROVE ExecInv'
  BY <1>1, ForkInv, ExitInv, ClosePipeInv
<1>2. CASE X!SeesCancel \/ X!TimesOut \/ X!Blocks \/ X!Eof
  <2>1. /\ {"cancelled", "timeout", "blocked", "eof"} \subseteq X!Outcome
        /\ \E o \in {"cancelled", "timeout", "blocked", "eof"}, kill \in BOOLEAN : X!Leave(o, kill)
    BY <1>2 DEF X!SeesCancel, X!TimesOut, X!Blocks, X!Eof, X!Outcome
  <2> QED BY <2>1, LeaveInv
<1>3. CASE X!Stopped
  <2>1. "stopped" \in X!Outcome
    BY DEF X!Outcome
  <2> QED BY <1>3, <2>1, LeaveInv, ToPhaseInv DEF X!Stopped
<1>4. CASE X!Signal
  BY <1>4, SignalInv
<1>5. CASE X!Escalate
  BY <1>5, EscalateInv
<1>6. CASE X!Reap
  BY <1>6, ReapInv
<1>7. CASE X!Waited \/ X!Drained
  BY <1>7, ToPhaseInv DEF X!Waited, X!Drained
<1>8. CASE UNCHANGED xvars
  BY <1>8 DEF xvars, ExecInv, X!TypeOK, KillsGoOn, AgentNotLeft, Pending
<1> QED BY <1>1, <1>2, <1>3, <1>4, <1>5, <1>6, <1>7, <1>8 DEF X!Next

\* Every variable of a run has its type; only processes of the run are signalled.
THEOREM ExecutorTypes == X!Spec => []X!TypeOK
<1>1. ExecInv => X!TypeOK
  BY DEF ExecInv
<1>2. [X!Next]_(X!vars) => [X!Next]_xvars
  BY DEF xvars, X!vars, X!procVars, X!runVars
<1> QED BY ExecInit, ExecStep, <1>1, <1>2, PTL DEF X!Spec

\* What a _kill of Executor.run has seen is never forgotten while it lives, although
\* processes fork, are orphaned and ignore SIGTERM meanwhile; and the run gives up
\* reading only with a dead agent or a kill of it under way.
THEOREM KillsRemembered == X!Spec => [](KillsGoOn /\ AgentNotLeft)
<1>1. ExecInv => KillsGoOn /\ AgentNotLeft
  BY DEF ExecInv
<1>2. [X!Next]_(X!vars) => [X!Next]_xvars
  BY DEF xvars, X!vars, X!procVars, X!runVars
<1> QED BY ExecInit, ExecStep, <1>1, <1>2, PTL DEF X!Spec

---------------------------------------------------------------------------
(* The parts together                                                      *)

\* A step of the machinery is a step of one part and leaves the others: the
\* specification the run checks implements that of each part.
THEOREM RuntimeParts == FairPart => Spec /\ B!Spec /\ X!Spec
<1> DEFINE all == <<part, vars, bvars, xvars>>
<1>1. InitPart => Init /\ B!Init /\ X!Init
  BY DEF InitPart
<1>2. [NextPart]_all => [Next]_vars
  BY DEF NextPart
<1>3. [NextPart]_all => [B!Next]_(B!vars)
  BY DEF NextPart, bvars, B!vars
<1>4. [NextPart]_all => [X!Next]_(X!vars)
  BY DEF NextPart, xvars, X!vars, X!procVars, X!runVars
<1> QED BY <1>1, <1>2, <1>3, <1>4, PTL DEF FairPart, Spec, B!Spec, X!Spec

\* So what is proved of the events and of a run holds of that specification.
THEOREM RuntimeHolds ==
    FairPart => [](SeamExact /\ EndedMeansOver /\ KillsGoOn /\ AgentNotLeft)
BY RuntimeParts, StreamsSeamExact, StreamsEndWithExecution, KillsRemembered, PTL

---------------------------------------------------------------------------
(* Scheduler                                                               *)

HIDE RuntimeAssumption
USE MaxConcurrentAssumption, MaxSubmitAssumption

\* A fresh scheduler satisfies the invariant.
LEMMA InitIInv == Init => IInv
BY FS_EmptySet
   DEF Init, IInv, TypeOK, Phase, NoLostWakeup, ActiveCounts, OnePlace, StopInv

\* What a turn of the worker pops is a finite part of the heap that fits the slots.
LEMMA PoppedFits ==
    ASSUME IInv, NEW D \in Popped
    PROVE  /\ D \subseteq heap /\ IsFiniteSet(D) /\ Cardinality(D) \in Nat
           /\ active + Cardinality(D) <= MaxConcurrent
           /\ heap \ D = {} \/ active + Cardinality(D) = MaxConcurrent
           /\ IsFiniteSet(inflight \cup D)
           /\ Cardinality(inflight \cup D) = Cardinality(inflight) + Cardinality(D)
<1>1. /\ D \subseteq heap
      /\ active + Cardinality(D) <= MaxConcurrent
      /\ heap \ D = {} \/ active + Cardinality(D) = MaxConcurrent
  BY DEF Popped
<1>2. IsFiniteSet(D) /\ IsFiniteSet(inflight)
  BY <1>1, FS_Subset DEF IInv
<1>3. Cardinality(D) \in Nat /\ Cardinality(inflight) \in Nat
  BY <1>2, FS_CardinalityType
<1>4. inflight \cap D = {}
  BY <1>1 DEF IInv, OnePlace
<1>5. /\ IsFiniteSet(inflight \cup D)
      /\ Cardinality(inflight \cup D) =
            Cardinality(inflight) + Cardinality(D) - Cardinality(inflight \cap D)
  BY <1>2, FS_Union
<1>6. Cardinality(inflight \cap D) = 0
  BY <1>4, FS_EmptySet
<1> QED
  BY <1>1, <1>2, <1>3, <1>5, <1>6

\* Every action preserves the invariant.
LEMMA StepIInv == IInv /\ [Next]_vars => IInv'
<1> SUFFICES ASSUME IInv, [Next]_vars PROVE IInv'
  OBVIOUS
<1> USE DEF IInv
<1>a. Cardinality(inflight) \in Nat
  BY FS_CardinalityType
<1>1. ASSUME NEW p \in {0, 1}, Submit(p) PROVE IInv'
  <2> DEFINE new == [prio |-> p, seq |-> seq]
  <2>1. new \in Entry /\ heap' = heap \cup {new}
    BY <1>1 DEF Submit, Entry, TypeOK
  <2>2. TypeOK'
    BY <1>1, <2>1 DEF Submit, Notify, TypeOK
  <2>3. IsFiniteSet(heap')
    BY <2>1, FS_AddElement
  <2>4. NoLostWakeup'
    BY <1>1 DEF Submit, Notify, NoLostWakeup
  <2>5. OnePlace'
    <3>1. \A e \in heap \cup inflight : e.seq < seq /\ e.seq \in Nat
      BY DEF OnePlace, TypeOK, Entry
    <3>2. new.seq = seq /\ seq \in Nat /\ seq' = seq + 1 /\ inflight' = inflight
      BY <1>1 DEF Submit, TypeOK
    <3>3. new \notin heap \cup inflight
      BY <3>1, <3>2
    <3> HIDE DEF new
    <3> QED
      BY <2>1, <3>1, <3>2, <3>3 DEF OnePlace
  <2> QED
    BY <1>1, <2>2, <2>3, <2>4, <2>5 DEF Submit, Notify, ActiveCounts, StopInv
<1>2. ASSUME Work PROVE IInv'
  <2>1. PICK D \in Popped : /\ heap' = heap \ D
                            /\ active' = active + Cardinality(D)
                            /\ inflight' = inflight \cup D
    BY <1>2 DEF Work
  <2>2. /\ D \subseteq heap /\ Cardinality(D) \in Nat
        /\ active + Cardinality(D) <= MaxConcurrent
        /\ heap \ D = {} \/ active + Cardinality(D) = MaxConcurrent
        /\ IsFiniteSet(inflight \cup D)
        /\ Cardinality(inflight \cup D) = Cardinality(inflight) + Cardinality(D)
    BY PoppedFits
  <2>3. TypeOK'
    BY <1>2, <2>1, <2>2 DEF Work, TypeOK
  <2>4. IsFiniteSet(heap') /\ IsFiniteSet(inflight')
    BY <2>1, <2>2, FS_Subset
  <2>5. NoLostWakeup'
    BY <2>1, <2>2 DEF NoLostWakeup
  <2>6. ActiveCounts'
    <3> DEFINE n == Cardinality(D)
               k == Cardinality(inflight)
    <3>1. n \in Nat /\ k \in Nat /\ active \in Nat /\ MaxConcurrent \in Nat
      BY <1>a, <2>2 DEF TypeOK
    <3>2. /\ active' = active + n /\ Cardinality(inflight') = k + n
          /\ active + n <= MaxConcurrent /\ k <= active
          /\ stopping' = stopping
      BY <1>2, <2>1, <2>2 DEF Work, ActiveCounts
    <3>3. stopping \in {"no", "worker"} => active = k
      BY DEF ActiveCounts
    <3> HIDE DEF n, k
    <3> QED
      BY <3>1, <3>2, <3>3 DEF ActiveCounts
  <2>7. OnePlace'
    BY <1>2, <2>1, <2>2 DEF Work, OnePlace
  <2> QED
    BY <1>2, <2>3, <2>4, <2>5, <2>6, <2>7 DEF Work, StopInv
<1>3. ASSUME NEW e \in inflight, Begin(e) PROVE IInv'
  <2>1. TypeOK'
    BY <1>3 DEF Begin, TypeOK, Phase
  <2> QED
    BY <1>3, <2>1 DEF Begin, NoLostWakeup, ActiveCounts, OnePlace, StopInv
<1>4. ASSUME NEW e \in inflight, End(e) PROVE IInv'
  <2>1. /\ IsFiniteSet(inflight')
        /\ Cardinality(inflight') = Cardinality(inflight) - 1
    BY <1>4, FS_RemoveElement DEF End
  <2>2. Cardinality(inflight') \in Nat
    BY <2>1, FS_CardinalityType
  <2>3. ActiveCounts'
    BY <1>4, <1>a, <2>1, <2>2 DEF End, ActiveCounts, TypeOK
  <2>4. TypeOK'
    BY <1>4, <1>a, <2>1, <2>2 DEF End, Notify, TypeOK, ActiveCounts
  <2>5. NoLostWakeup'
    BY <1>4 DEF End, Notify, NoLostWakeup
  <2>6. OnePlace'
    BY <1>4 DEF End, OnePlace
  <2> QED
    BY <1>4, <2>1, <2>3, <2>4, <2>5, <2>6 DEF End, Notify, StopInv
<1>5. ASSUME Stop PROVE IInv'
  BY <1>5 DEF Stop, TypeOK, NoLostWakeup, ActiveCounts, OnePlace, StopInv
<1>6. ASSUME WorkerEnds PROVE IInv'
  BY <1>6 DEF WorkerEnds, TypeOK, NoLostWakeup, ActiveCounts, OnePlace, StopInv
<1>7. ASSUME CancelRuns PROVE IInv'
  <2>1. /\ IsFiniteSet(inflight')
        /\ Cardinality(inflight') <= Cardinality(inflight)
        /\ Cardinality(inflight') \in Nat
    BY <1>7, FS_Subset, FS_CardinalityType DEF CancelRuns
  <2>2. TypeOK'
    BY <1>7 DEF CancelRuns, TypeOK, Phase
  <2>3. ActiveCounts'
    BY <1>7, <1>a, <2>1 DEF CancelRuns, ActiveCounts, TypeOK
  <2>4. OnePlace'
    BY <1>7 DEF CancelRuns, OnePlace
  <2> QED
    BY <1>7, <2>1, <2>2, <2>3, <2>4 DEF CancelRuns, NoLostWakeup, StopInv
<1>8. ASSUME StopReturns PROVE IInv'
  BY <1>8 DEF StopReturns, TypeOK, NoLostWakeup, ActiveCounts, OnePlace, StopInv
<1>9. ASSUME UNCHANGED vars PROVE IInv'
  BY <1>9 DEF vars, TypeOK, NoLostWakeup, ActiveCounts, OnePlace, StopInv
<1> QED
  BY <1>1, <1>2, <1>3, <1>4, <1>5, <1>6, <1>7, <1>8, <1>9 DEF Next

\* The inductive invariant of the scheduler holds in every reachable state.
THEOREM Invariance == Spec => []IInv
BY InitIInv, StepIInv, PTL DEF Spec

\* Every variable of the scheduler keeps its type.
THEOREM TypeCorrect == Spec => []TypeOK
<1>1. IInv => TypeOK
  BY DEF IInv
<1> QED
  BY <1>1, Invariance, PTL

\* The worker of Scheduler._loop never sleeps on the condition while an entry
\* and a slot are there, for any number of submits and slots.
THEOREM WakeupsKept == Spec => []NoLostWakeup
<1>1. IInv => NoLostWakeup
  BY DEF IInv
<1> QED
  BY <1>1, Invariance, PTL

\* Scheduler._active is the number of coroutines in flight and within its bound,
\* and every entry has one place.
THEOREM SlotsExact == Spec => [](ActiveCounts /\ OnePlace)
<1>1. IInv => ActiveCounts /\ OnePlace
  BY DEF IInv
<1> QED
  BY <1>1, Invariance, PTL

\* After stop() is called no coroutine is created, although entries may wait.
THEOREM StopIsFinal == Spec => NothingStartsAfterStop
<1>1. ASSUME IInv, [Next]_vars
      PROVE  [stopping # "no" => inflight' \subseteq inflight]_vars
  <2>1. CASE Next
    BY <1>1, <2>1 DEF Next, Submit, Work, Begin, End, Stop, WorkerEnds, CancelRuns,
       StopReturns, IInv, StopInv, TypeOK
  <2>2. CASE UNCHANGED vars
    BY <2>2 DEF vars
  <2> QED
    BY <1>1, <2>1, <2>2
<1> QED
  BY <1>1, Invariance, PTL DEF Spec, NothingStartsAfterStop
=============================================================================
