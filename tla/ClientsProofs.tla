--------------------------- MODULE ClientsProofs ---------------------------
(***************************************************************************)
(* What MCClients shows to a user, for any lists, conversations, answers   *)
(* and bounds.                                                             *)
(***************************************************************************)
EXTENDS MCClients, FiniteSetTheorems, SequenceTheorems, TLAPS

---------------------------------------------------------------------------
(* Summaries: what is called complete is                                   *)

\* The inbox scan holds what lies up to its cursor; what is collected is
\* counted once; a list asked about one by one is as long as the answer.
ListInv ==
    /\ have \in SUBSET (1..Items) /\ listed \subseteq have
    /\ cursor \in Nat
    /\ reader = "mailbox" => listed = {} /\ total = 0
    /\ reader = "list" => /\ list # "inbox" => listed = {}
                          /\ total = Cardinality(listed)
    /\ list = "inbox" /\ reader = "list" => have \cap 1..cursor \subseteq listed
    /\ reader # "over" => summary = "none"
    /\ S!CompleteIsWhole

LEMMA ListCardinality == \A Q : S!Cardinality(Q) = Cardinality(Q)
BY DEF S!Cardinality, Cardinality, S!IsFiniteSet, IsFiniteSet

\* What is collected is counted.
LEMMA Collected ==
    ASSUME ListInv, NEW p \in SUBSET have, total = Cardinality(listed), S!Collect(p)
    PROVE  listed' = listed \cup p /\ total' = Cardinality(listed')
<1>1. IsFiniteSet(1..Items)
  BY PagesAssumption, FS_Interval
<1>2. IsFiniteSet(listed) /\ IsFiniteSet(p \ listed)
  BY <1>1, FS_Subset DEF ListInv
<1>3. listed \cap (p \ listed) = {} /\ listed \cup (p \ listed) = listed \cup p
  OBVIOUS
<1>4. Cardinality(listed \cup p) = Cardinality(listed) + Cardinality(p \ listed)
  <2>1. /\ IsFiniteSet(listed \cup (p \ listed))
        /\ Cardinality(listed \cup (p \ listed))
             = Cardinality(listed) + Cardinality(p \ listed) - Cardinality(listed \cap (p \ listed))
    BY <1>2, FS_Union
  <2>2. Cardinality(listed) \in Nat /\ Cardinality(p \ listed) \in Nat
    BY <1>2, FS_CardinalityType
  <2>3. Cardinality(listed \cap (p \ listed)) = 0
    BY <1>3, FS_EmptySet
  <2>4. Cardinality(listed \cup (p \ listed)) = Cardinality(listed \cup p)
    BY <1>3
  <2> DEFINE a == Cardinality(listed)
             b == Cardinality(p \ listed)
             both == Cardinality(listed \cap (p \ listed))
             all == Cardinality(listed \cup (p \ listed))
  <2>5. a \in Nat /\ b \in Nat /\ both = 0 /\ all = a + b - both
    BY <2>1, <2>2, <2>3
  <2> HIDE DEF a, b, both, all
  <2>6. all = a + b
    BY <2>5
  <2> QED BY <2>4, <2>6 DEF a, b, all
<1>5. listed' = listed \cup p /\ total' = total + Cardinality(p \ listed)
  BY ListCardinality DEF S!Collect
<1> QED BY <1>4, <1>5

LEMMA ListInit == S!Init => ListInv
BY FS_EmptySet, PagesAssumption DEF S!Init, ListInv, S!CompleteIsWhole

\* One page of the inbox: earlier items again, none of the next left out.
LEMMA ScanInboxInv == ASSUME ListInv, S!ScanInbox PROVE ListInv'
<1>1. /\ list = "inbox" /\ reader = "list" /\ summary = "none" /\ UNCHANGED <<list, have>>
      /\ total = Cardinality(listed) /\ have \cap 1..cursor \subseteq listed /\ cursor \in Nat
      /\ listed \subseteq have /\ have \in SUBSET (1..Items) /\ Items \in Nat
  BY PagesAssumption DEF S!ScanInbox, ListInv
<1>2. CASE S!End("error") /\ S!Stay /\ UNCHANGED cursor
  BY <1>1, <1>2 DEF S!End, S!Stay, ListInv, S!CompleteIsWhole
<1>3. ASSUME NEW next \in cursor + 1 .. Items, NEW p \in S!Page(next),
             S!Collect(p), cursor' = next,
             S!End("error") \/ UNCHANGED <<reader, summary>>
      PROVE  ListInv'
  <2>1. p \in SUBSET have /\ have \cap cursor + 1 .. next \subseteq p
    BY <1>3 DEF S!Page
  <2>2. listed' = listed \cup p /\ total' = Cardinality(listed')
    BY <1>1, <1>3, <2>1, Collected
  <2>3. have \cap 1..next \subseteq listed'
    BY <1>1, <2>1, <2>2
  <2>4. next \in Nat
    BY <1>1, <1>3
  <2>5. listed' \subseteq have
    BY <1>1, <2>1, <2>2
  <2> QED BY <1>1, <1>3, <2>2, <2>3, <2>4, <2>5 DEF S!End, ListInv, S!CompleteIsWhole
<1>4. ASSUME NEW p \in S!Page(Items), S!Collect(p), S!End("complete"), UNCHANGED cursor
      PROVE  ListInv'
  <2>1. p \in SUBSET have /\ have \cap cursor + 1 .. Items \subseteq p
    BY <1>4 DEF S!Page
  <2>2. listed' = listed \cup p /\ total' = Cardinality(listed')
    BY <1>1, <1>4, <2>1, Collected
  <2>3. \A i \in have : i \in 1..cursor \/ i \in cursor + 1 .. Items
    BY <1>1
  <2>4. listed' = have
    BY <1>1, <2>1, <2>2, <2>3
  <2>5. reader' = "over" /\ S!CompleteIsWhole'
    BY <1>1, <1>4, <2>2, <2>4, ListCardinality DEF S!End, S!CompleteIsWhole
  <2> QED BY <1>1, <1>4, <2>4, <2>5 DEF ListInv
<1> QED BY <1>2, <1>3, <1>4 DEF S!ScanInbox

\* One answer is all there is.
LEMMA OneAnswerInv ==
    ASSUME ListInv, S!ListTodos \/ S!ListOverdue \/ S!ListAgenda \/ S!ListMail
    PROVE  ListInv'
<1>1. /\ list \in {"todo", "overdue", "agenda", "mail"} /\ reader = "list" /\ summary = "none"
      /\ UNCHANGED <<list, have, cursor>>
      /\ total = Cardinality(listed) /\ listed = {}
  BY DEF S!ListTodos, S!ListOverdue, S!ListAgenda, S!ListMail, ListInv
<1>2. CASE S!Raises \/ S!ReturnsNone
  BY <1>1, <1>2 DEF S!Raises, S!ReturnsNone, S!End, S!Stay, ListInv, S!CompleteIsWhole
<1>3. ASSUME NEW p \in SUBSET have, NEW what \in {"complete", "shown"},
             S!Collect(p), S!End(what), list = "todo" => p = have
      PROVE  ListInv'
  <2>1. listed' = p /\ total' = Cardinality(listed')
    BY <1>1, <1>3, Collected
  <2>2. reader' = "over" /\ S!CompleteIsWhole'
    BY <1>1, <1>3, <2>1, ListCardinality DEF S!End, S!CompleteIsWhole
  <2> QED BY <1>1, <2>1, <2>2 DEF ListInv
<1>4. \/ S!Raises \/ S!ReturnsNone
      \/ S!Collect(have) /\ S!End("complete")
      \/ list # "todo" /\ \E p \in SUBSET have : S!Collect(p) /\ (S!End("complete") \/ S!End("shown"))
  BY DEF S!ListTodos, S!ListOverdue, S!ListAgenda, S!ListMail, S!Rows
<1> QED BY <1>2, <1>3, <1>4

\* A list is read, then its entries one by one.
LEMMA EntriesInv ==
    ASSUME ListInv,
           \/ S!FindMailbox \/ S!ListMinutes \/ S!ListPending \/ S!ListDepartments
           \/ S!ShowDetails \/ S!WriteMinutes
    PROVE  ListInv'
<1>1. /\ list \notin {"inbox", "todo"} /\ reader \in {"mailbox", "list", "details"} /\ summary = "none"
      /\ UNCHANGED <<list, have, cursor>> /\ listed \subseteq have
  BY DEF S!FindMailbox, S!ListMinutes, S!ListPending, S!ListDepartments, S!ShowDetails,
         S!WriteMinutes, S!Detail, ListInv
<1>2. CASE S!FindMailbox
  BY <1>1, <1>2, FS_EmptySet DEF S!FindMailbox, S!Raises, S!End, S!Stay, ListInv, S!CompleteIsWhole
<1>3. CASE S!ListMinutes \/ S!ListPending \/ S!ListDepartments
  BY <1>1, <1>3 DEF S!ListMinutes, S!ListPending, S!ListDepartments, S!Raises, S!ReturnsNone,
                    S!Entries, S!End, S!Stay, ListInv, S!CompleteIsWhole
<1>4. CASE S!ShowDetails \/ S!WriteMinutes
  <2>1. reader = "details" /\ UNCHANGED total
    BY <1>4 DEF S!ShowDetails, S!WriteMinutes
  <2>2. \/ Cardinality(listed) = total /\ S!End("shown") /\ UNCHANGED listed
        \/ S!End("error") /\ UNCHANGED listed
        \/ S!ShowEntry
    <3>1. CASE Cardinality(listed) = total
      BY <1>4, <3>1, ListCardinality DEF S!ShowDetails, S!WriteMinutes
    <3>2. CASE Cardinality(listed) # total
      BY <1>4, <3>2, ListCardinality DEF S!ShowDetails, S!WriteMinutes
    <3> QED BY <3>1, <3>2
  <2>3. CASE S!ShowEntry
    BY <1>1, <2>1, <2>3 DEF S!ShowEntry, ListInv, S!CompleteIsWhole
  <2>4. CASE S!End("error") /\ UNCHANGED listed
    BY <1>1, <2>1, <2>4 DEF S!End, ListInv, S!CompleteIsWhole
  <2>5. CASE Cardinality(listed) = total /\ S!End("shown") /\ UNCHANGED listed
    <3>1. S!CompleteIsWhole'
      BY <1>1, <2>1, <2>5, ListCardinality DEF S!End, S!CompleteIsWhole
    <3> QED BY <1>1, <2>5, <3>1 DEF S!End, ListInv
  <2> QED BY <2>2, <2>3, <2>4, <2>5
<1> QED BY <1>2, <1>3, <1>4

\* For any items and any pages, overlapping or repeated: an inbox or a day's
\* list called complete holds every item of the window, each counted once, and
\* what is shown with details is as long as its list (half of ShownIsExact).
THEOREM CompleteListsAreWhole == S!Spec => []S!CompleteIsWhole
<1>1. ListInv /\ [S!Next]_(S!vars) => ListInv'
  <2> SUFFICES ASSUME ListInv, [S!Next]_(S!vars) PROVE ListInv'
    OBVIOUS
  <2>1. CASE UNCHANGED S!vars
    BY <2>1 DEF S!vars, ListInv, S!CompleteIsWhole
  <2> QED BY <2>1, ScanInboxInv, OneAnswerInv, EntriesInv DEF S!Next
<1>2. ListInv => S!CompleteIsWhole
  BY DEF ListInv
<1> QED
  BY ListInit, <1>1, <1>2, PTL DEF S!Spec

---------------------------------------------------------------------------
(* Calendar: the free times are those nobody's engagement touches          *)

Interval == Nat \X Nat
Takes(i, h) == i[1] <= h /\ h < i[2]
Covers(m, h) == \E j \in 1..Len(m) : Takes(m[j], h)

\* Intervals that follow each other with a gap between any two.
Apart(m) ==
    /\ m \in Seq(Interval)
    /\ \A j \in 1..Len(m) : m[j][1] < m[j][2]
    /\ \A j, k \in 1..Len(m) : j < k => m[j][2] < m[k][1]

LEMMA LargerIs == ASSUME NEW a \in Nat, NEW b \in Nat
                  PROVE  C!Larger(a, b) \in {a, b} /\ a <= C!Larger(a, b) /\ b <= C!Larger(a, b)
BY DEF C!Larger

\* An engagement that starts no sooner than the intervals do joins them.
LEMMA JoinedCovers ==
    ASSUME NEW m, Apart(m), NEW i \in Interval, i[1] < i[2],
           \A j \in 1..Len(m) : m[j][1] <= i[1]
    PROVE  /\ Apart(C!Joined(m, i))
           /\ \A j \in 1..Len(C!Joined(m, i)) : C!Joined(m, i)[j][1] <= i[1]
           /\ \A h \in Nat : Covers(C!Joined(m, i), h) <=> Covers(m, h) \/ Takes(i, h)
<1> DEFINE n == Len(m)
           r == C!Joined(m, i)
<1>1. /\ m \in Seq(Interval) /\ n \in Nat /\ DOMAIN m = 1..n
      /\ \A j \in 1..n : m[j] \in Interval /\ m[j][1] \in Nat /\ m[j][2] \in Nat
  BY ElementOfSeq, LenProperties DEF Apart, Interval
<1>2. i[1] \in Nat /\ i[2] \in Nat
  BY DEF Interval
<1>3. /\ \A j \in 1..n : m[j][1] < m[j][2] /\ m[j][1] <= i[1]
      /\ \A j, k \in 1..n : j < k => m[j][2] < m[k][1]
  BY DEF Apart
<1>4. CASE m # <<>> /\ i[1] <= m[n][2]
  <2> DEFINE e == <<m[n][1], C!Larger(m[n][2], i[2])>>
  <2>1. n \in 1..n
    BY <1>1, <1>4, EmptySeq
  <2>2. r = [m EXCEPT ![n] = e]
    BY <1>4 DEF C!Joined, C!Last
  <2>3. /\ e \in Interval /\ e[1] = m[n][1] /\ e[2] \in {m[n][2], i[2]}
        /\ m[n][2] <= e[2] /\ i[2] <= e[2] /\ e[2] \in Nat
    BY <1>1, <1>2, <2>1, LargerIs DEF Interval
  <2> HIDE DEF e
  <2>4. r \in Seq(Interval) /\ Len(r) = n /\ \A j \in 1..n : r[j] = IF j = n THEN e ELSE m[j]
    BY <1>1, <2>1, <2>2, <2>3, ExceptSeq
  <2> HIDE DEF r, n
  <2>5. \A j \in 1..n : r[j][1] = m[j][1] /\ (j # n => r[j] = m[j])
    BY <2>3, <2>4
  <2>6. r[n] = e
    BY <2>1, <2>4
  <2>7. \A j \in 1..n : r[j][1] < r[j][2] /\ r[j][1] <= i[1]
    BY <1>1, <1>2, <1>3, <2>1, <2>3, <2>5, <2>6
  <2>8. \A j, k \in 1..n : j < k => r[j][2] < r[k][1]
    <3> SUFFICES ASSUME NEW j \in 1..n, NEW k \in 1..n, j < k PROVE r[j][2] < r[k][1]
      OBVIOUS
    <3>1. j # n
      BY <1>1
    <3> QED BY <1>3, <2>5, <3>1
  <2>9. ASSUME NEW h \in Nat PROVE Takes(e, h) <=> Takes(m[n], h) \/ Takes(i, h)
    <3>1. /\ e[1] = m[n][1] /\ e[2] \in {m[n][2], i[2]} /\ m[n][2] <= e[2] /\ i[2] <= e[2]
          /\ m[n][1] <= i[1] /\ i[1] <= m[n][2] /\ m[n][1] \in Nat /\ m[n][2] \in Nat /\ i[1] \in Nat /\ i[2] \in Nat
      BY <1>1, <1>2, <1>3, <1>4, <2>1, <2>3
    <3> QED BY <3>1 DEF Takes
  <2>10. ASSUME NEW h \in Nat PROVE Covers(r, h) <=> Covers(m, h) \/ Takes(i, h)
    <3>1. ASSUME Covers(r, h) PROVE Covers(m, h) \/ Takes(i, h)
      <4>1. PICK j \in 1..n : Takes(r[j], h)
        BY <2>4, <3>1 DEF Covers
      <4>2. CASE j = n
        BY <2>1, <2>6, <2>9, <4>1, <4>2 DEF Covers, n
      <4>3. CASE j # n
        BY <2>5, <4>1, <4>3 DEF Covers, n
      <4> QED BY <4>2, <4>3
    <3>2. ASSUME NEW j \in 1..n, Takes(m[j], h) PROVE Covers(r, h)
      <4>1. CASE j = n
        BY <2>1, <2>4, <2>6, <2>9, <3>2, <4>1 DEF Covers
      <4>2. CASE j # n
        BY <2>4, <2>5, <3>2, <4>2 DEF Covers
      <4> QED BY <4>1, <4>2
    <3>3. ASSUME Takes(i, h) PROVE Covers(r, h)
      BY <2>1, <2>4, <2>6, <2>9, <3>3 DEF Covers
    <3> QED BY <3>1, <3>2, <3>3 DEF Covers, n
  <2> QED BY <2>4, <2>7, <2>8, <2>10 DEF Apart, r
<1>5. CASE ~(m # <<>> /\ i[1] <= m[n][2])
  <2>1. r = Append(m, i)
    BY <1>5 DEF C!Joined, C!Last
  <2>2. /\ r \in Seq(Interval) /\ Len(r) = n + 1 /\ r[n + 1] = i
        /\ \A j \in 1..n : r[j] = m[j]
    BY <1>1, <2>1, AppendProperties
  <2>3. \A j \in 1..n : m[j][2] < i[1]
    <3> SUFFICES ASSUME NEW j \in 1..n PROVE m[j][2] < i[1]
      OBVIOUS
    <3>1. n \in 1..n /\ m # <<>>
      BY <1>1, EmptySeq
    <3>2. ~(i[1] <= m[n][2])
      BY <1>5, <3>1
    <3>3. m[n][2] < i[1]
      BY <1>1, <1>2, <3>1, <3>2
    <3>4. CASE j = n
      BY <3>3, <3>4
    <3>5. CASE j # n
      <4>1. j < n
        <5>1. n \in Nat /\ j \in 1..n /\ j # n
          BY <1>1, <3>5
        <5> HIDE DEF n
        <5> QED BY ONLY <5>1
      <4>2. m[j][2] < m[n][1] /\ m[n][1] < m[n][2]
        BY <1>3, <3>1, <4>1
      <4>3. m[j][2] \in Nat /\ m[n][1] \in Nat /\ m[n][2] \in Nat
        BY <1>1, <3>1
      <4> QED BY <1>2, <3>3, <4>2, <4>3
    <3> QED BY <3>4, <3>5
  <2> HIDE DEF r, n
  <2>4. \A j \in 1..n + 1 : r[j][1] < r[j][2] /\ r[j][1] <= i[1]
    <3> SUFFICES ASSUME NEW j \in 1..n + 1 PROVE r[j][1] < r[j][2] /\ r[j][1] <= i[1]
      OBVIOUS
    <3>1. CASE j = n + 1
      BY <1>2, <2>2, <3>1
    <3>2. CASE j # n + 1
      BY <1>1, <1>3, <2>2, <3>2
    <3> QED BY <3>1, <3>2
  <2>5. \A j, k \in 1..n + 1 : j < k => r[j][2] < r[k][1]
    <3> SUFFICES ASSUME NEW j \in 1..n + 1, NEW k \in 1..n + 1, j < k PROVE r[j][2] < r[k][1]
      OBVIOUS
    <3>1. j \in 1..n
      BY <1>1
    <3>2. CASE k = n + 1
      BY <2>2, <2>3, <3>1, <3>2
    <3>3. CASE k # n + 1
      <4>1. k \in 1..n
        BY <1>1, <3>3
      <4> QED BY <1>3, <2>2, <3>1, <4>1
    <3> QED BY <3>2, <3>3
  <2>6. ASSUME NEW h \in Nat PROVE Covers(r, h) <=> Covers(m, h) \/ Takes(i, h)
    <3>1. ASSUME Covers(r, h) PROVE Covers(m, h) \/ Takes(i, h)
      <4>1. PICK j \in 1..n + 1 : Takes(r[j], h)
        BY <2>2, <3>1 DEF Covers
      <4>2. CASE j = n + 1
        BY <2>2, <4>1, <4>2
      <4>3. CASE j # n + 1
        <5>1. j \in 1..n
          BY <1>1, <4>3
        <5> QED BY <2>2, <4>1, <5>1 DEF Covers, n
      <4> QED BY <4>2, <4>3
    <3>2. ASSUME NEW j \in 1..n, Takes(m[j], h) PROVE Covers(r, h)
      <4>1. j \in 1..n + 1 /\ r[j] = m[j]
        BY <1>1, <2>2
      <4> QED BY <2>2, <3>2, <4>1 DEF Covers
    <3>3. ASSUME Takes(i, h) PROVE Covers(r, h)
      <4>1. n + 1 \in 1..n + 1
        BY <1>1
      <4> QED BY <2>2, <3>3, <4>1 DEF Covers
    <3> QED BY <3>1, <3>2, <3>3 DEF Covers, n
  <2> QED BY <2>2, <2>4, <2>5, <2>6 DEF Apart, r
<1> QED BY <1>4, <1>5

Read == C!parse_busy_intervals(busy)
Engaged(h) == \E k \in Read : Takes(busy[k], h)

\* What is merged and what is left are the engagements, in the order of their
\* starts.
MergedInv ==
    /\ left \in SUBSET Read
    /\ Apart(merged)
    /\ \A j \in 1..Len(merged) : merged[j][1] < Day
    /\ \A j \in 1..Len(merged), k \in left : merged[j][1] <= busy[k][1]
    /\ \A h \in Nat : Engaged(h) <=> Covers(merged, h) \/ \E k \in left : Takes(busy[k], h)

\* The cursor is at the end of what was passed over.
PassedInv ==
    /\ passed \in 0..Len(merged)
    /\ upTo = IF passed = 0 THEN 0 ELSE merged[passed][2]
    /\ left # {} => passed = 0

Fits(s, i) == i[1] <= s /\ s + duration <= i[2]
Free(a, b) == \A h \in Nat : a <= h /\ h < b => ~Engaged(h)

\* A slot is free, and a free window that begins before n lies within one.
SlotsUpTo(ss, n) ==
    /\ ss \in Seq(Interval)
    /\ \A i \in 1..Len(ss) : ss[i][1] + duration <= ss[i][2] /\ ss[i][2] <= Day /\ Free(ss[i][1], ss[i][2])
    /\ \A s \in Nat : s < n /\ s + duration <= Day /\ Free(s, s + duration)
                      => \E i \in 1..Len(ss) : Fits(s, ss[i])

Within(i) == i \in Interval /\ i[2] <= Day /\ Free(i[1], i[2])

CalInv ==
    /\ \E n \in 0..MaxBusy : busy \in [1..n -> C!Engagements \cup {C!Timeless}]
    /\ duration \in 1..Day
    /\ planner \in {"find", "sift", "choose", "search", "create", "refused", "done", "failed", "blind"}
    /\ planner = "find" => left = {} /\ merged = <<>> /\ passed = 0 /\ upTo = 0 /\ slots = <<>>
    /\ planner = "sift" => MergedInv /\ PassedInv /\ SlotsUpTo(slots, upTo)
    /\ planner \in {"choose", "search", "create", "refused", "done", "failed"} => SlotsUpTo(slots, Day)
    /\ planner \in {"search", "create", "refused", "done", "failed"} => Within(meeting)
    /\ \A e \in events : Within(e.at)

LEMMA BusyIs ==
    ASSUME CalInv
    PROVE  /\ DOMAIN busy \subseteq Nat /\ Read \subseteq DOMAIN busy
           /\ \A k \in Read : /\ busy[k] \in Interval /\ busy[k][1] < busy[k][2] /\ busy[k][1] < Day
                              /\ busy[k][1] \in Nat /\ busy[k][2] \in Nat
           /\ \A k \in DOMAIN busy \ Read : busy[k] = <<0, 0>>
           /\ Day \in Nat /\ duration \in Nat /\ 1 <= duration
<1>1. PICK n \in 0..MaxBusy : busy \in [1..n -> C!Engagements \cup {C!Timeless}]
  BY DEF CalInv
<1>2. Day \in Nat /\ duration \in Nat /\ 1 <= duration
  BY DayAssumption DEF CalInv
<1>3. \A i \in C!Engagements : /\ i \in Interval /\ i[1] < i[2] /\ i[1] < Day
                               /\ i[1] \in Nat /\ i[2] \in Nat
  BY <1>2 DEF C!Engagements, Interval
<1>4. \A k \in Read : busy[k] \in C!Engagements
  BY <1>1 DEF Read, C!parse_busy_intervals
<1>5. \A k \in DOMAIN busy \ Read : busy[k] = <<0, 0>>
  BY DEF Read, C!parse_busy_intervals, C!Timeless
<1>6. DOMAIN busy \subseteq Nat /\ Read \subseteq DOMAIN busy
  BY <1>1 DEF Read, C!parse_busy_intervals
<1> QED BY <1>2, <1>3, <1>4, <1>5, <1>6

LEMMA FreeIsFree ==
    ASSUME CalInv, NEW a \in Nat, NEW b \in Nat, b <= Day
    PROVE  (a .. b - 1 \subseteq C!FreeHours) <=> Free(a, b)
<1>1. \A h \in Nat : Engaged(h) <=> \E k \in DOMAIN busy : h \in C!Hours(busy[k])
  <2> SUFFICES ASSUME NEW h \in Nat
               PROVE  Engaged(h) <=> \E k \in DOMAIN busy : h \in C!Hours(busy[k])
    OBVIOUS
  <2>1. ASSUME NEW k \in Read PROVE Takes(busy[k], h) <=> h \in C!Hours(busy[k])
    BY <2>1, BusyIs DEF Takes, C!Hours
  <2>2. ASSUME NEW k \in DOMAIN busy \ Read PROVE h \notin C!Hours(busy[k])
    BY <2>2, BusyIs DEF C!Hours
  <2> QED BY <2>1, <2>2, BusyIs DEF Engaged
<1>2. C!FreeHours = {h \in 0..Day - 1 : ~Engaged(h)}
  BY <1>1, BusyIs DEF C!FreeHours
<1>3. \A h : h \in a..b - 1 <=> h \in Nat /\ a <= h /\ h < b
  OBVIOUS
<1>4. \A h \in a..b - 1 : h \in 0..Day - 1
  BY BusyIs
<1> QED BY <1>2, <1>3, <1>4 DEF Free

LEMMA MergeInv == ASSUME CalInv, C!Merge PROVE CalInv'
<1>1. /\ planner = "sift" /\ UNCHANGED <<busy, duration, passed, upTo, slots, planner, meeting, events>>
      /\ MergedInv /\ PassedInv /\ SlotsUpTo(slots, upTo)
  BY DEF C!Merge, CalInv
<1>2. PICK k \in left : /\ \A j \in left \ {k} : C!Sooner(k, j)
                        /\ left' = left \ {k} /\ merged' = C!Joined(merged, busy[k])
  BY DEF C!Merge
<1>3. k \in Read /\ busy[k] \in Interval /\ busy[k][1] < busy[k][2] /\ busy[k][1] < Day
  BY <1>1, <1>2, BusyIs DEF MergedInv
<1>4. \A j \in 1..Len(merged) : merged[j][1] <= busy[k][1]
  BY <1>1, <1>2 DEF MergedInv
<1>5. /\ Apart(merged') /\ \A j \in 1..Len(merged') : merged'[j][1] <= busy[k][1]
      /\ \A h \in Nat : Covers(merged', h) <=> Covers(merged, h) \/ Takes(busy[k], h)
  BY <1>1, <1>2, <1>3, <1>4, JoinedCovers DEF MergedInv
<1>6. \A j \in 1..Len(merged') : merged'[j][1] \in Nat
  BY <1>5, ElementOfSeq DEF Apart, Interval
<1>7. \A j \in left' : busy[k][1] <= busy[j][1] /\ busy[j][1] \in Nat
  <2> SUFFICES ASSUME NEW j \in left' PROVE busy[k][1] <= busy[j][1] /\ busy[j][1] \in Nat
    OBVIOUS
  <2>1. j \in Read /\ C!Sooner(k, j)
    BY <1>1, <1>2 DEF MergedInv
  <2>2. busy[j][1] \in Nat /\ busy[k][1] \in Nat
    BY <1>3, <2>1, BusyIs
  <2> QED BY <2>1, <2>2 DEF C!Sooner
<1>8. Read' = Read
  BY <1>1 DEF Read, C!parse_busy_intervals, C!Timeless
<1>9. \A h : Engaged(h)' <=> Engaged(h)
  BY <1>1, <1>8 DEF Engaged, Takes
<1>10. MergedInv'
  <2>1. left' \in SUBSET Read'
    BY <1>1, <1>2, <1>8 DEF MergedInv
  <2>2. \A j \in 1..Len(merged') : merged'[j][1] < Day
    BY <1>3, <1>5, <1>6, BusyIs
  <2>3. \A j \in 1..Len(merged'), x \in left' : merged'[j][1] <= busy[x][1]
    <3> SUFFICES ASSUME NEW j \in 1..Len(merged'), NEW x \in left' PROVE merged'[j][1] <= busy[x][1]
      OBVIOUS
    <3>1. /\ merged'[j][1] <= busy[k][1] /\ merged'[j][1] \in Nat
          /\ busy[k][1] <= busy[x][1] /\ busy[x][1] \in Nat /\ busy[k][1] \in Nat
      BY <1>3, <1>5, <1>6, <1>7, BusyIs
    <3> QED BY <3>1
  <2>4. ASSUME NEW h \in Nat
        PROVE  Engaged(h) <=> Covers(merged', h) \/ \E x \in left' : Takes(busy[x], h)
    <3>1. Engaged(h) <=> Covers(merged, h) \/ \E x \in left : Takes(busy[x], h)
      BY <1>1, <2>4 DEF MergedInv
    <3>2. Covers(merged', h) <=> Covers(merged, h) \/ Takes(busy[k], h)
      BY <1>5, <2>4
    <3>3. (\E x \in left : Takes(busy[x], h)) <=> Takes(busy[k], h) \/ \E x \in left' : Takes(busy[x], h)
      BY <1>2
    <3> QED BY <3>1, <3>2, <3>3
  <2>5. \A h \in Nat : Engaged(h)' <=> Covers(merged, h)' \/ \E x \in left' : Takes(busy'[x], h)
    BY <1>1, <1>9, <2>4 DEF Covers
  <2> QED BY <1>1, <1>5, <2>1, <2>2, <2>3, <2>5 DEF MergedInv
<1>11. PassedInv'
  <2>1. passed = 0 /\ upTo = 0
    BY <1>1, <1>2 DEF PassedInv
  <2>2. Len(merged') \in Nat
    BY <1>5, LenProperties DEF Apart
  <2> QED BY <1>1, <2>1, <2>2 DEF PassedInv
<1>12. SlotsUpTo(slots, upTo)'
  BY <1>1, <1>9 DEF SlotsUpTo, Free, Fits
<1>13. \A e \in events : Within(e.at)'
  BY <1>1, <1>9 DEF CalInv, Within, Free
<1> QED BY <1>1, <1>10, <1>11, <1>12, <1>13 DEF CalInv

\* What lies before the next interval, or before the end of the day, is free.
LEMMA NextIsFree ==
    ASSUME CalInv, MergedInv, PassedInv, left = {}
    PROVE  /\ upTo \in Nat /\ Len(merged) \in Nat /\ passed \in Nat
           /\ \A j \in 1..Len(merged) : /\ merged[j][1] \in Nat /\ merged[j][2] \in Nat
                                        /\ merged[j][1] < merged[j][2] /\ merged[j][1] < Day
           /\ passed < Len(merged) =>
                 /\ upTo <= merged[passed + 1][1]
                 /\ Free(upTo, merged[passed + 1][1])
           /\ passed = Len(merged) => \A b \in Nat : Free(upTo, b)
<1> DEFINE n == Len(merged)
<1>1. /\ n \in Nat
      /\ \A j \in 1..n : /\ merged[j][1] \in Nat /\ merged[j][2] \in Nat
                         /\ merged[j][1] < merged[j][2] /\ merged[j][1] < Day
      /\ \A j, k \in 1..n : j < k => merged[j][2] < merged[k][1]
  BY ElementOfSeq, LenProperties DEF MergedInv, Apart, Interval
<1>2. passed \in 0..n /\ upTo = IF passed = 0 THEN 0 ELSE merged[passed][2]
  BY DEF PassedInv
<1> HIDE DEF n
<1>3. upTo \in Nat /\ passed \in Nat
  BY <1>1, <1>2
<1>4. \A j \in 1..n : j <= passed => merged[j][2] <= upTo
  <2> SUFFICES ASSUME NEW j \in 1..n, j <= passed PROVE merged[j][2] <= upTo
    OBVIOUS
  <2>1. passed \in 1..n /\ upTo = merged[passed][2]
    BY <1>1, <1>2
  <2>2. CASE j = passed
    BY <1>1, <2>1, <2>2
  <2>3. CASE j # passed
    <3>1. j < passed
      BY <2>1, <2>3
    <3>2. merged[j][2] < merged[passed][1] /\ merged[passed][1] < merged[passed][2]
      BY <1>1, <2>1, <3>1
    <3> QED BY <1>1, <2>1, <3>2
  <2> QED BY <2>2, <2>3
<1>5. \A h \in Nat : Engaged(h) => \E j \in 1..n : merged[j][1] <= h /\ h < merged[j][2]
  BY DEF MergedInv, Covers, Takes, n
<1>6. ASSUME NEW h \in Nat, upTo <= h, Engaged(h)
      PROVE  \E j \in passed + 1..n : merged[j][1] <= h
  <2>1. PICK j \in 1..n : merged[j][1] <= h /\ h < merged[j][2]
    BY <1>5, <1>6
  <2>2. ~(j <= passed)
    BY <1>1, <1>3, <1>4, <1>6, <2>1
  <2> QED BY <1>1, <1>3, <2>1, <2>2
<1>7. ASSUME passed < n
      PROVE  /\ upTo <= merged[passed + 1][1]
             /\ Free(upTo, merged[passed + 1][1])
  <2>1. passed + 1 \in 1..n
    BY <1>1, <1>2, <1>7
  <2>2. upTo <= merged[passed + 1][1]
    <3>1. CASE passed = 0
      BY <1>1, <1>2, <2>1, <3>1
    <3>2. CASE passed # 0
      <4>1. passed \in 1..n /\ passed < passed + 1 /\ upTo = merged[passed][2]
        BY <1>1, <1>2, <3>2
      <4> QED BY <1>1, <2>1, <4>1
    <3> QED BY <3>1, <3>2
  <2>3. \A j \in passed + 1..n : merged[passed + 1][1] <= merged[j][1]
    <3> SUFFICES ASSUME NEW j \in passed + 1..n PROVE merged[passed + 1][1] <= merged[j][1]
      OBVIOUS
    <3>1. CASE j = passed + 1
      BY <1>1, <2>1, <3>1
    <3>2. CASE j # passed + 1
      <4>1. j \in 1..n /\ passed + 1 < j
        BY <1>1, <1>3, <3>2
      <4>2. merged[passed + 1][2] < merged[j][1] /\ merged[passed + 1][1] < merged[passed + 1][2]
        BY <1>1, <2>1, <4>1
      <4> QED BY <1>1, <2>1, <4>1, <4>2
    <3> QED BY <3>1, <3>2
  <2>4. ASSUME NEW h \in Nat, upTo <= h, h < merged[passed + 1][1], Engaged(h) PROVE FALSE
    <3>1. PICK j \in passed + 1..n : merged[j][1] <= h
      BY <1>6, <2>4
    <3>2. merged[j][1] \in Nat /\ merged[passed + 1][1] \in Nat
      BY <1>1, <1>3, <2>1
    <3> QED BY <2>3, <2>4, <3>1, <3>2
  <2> QED BY <2>2, <2>4 DEF Free
<1>8. ASSUME passed = n, NEW b \in Nat PROVE Free(upTo, b)
  <2>1. ASSUME NEW h \in Nat, upTo <= h, Engaged(h) PROVE FALSE
    <3>1. PICK j \in passed + 1..n : merged[j][1] <= h
      BY <1>6, <2>1
    <3> QED BY <1>1, <1>8, <3>1
  <2> QED BY <2>1 DEF Free
<1> QED BY <1>1, <1>3, <1>7, <1>8 DEF n

\* A gap that is long enough becomes a slot.
LEMMA GapIsSlot ==
    ASSUME CalInv, NEW ss, NEW a \in Nat, NEW b \in Nat, b <= Day, SlotsUpTo(ss, a), Free(a, b),
           NEW n \in Nat,
           \A s \in Nat : a <= s /\ s < n /\ s + duration <= Day /\ Free(s, s + duration)
                          => s + duration <= b
    PROVE  SlotsUpTo(ss \o C!Gap(a, b), n)
<1> DEFINE r == ss \o C!Gap(a, b)
           m == Len(ss)
<1>1. /\ ss \in Seq(Interval) /\ m \in Nat
      /\ \A i \in 1..m : ss[i][1] + duration <= ss[i][2] /\ ss[i][2] <= Day /\ Free(ss[i][1], ss[i][2])
      /\ \A s \in Nat : s < a /\ s + duration <= Day /\ Free(s, s + duration)
                        => \E i \in 1..m : Fits(s, ss[i])
  BY LenProperties DEF SlotsUpTo
<1>2. duration \in Nat /\ 1 <= duration /\ Day \in Nat
  BY BusyIs
<1>3. CASE a < b /\ b - a >= duration
  <2> DEFINE g == <<a, b>>
  <2>1. r = ss \o <<g>> /\ g \in Interval /\ g[1] = a /\ g[2] = b /\ g[1] + duration <= g[2]
    BY <1>2, <1>3 DEF C!Gap, Interval
  <2>2. /\ r \in Seq(Interval) /\ Len(r) = m + 1 /\ r[m + 1] = g /\ \A i \in 1..m : r[i] = ss[i]
    <3>1. r = Append(ss, g)
      BY <1>1, <2>1, AppendIsConcat
    <3> QED BY <1>1, <2>1, <3>1, AppendProperties
  <2> HIDE DEF r, m, g
  <2>3. \A i \in 1..m + 1 : r[i][1] + duration <= r[i][2] /\ r[i][2] <= Day /\ Free(r[i][1], r[i][2])
    <3> SUFFICES ASSUME NEW i \in 1..m + 1
                 PROVE  r[i][1] + duration <= r[i][2] /\ r[i][2] <= Day /\ Free(r[i][1], r[i][2])
      OBVIOUS
    <3>1. CASE i = m + 1
      BY <2>1, <2>2, <3>1
    <3>2. CASE i # m + 1
      <4>1. i \in 1..m
        BY <1>1, <3>2
      <4> QED BY <1>1, <2>2, <4>1
    <3> QED BY <3>1, <3>2
  <2>4. \A i \in 1..m + 1 : i = m + 1 \/ i \in 1..m
    BY <1>1
  <2>5. 1..m \subseteq 1..m + 1 /\ m + 1 \in 1..m + 1
    BY <1>1
  <2>6. ASSUME NEW s \in Nat, s < n, s + duration <= Day, Free(s, s + duration)
        PROVE  \E i \in 1..m + 1 : Fits(s, r[i])
    <3>1. CASE s < a
      BY <1>1, <2>2, <2>5, <2>6, <3>1
    <3>2. CASE ~(s < a)
      <4>1. a <= s /\ s + duration <= b
        BY <2>6, <3>2
      <4> QED BY <2>1, <2>2, <2>5, <4>1 DEF Fits
    <3> QED BY <3>1, <3>2
  <2> QED BY <2>2, <2>3, <2>6 DEF SlotsUpTo, r
<1>4. CASE ~(a < b /\ b - a >= duration)
  <2>1. r = ss
    BY <1>1, <1>4, ConcatEmptySeq DEF C!Gap
  <2> HIDE DEF r, m
  <2>2. ASSUME NEW s \in Nat, s < n, s + duration <= Day, Free(s, s + duration)
        PROVE  \E i \in 1..m : Fits(s, ss[i])
    <3>1. CASE s < a
      BY <1>1, <2>2, <3>1
    <3>2. CASE ~(s < a)
      <4>1. a <= s /\ s + duration <= b
        BY <2>2, <3>2
      <4>2. FALSE
        BY <1>2, <1>4, <4>1
      <4> QED BY <4>2
    <3> QED BY <3>1, <3>2
  <2>3. SlotsUpTo(ss, n)
    BY <1>1, <2>2 DEF SlotsUpTo, m
  <2> QED BY <2>1, <2>3 DEF r
<1> QED BY <1>3, <1>4

LEMMA PassOverInv == ASSUME CalInv, C!PassOver PROVE CalInv'
<1> DEFINE i == merged[passed + 1]
<1>1. /\ planner = "sift" /\ left = {} /\ passed < Len(merged)
      /\ MergedInv /\ PassedInv /\ SlotsUpTo(slots, upTo)
      /\ slots' = slots \o C!Gap(upTo, i[1]) /\ upTo' = C!Larger(upTo, i[2])
      /\ passed' = passed + 1
      /\ UNCHANGED <<busy, duration, left, merged, planner, meeting, events>>
  BY DEF C!PassOver, CalInv
<1>2. /\ upTo \in Nat /\ Len(merged) \in Nat /\ passed \in Nat
      /\ i[1] \in Nat /\ i[2] \in Nat /\ i[1] < i[2] /\ i[1] < Day
      /\ upTo <= i[1] /\ Free(upTo, i[1]) /\ passed + 1 \in 1..Len(merged)
  BY <1>1, NextIsFree
<1> HIDE DEF i
<1>3. Day \in Nat /\ duration \in Nat /\ 1 <= duration
  BY BusyIs
<1>4. upTo' = i[2]
  BY <1>1, <1>2 DEF C!Larger
<1>5. \A h \in Nat : i[1] <= h /\ h < i[2] => Engaged(h)
  BY <1>1, <1>2 DEF MergedInv, Covers, Takes, i
<1>6. ASSUME NEW s \in Nat, upTo <= s, s < i[2], Free(s, s + duration)
      PROVE  s + duration <= i[1]
  <2>1. ~(i[1] <= s)
    <3>1. ~Engaged(s)
      BY <1>3, <1>6 DEF Free
    <3> QED BY <1>5, <1>6, <3>1
  <2>2. ASSUME ~(s + duration <= i[1]) PROVE FALSE
    <3>1. s <= i[1] /\ i[1] < s + duration
      BY <1>2, <1>3, <2>1, <2>2
    <3>2. ~Engaged(i[1])
      BY <1>2, <1>6, <3>1 DEF Free
    <3> QED BY <1>2, <1>5, <3>2
  <2> QED BY <2>2
<1>7. SlotsUpTo(slots', i[2])
  <2>1. i[1] <= Day
    BY <1>2, <1>3
  <2> QED BY <1>1, <1>2, <1>6, <2>1, GapIsSlot
<1>8. \A h : Engaged(h)' <=> Engaged(h)
  BY <1>1 DEF Engaged, Takes, Read, C!parse_busy_intervals, C!Timeless
<1>9. SlotsUpTo(slots, upTo)'
  BY <1>1, <1>4, <1>7, <1>8 DEF SlotsUpTo, Free, Fits
<1>10. MergedInv'
  BY <1>1, <1>8 DEF MergedInv, Apart, Covers, Takes, Read, C!parse_busy_intervals, C!Timeless
<1>11. PassedInv'
  BY <1>1, <1>2, <1>4 DEF PassedInv, i
<1>12. \A e \in events : Within(e.at)'
  BY <1>1, <1>8 DEF CalInv, Within, Free
<1> QED BY <1>1, <1>9, <1>10, <1>11, <1>12 DEF CalInv

LEMMA RecommendInv == ASSUME CalInv, C!Recommend PROVE CalInv'
<1>1. /\ planner = "sift" /\ left = {} /\ passed = Len(merged)
      /\ MergedInv /\ PassedInv /\ SlotsUpTo(slots, upTo)
      /\ slots' = slots \o C!Gap(upTo, Day) /\ planner' = "choose"
      /\ UNCHANGED <<busy, duration, meeting, events>>
  BY DEF C!Recommend, CalInv
<1>2. Day \in Nat /\ upTo \in Nat
  BY <1>1, NextIsFree, BusyIs
<1>3. Free(upTo, Day)
  BY <1>1, <1>2, NextIsFree
<1>4. SlotsUpTo(slots', Day)
  BY <1>1, <1>2, <1>3, GapIsSlot
<1>5. \A h : Engaged(h)' <=> Engaged(h)
  BY <1>1 DEF Engaged, Takes, Read, C!parse_busy_intervals, C!Timeless
<1>6. SlotsUpTo(slots, Day)'
  BY <1>1, <1>4, <1>5 DEF SlotsUpTo, Free, Fits
<1>7. \A e \in events : Within(e.at)'
  BY <1>1, <1>5 DEF CalInv, Within, Free
<1> QED BY <1>1, <1>6, <1>7 DEF CalInv

LEMMA FindInv == ASSUME CalInv, C!Find PROVE CalInv'
<1>1. /\ planner = "find" /\ merged = <<>> /\ passed = 0 /\ upTo = 0 /\ slots = <<>>
      /\ left' = Read /\ planner' = "sift"
      /\ UNCHANGED <<busy, duration, merged, passed, upTo, slots, meeting, events>>
  BY DEF C!Find, CalInv, Read
<1>2. \A h : Engaged(h)' <=> Engaged(h)
  BY <1>1 DEF Engaged, Takes, Read, C!parse_busy_intervals, C!Timeless
<1>3. Read' = Read
  BY <1>1 DEF Read, C!parse_busy_intervals, C!Timeless
<1>4. merged' \in Seq(Interval) /\ Len(merged') = 0 /\ slots' \in Seq(Interval) /\ Len(slots') = 0
  BY <1>1, EmptySeq
<1>5. MergedInv'
  BY <1>1, <1>3, <1>4 DEF MergedInv, Apart, Covers, Engaged, Takes
<1>6. PassedInv'
  BY <1>1, <1>4 DEF PassedInv
<1>7. SlotsUpTo(slots, upTo)'
  BY <1>1, <1>4 DEF SlotsUpTo
<1>8. \A e \in events : Within(e.at)'
  BY <1>1, <1>2 DEF CalInv, Within, Free
<1> QED BY <1>1, <1>5, <1>6, <1>7, <1>8 DEF CalInv

\* A step that leaves the engagements alone keeps what is free.
LEMMA StaysFree ==
    ASSUME UNCHANGED <<busy, duration>>
    PROVE  /\ \A i : Within(i)' <=> Within(i)
           /\ \A n : slots' = slots => (SlotsUpTo(slots, n)' <=> SlotsUpTo(slots, n))
<1>1. \A h : Engaged(h)' <=> Engaged(h)
  BY DEF Engaged, Takes, Read, C!parse_busy_intervals, C!Timeless
<1> QED BY <1>1 DEF Within, Free, SlotsUpTo, Fits

LEMMA FindBlindInv == ASSUME CalInv, C!FindBlind PROVE CalInv'
<1>1. planner' = "blind" /\ UNCHANGED <<busy, duration, events>>
  BY DEF C!FindBlind
<1>2. \A e \in events' : Within(e.at)'
  BY <1>1, StaysFree DEF CalInv
<1> QED BY <1>1, <1>2 DEF CalInv

LEMMA AskInv == ASSUME CalInv, C!Ask PROVE CalInv'
<1>1. /\ planner = "choose" /\ SlotsUpTo(slots, Day)
      /\ planner' \in {"create", "search"} /\ UNCHANGED <<busy, duration, slots, events>>
  BY DEF C!Ask, CalInv
<1>2. PICK i \in DOMAIN slots : meeting' = <<slots[i][1], slots[i][1] + duration>>
  BY DEF C!Ask
<1>3. /\ slots[i][1] \in Nat /\ slots[i][2] \in Nat /\ slots[i][1] + duration <= slots[i][2]
      /\ slots[i][2] <= Day /\ Free(slots[i][1], slots[i][2])
  <2>1. i \in 1..Len(slots) /\ slots[i] \in Interval
    BY <1>1, <1>2, ElementOfSeq, LenProperties DEF SlotsUpTo
  <2> QED BY <1>1, <2>1 DEF SlotsUpTo, Interval
<1>4. Day \in Nat /\ duration \in Nat
  BY BusyIs
<1>5. Within(meeting')
  <2> DEFINE a == slots[i][1]
             b == slots[i][2]
  <2>1. a \in Nat /\ b \in Nat /\ a + duration <= b /\ b <= Day /\ Free(a, b)
    BY <1>3
  <2>2. meeting' = <<a, a + duration>>
    BY <1>2
  <2> HIDE DEF a, b
  <2>3. Free(a, a + duration) /\ a + duration <= Day /\ a + duration \in Nat
    BY <1>4, <2>1 DEF Free
  <2> QED BY <2>1, <2>2, <2>3 DEF Within, Interval
<1>6. Within(meeting)'
  BY <1>1, <1>5, StaysFree DEF Within, Free, Engaged, Takes, Read, C!parse_busy_intervals, C!Timeless
<1>7. SlotsUpTo(slots, Day)'
  BY <1>1, StaysFree
<1>8. \A e \in events' : Within(e.at)'
  BY <1>1, StaysFree DEF CalInv
<1> QED BY <1>1, <1>6, <1>7, <1>8 DEF CalInv

LEMMA SearchInv == ASSUME CalInv, C!SearchRoom PROVE CalInv'
<1>1. /\ planner = "search" /\ planner' \in {"search", "create", "refused"}
      /\ UNCHANGED <<busy, duration, slots, meeting, events>>
  BY DEF C!SearchRoom
<1>2. SlotsUpTo(slots, Day)' /\ Within(meeting)'
  BY <1>1, StaysFree DEF CalInv, Within, Free, Engaged, Takes, Read, C!parse_busy_intervals, C!Timeless
<1>3. \A e \in events' : Within(e.at)'
  BY <1>1, StaysFree DEF CalInv
<1> QED BY <1>1, <1>2, <1>3 DEF CalInv

LEMMA TakenInv ==
    ASSUME CalInv, UNCHANGED <<busy, duration, left, merged, passed, upTo, slots, planner, meeting, events>>
    PROVE  CalInv'
<1>1. MergedInv' <=> MergedInv
  BY DEF MergedInv, Apart, Covers, Engaged, Takes, Read, C!parse_busy_intervals, C!Timeless
<1>2. PassedInv' <=> PassedInv
  BY DEF PassedInv
<1>3. (SlotsUpTo(slots, upTo)' <=> SlotsUpTo(slots, upTo)) /\ (SlotsUpTo(slots, Day)' <=> SlotsUpTo(slots, Day))
  BY DEF SlotsUpTo, Free, Fits, Engaged, Takes, Read, C!parse_busy_intervals, C!Timeless
<1>4. (Within(meeting)' <=> Within(meeting)) /\ \A e \in events' : Within(e.at)'
  BY StaysFree DEF CalInv, Within, Free, Engaged, Takes, Read, C!parse_busy_intervals, C!Timeless
<1> QED BY <1>1, <1>2, <1>3, <1>4 DEF CalInv

LEMMA CreateInv == ASSUME CalInv, C!Create PROVE CalInv'
<1>1. /\ planner = "create" /\ planner' \in {"done", "failed"}
      /\ UNCHANGED <<busy, duration, slots, meeting>>
      /\ Within(meeting) /\ SlotsUpTo(slots, Day)
      /\ events' = events \/ events' = events \cup {[at |-> meeting, room |-> room]}
  BY DEF C!Create, CalInv
<1>2. \A e \in events' : Within(e.at)
  BY <1>1 DEF CalInv
<1>3. SlotsUpTo(slots, Day)' /\ Within(meeting)'
  BY <1>1, StaysFree DEF Within, Free, Engaged, Takes, Read, C!parse_busy_intervals, C!Timeless
<1>4. \A e \in events' : Within(e.at)'
  BY <1>1, <1>2, StaysFree
<1> QED BY <1>1, <1>3, <1>4 DEF CalInv

LEMMA CalInit == C!Init => CalInv
<1> SUFFICES ASSUME C!Init PROVE CalInv
  OBVIOUS
<1>1. \E n \in 0..MaxBusy : busy \in [1..n -> C!Engagements \cup {C!Timeless}]
  BY DEF C!Init
<1> QED BY <1>1 DEF C!Init, CalInv

LEMMA CalStep == ASSUME CalInv, [C!Next]_(C!vars) PROVE CalInv'
<1>1. CASE C!Find
  BY <1>1, FindInv
<1>2. CASE C!Merge
  BY <1>2, MergeInv
<1>3. CASE C!PassOver
  BY <1>3, PassOverInv
<1>4. CASE C!Recommend
  BY <1>4, RecommendInv
<1>5. CASE C!FindBlind
  BY <1>5, FindBlindInv
<1>6. CASE C!Ask
  BY <1>6, AskInv
<1>7. CASE C!SearchRoom
  BY <1>7, SearchInv
<1>8. CASE C!RoomTaken
  BY <1>8, TakenInv DEF C!RoomTaken, C!sifting
<1>9. CASE C!Create
  BY <1>9, CreateInv
<1>10. CASE UNCHANGED C!vars
  BY <1>10, TakenInv DEF C!vars, C!sifting
<1> QED BY <1>1, <1>2, <1>3, <1>4, <1>5, <1>6, <1>7, <1>8, <1>9, <1>10
       DEF C!Next, C!find_free_slots

\* A window lies in the free hours exactly when it lies in a slot.
LEMMA FreeIsShown == CalInv => C!SlotsExact
<1> SUFFICES ASSUME CalInv PROVE C!SlotsExact
  OBVIOUS
<1>1. Day \in Nat /\ duration \in Nat /\ 1 <= duration /\ duration <= Day
  BY BusyIs DEF CalInv
<1>2. ASSUME NEW e \in events PROVE C!Hours(e.at) \subseteq C!FreeHours
  <2>1. Within(e.at)
    BY <1>2 DEF CalInv
  <2>2. e.at[1] \in Nat /\ e.at[2] \in Nat /\ e.at[2] <= Day /\ Free(e.at[1], e.at[2])
    BY <2>1 DEF Within, Interval
  <2> QED BY <2>2, FreeIsFree DEF C!Hours
<1>3. ASSUME planner \notin {"find", "sift", "blind"}, NEW s \in 0..Day - duration
      PROVE  (s..(s + duration) - 1 \subseteq C!FreeHours)
               <=> \E i \in DOMAIN slots : s..(s + duration) - 1 \subseteq C!Hours(slots[i])
  <2>1. SlotsUpTo(slots, Day)
    BY <1>3 DEF CalInv
  <2>2. s \in Nat /\ s + duration \in Nat /\ s + duration <= Day /\ s < Day
    BY <1>1
  <2>3. (s..(s + duration) - 1 \subseteq C!FreeHours) <=> Free(s, s + duration)
    BY <2>2, FreeIsFree
  <2>4. DOMAIN slots = 1..Len(slots) /\ \A i \in 1..Len(slots) : slots[i][1] \in Nat /\ slots[i][2] \in Nat
    BY <2>1, ElementOfSeq, LenProperties DEF SlotsUpTo, Interval
  <2>5. ASSUME NEW i \in 1..Len(slots)
        PROVE  (s..(s + duration) - 1 \subseteq C!Hours(slots[i])) <=> Fits(s, slots[i])
    <3> DEFINE a == slots[i][1]
               b == slots[i][2]
    <3>1. a \in Nat /\ b \in Nat
      BY <2>4, <2>5
    <3> HIDE DEF a, b
    <3>2. (s..(s + duration) - 1 \subseteq a..b - 1) <=> a <= s /\ s + duration <= b
      <4>1. ASSUME s..(s + duration) - 1 \subseteq a..b - 1 PROVE a <= s /\ s + duration <= b
        <5>1. s \in a..b - 1 /\ (s + duration) - 1 \in a..b - 1
          BY <1>1, <2>2, <4>1
        <5> QED BY <1>1, <2>2, <3>1, <5>1
      <4>2. ASSUME a <= s, s + duration <= b PROVE s..(s + duration) - 1 \subseteq a..b - 1
        BY <1>1, <2>2, <3>1, <4>2
      <4> QED BY <4>1, <4>2
    <3> QED BY <3>2 DEF C!Hours, Fits, a, b
  <2>6. Free(s, s + duration) <=> \E i \in 1..Len(slots) : Fits(s, slots[i])
    <3>1. ASSUME NEW i \in 1..Len(slots), Fits(s, slots[i]) PROVE Free(s, s + duration)
      <4>1. Free(slots[i][1], slots[i][2]) /\ slots[i][1] \in Nat /\ slots[i][2] \in Nat
        BY <2>1, <2>4, <3>1 DEF SlotsUpTo
      <4>2. slots[i][1] <= s /\ s + duration <= slots[i][2]
        BY <3>1 DEF Fits
      <4> QED BY <2>2, <4>1, <4>2 DEF Free
    <3> QED BY <2>1, <2>2, <3>1 DEF SlotsUpTo
  <2> QED BY <2>3, <2>4, <2>5, <2>6
<1> QED BY <1>2, <1>3 DEF C!SlotsExact, C!Hours

\* What the calendar's finder recommends is what is free, and what a summary
\* calls complete is whole, for any engagements, lists and limits.
THEOREM ShownExactly == C!Spec /\ S!Spec => []ShownIsExact
<1>1. C!Spec => []C!SlotsExact
  BY CalInit, CalStep, FreeIsShown, PTL DEF C!Spec
<1> QED BY <1>1, CompleteListsAreWhole, PTL DEF ShownIsExact

---------------------------------------------------------------------------
(* Proxy: a conversation is translated a block at a time                   *)

SentMessages == [role : {"system", "user", "assistant", "tool"}, calls : Seq(CallIds)]

\* What stands behind message i of those sent, up to its end, are the results
\* among the first n blocks of message m, each of them once.
Behind(s, i, m, n) ==
    /\ \A j \in (i + 1)..Len(s) : \E k \in 1..n :
         k \in X!BlocksOf(m, "tool_result") /\ s[j] = X!Sent("tool", <<m.blocks[k].id>>)
    /\ \A k \in 1..n : k \in X!BlocksOf(m, "tool_result") =>
         \E j \in (i + 1)..Len(s) : s[j] = X!Sent("tool", <<m.blocks[k].id>>)
    /\ \A j, h \in (i + 1)..Len(s) : s[j] = s[h] => j = h

\* Message i of those sent makes the calls of message a of the body, between
\* which and the one being read there are only system messages.
Pending(s, i, r) ==
    \E a \in 1..(r.m - 1) :
       /\ r.messages[a].role = "assistant"
       /\ X!ToSet(s[i].calls) = X!IdsOf(r.messages[a], "tool_use")
       /\ \A h \in (a + 1)..(r.m - 1) : r.messages[h].role = "system"
       /\ Behind(s, i, r.messages[r.m], r.b - 1)

CallsSoFar(r) == {r.messages[r.m].blocks[k].id :
                    k \in {k \in X!BlocksOf(r.messages[r.m], "tool_use") : k < r.b}}

Readings == [messages : {c \in Seq(X!Messages) : X!WellFormed(c)}, m : Nat \ {0}, b : Nat \ {0},
             calls : Seq(CallIds), content : BOOLEAN, system : BOOLEAN]

Underway(s, r) ==
    /\ r \in Readings /\ r.m <= Len(r.messages) + 1
    /\ r.m > Len(r.messages) \/ r.messages[r.m].role = "system" => r.b = 1
    /\ r.m <= Len(r.messages) => r.b <= Len(r.messages[r.m].blocks) + 1
    /\ r.m <= Len(r.messages) /\ r.messages[r.m].role = "assistant" =>
         X!ToSet(r.calls) = CallsSoFar(r)
    /\ r.m <= Len(r.messages) /\ r.messages[r.m].role # "assistant" => r.calls = <<>>
    /\ r.b = 1 => r.calls = <<>>
    /\ \A i \in DOMAIN s : s[i].role = "assistant" => X!Answered(s, i) \/ Pending(s, i, r)

TranslationInv ==
    /\ asked \in Seq(SentMessages)
    /\ phase = "idle" => asked = <<>>
    /\ phase = "translate" => Underway(asked, reading)
    /\ X!ToolsAnswered

LEMMA AnsweredStays ==
    ASSUME NEW T, NEW s \in Seq(T), NEW e \in T, NEW i \in DOMAIN s, X!Answered(s, i)
    PROVE  X!Answered(Append(s, e), i)
<1>1. Len(s) \in Nat /\ DOMAIN s = 1..Len(s) /\ DOMAIN Append(s, e) = 1..Len(s) + 1
  BY LenProperties, AppendProperties
<1>2. \A k \in 1..Len(s) : Append(s, e)[k] = s[k]
  BY AppendProperties
<1> QED
  BY <1>1, <1>2 DEF X!Answered

LEMMA AnsweredShifted ==
    ASSUME NEW T, NEW p \in Seq(T), NEW s \in Seq(T), NEW i \in DOMAIN s, X!Answered(s, i)
    PROVE  X!Answered(p \o s, Len(p) + i)
<1>1. /\ Len(s) \in Nat /\ DOMAIN s = 1..Len(s) /\ Len(p) \in Nat
      /\ DOMAIN (p \o s) = 1..Len(p) + Len(s)
  BY LenProperties, ConcatProperties
<1>2. \A k \in 1..Len(s) : (p \o s)[Len(p) + k] = s[k]
  BY <1>1, ConcatProperties
<1>3. (p \o s)[Len(p) + i] = s[i]
  BY <1>1, <1>2
<1> QED
  <2> SUFFICES ASSUME NEW c \in X!ToSet(s[i].calls)
               PROVE  \E j \in 1..Len(s[i].calls) :
                        /\ (Len(p) + i) + j \in DOMAIN (p \o s)
                        /\ (p \o s)[(Len(p) + i) + j] = X!Sent("tool", <<c>>)
    BY <1>3 DEF X!Answered
  <2>1. PICK j \in 1..Len(s[i].calls) : i + j \in DOMAIN s /\ s[i + j] = X!Sent("tool", <<c>>)
    BY DEF X!Answered
  <2> DEFINE k == i + j
             n == (Len(p) + i) + j
  <2>2. i \in Int /\ k \in 1..Len(s)
    BY <1>1, <2>1
  <2>3. CASE j \in Int
    <3>1. n = Len(p) + k /\ n \in 1..Len(p) + Len(s)
      BY <1>1, <2>2, <2>3
    <3>2. (p \o s)[Len(p) + k] = s[k] /\ s[k] = X!Sent("tool", <<c>>)
      BY <1>2, <2>1, <2>2
    <3> HIDE DEF k
    <3> QED
      BY <1>1, <3>1, <3>2
  <2>4. 1..Len(s[i].calls) \subseteq Int
    OBVIOUS
  <2> QED
    BY <2>3, <2>4

\* A message whose calls are all among the results behind it, each of them
\* once, has them right behind it: there are no more results than calls.
LEMMA CollectedAnswers ==
    ASSUME NEW s \in Seq(SentMessages), NEW i \in DOMAIN s, NEW m \in X!Messages,
           Behind(s, i, m, Len(m.blocks)),
           X!IdsOf(m, "tool_result") = X!ToSet(s[i].calls)
    PROVE  X!Answered(s, i)
<1> DEFINE calls == s[i].calls
           tail == (i + 1)..Len(s)
           Called == X!ToSet(calls)
<1>1. /\ Len(s) \in Nat /\ DOMAIN s = 1..Len(s) /\ i \in 1..Len(s)
      /\ calls \in Seq(CallIds) /\ Len(calls) \in Nat /\ DOMAIN calls = 1..Len(calls)
  <2>1. Len(s) \in Nat /\ DOMAIN s = 1..Len(s)
    BY LenProperties
  <2>2. s[i] \in SentMessages
    BY <2>1, ElementOfSeq
  <2>3. calls \in Seq(CallIds)
    BY <2>2 DEF SentMessages
  <2> QED
    BY <2>1, <2>3, LenProperties
<1>2. /\ m.blocks \in Seq([type : {"text", "image", "tool_use", "tool_result"}, id : CallIds])
      /\ Len(m.blocks) \in Nat /\ DOMAIN m.blocks = 1..Len(m.blocks)
  BY LenProperties DEF X!Messages
<1>3. IsFiniteSet(Called) /\ Cardinality(Called) <= Len(calls) /\ Cardinality(Called) \in Nat
  <2> DEFINE f == [k \in 1..Len(calls) |-> calls[k]]
  <2>1. f \in Surjection(1..Len(calls), Called)
    BY <1>1 DEF Surjection, X!ToSet
  <2>2. IsFiniteSet(1..Len(calls)) /\ Cardinality(1..Len(calls)) = Len(calls)
    <3> DEFINE n == Len(calls)
    <3>1. n \in Nat
      BY <1>1
    <3> HIDE DEF n
    <3> QED BY <3>1, FS_Interval
  <2> HIDE DEF f, Called, calls
  <2> QED
    BY <2>1, <2>2, FS_Surjection, FS_CardinalityType
<1>4. \A j \in tail : \E c \in Called : s[j] = X!Sent("tool", <<c>>)
  <2> SUFFICES ASSUME NEW j \in tail PROVE \E c \in Called : s[j] = X!Sent("tool", <<c>>)
    OBVIOUS
  <2>1. PICK k \in 1..Len(m.blocks) :
          k \in X!BlocksOf(m, "tool_result") /\ s[j] = X!Sent("tool", <<m.blocks[k].id>>)
    BY DEF Behind
  <2> QED
    BY <2>1 DEF X!IdsOf
<1>5. Len(s) - i <= Len(calls)
  <2> DEFINE g == [j \in tail |-> s[j].calls[1]]
  <2>1. \A j \in tail : g[j] \in Called /\ s[j] = X!Sent("tool", <<g[j]>>)
    <3>1. \A c : \A j \in tail : s[j] = X!Sent("tool", <<c>>) => s[j].calls[1] = c
      BY DEF X!Sent
    <3> QED
      BY <1>4, <3>1
  <2>2. \A j, h \in tail : s[j] = s[h] => j = h
    BY DEF Behind
  <2>3. g \in Injection(tail, Called)
    <3>1. g \in [tail -> Called]
      BY <2>1
    <3>2. \A j, h \in tail : g[j] = g[h] => j = h
      <4> HIDE DEF g, tail
      <4> QED BY <2>1, <2>2
    <3> HIDE DEF Called, tail, g
    <3> QED BY <3>1, <3>2 DEF Injection, IsInjective
  <2>4. IsFiniteSet(tail) /\ Cardinality(tail) = Len(s) - i
    <3>1. /\ i + 1 \in Int /\ Len(s) \in Int /\ Len(s) - (i + 1) + 1 = Len(s) - i
          /\ i + 1 > Len(s) => Len(s) - i = 0
      BY <1>1
    <3> QED BY <3>1, FS_Interval
  <2> HIDE DEF g, Called, tail
  <2>5. Cardinality(tail) <= Cardinality(Called)
    BY <1>3, <2>3, FS_Injection
  <2> QED
    BY <1>1, <1>3, <2>4, <2>5
<1> QED
  <2> SUFFICES ASSUME NEW c \in Called
               PROVE  \E j \in 1..Len(calls) : i + j \in DOMAIN s /\ s[i + j] = X!Sent("tool", <<c>>)
    BY DEF X!Answered
  <2>1. PICK k \in X!BlocksOf(m, "tool_result") : m.blocks[k].id = c
    BY DEF X!IdsOf
  <2>2. k \in 1..Len(m.blocks)
    BY <1>2 DEF X!BlocksOf
  <2>3. PICK j \in tail : s[j] = X!Sent("tool", <<c>>)
    BY <2>1, <2>2 DEF Behind
  <2>4. j - i \in 1..Len(calls) /\ i + (j - i) = j /\ j \in DOMAIN s
    BY <1>1, <1>5
  <2> QED
    BY <2>3, <2>4

\* One more block is read: a result joins those collected, and another block
\* changes nothing.
LEMMA CollectsMore ==
    ASSUME NEW s \in Seq(SentMessages), NEW i \in DOMAIN s, NEW m \in X!Messages, NEW n \in Nat,
           n + 1 \in DOMAIN m.blocks, Behind(s, i, m, n),
           \A x, y \in X!BlocksOf(m, "tool_result") : m.blocks[x].id = m.blocks[y].id => x = y
    PROVE  IF n + 1 \in X!BlocksOf(m, "tool_result")
           THEN Behind(Append(s, X!Sent("tool", <<m.blocks[n + 1].id>>)), i, m, n + 1)
           ELSE Behind(s, i, m, n + 1)
<1> DEFINE results == X!BlocksOf(m, "tool_result")
           Result(k) == X!Sent("tool", <<m.blocks[k].id>>)
           tail == (i + 1)..Len(s)
<1>1. /\ \A j \in tail : \E k \in 1..n : k \in results /\ s[j] = Result(k)
      /\ \A k \in 1..n : k \in results => \E j \in tail : s[j] = Result(k)
      /\ \A j, h \in tail : s[j] = s[h] => j = h
  BY DEF Behind
<1>2. Len(s) \in Nat /\ i \in 1..Len(s) /\ 1..n + 1 = 1..n \cup {n + 1} /\ n + 1 \notin 1..n
  BY LenProperties
<1>3. CASE n + 1 \notin results
  <2> HIDE DEF results, Result, tail
  <2>1. /\ \A j \in tail : \E k \in 1..n + 1 : k \in results /\ s[j] = Result(k)
        /\ \A k \in 1..n + 1 : k \in results => \E j \in tail : s[j] = Result(k)
    BY <1>1, <1>2, <1>3
  <2> QED
    BY <1>1, <1>3, <2>1 DEF Behind, results, Result, tail
<1>4. CASE n + 1 \in results
  <2> DEFINE e == Result(n + 1)
             t == Append(s, e)
             last == Len(s) + 1
             longer == (i + 1)..last
  <2>1. longer = tail \cup {last} /\ last \notin tail /\ last \in Nat
    BY <1>2
  <2>2. Len(t) = last /\ t[last] = e /\ \A j \in tail : t[j] = s[j]
    <3>1. \A j \in tail : j \in 1..Len(s)
      BY <1>2
    <3> HIDE DEF e
    <3> QED BY <3>1, <1>2
  <2>3. \A j \in longer : \E k \in 1..n + 1 : k \in results /\ t[j] = Result(k)
    <3> HIDE DEF results, Result, tail, t, longer, last
    <3> QED BY <1>1, <1>2, <1>4, <2>1, <2>2
  <2>4. \A k \in 1..n + 1 : k \in results => \E j \in longer : t[j] = Result(k)
    <3> HIDE DEF results, Result, tail, t, longer, last
    <3> QED BY <1>1, <1>2, <1>4, <2>1, <2>2
  <2>5. \A j \in tail : s[j] # e
    <3> SUFFICES ASSUME NEW j \in tail, s[j] = e PROVE FALSE
      OBVIOUS
    <3>1. PICK k \in 1..n : k \in results /\ Result(k) = Result(n + 1)
      <4> HIDE DEF results, Result, tail
      <4> QED BY <1>1
    <3>2. m.blocks[k].id = m.blocks[n + 1].id
      BY <3>1 DEF X!Sent
    <3> HIDE DEF Result
    <3> QED
      BY <3>1, <3>2, <1>2, <1>4
  <2>6. \A j, h \in longer : t[j] = t[h] => j = h
    <3> HIDE DEF results, Result, tail, t, e, longer, last
    <3> QED BY <1>1, <2>1, <2>2, <2>5
  <2>7. (i + 1)..Len(t) = longer
    BY <2>2
  <2> HIDE DEF t, longer
  <2>8. Behind(t, i, m, n + 1)
    BY <2>3, <2>4, <2>6, <2>7 DEF Behind
  <2> QED
    BY <1>4, <2>8 DEF t
<1> QED
  BY <1>3, <1>4

\* A message of the sender other than a system message, while calls of an
\* earlier one are unanswered: it is the user's, and has their results.
LEMMA Expected ==
    ASSUME NEW s \in Seq(SentMessages), NEW i \in DOMAIN s, NEW r, Underway(s, r),
           Pending(s, i, r), ~X!Answered(s, i),
           r.m <= Len(r.messages), r.messages[r.m].role # "system"
    PROVE  LET m == r.messages[r.m]
           IN /\ m.role = "user"
              /\ X!IdsOf(m, "tool_result") = X!ToSet(s[i].calls)
              /\ \A x, y \in X!BlocksOf(m, "tool_result") : m.blocks[x].id = m.blocks[y].id => x = y
              /\ Behind(s, i, m, r.b - 1)
<1> DEFINE c == r.messages
<1>1. /\ c \in Seq(X!Messages) /\ X!WellFormed(c) /\ r.m \in Nat \ {0} /\ r.m <= Len(c)
  BY DEF Underway, Readings
<1>2. PICK a \in 1..(r.m - 1) :
       /\ c[a].role = "assistant"
       /\ X!ToSet(s[i].calls) = X!IdsOf(c[a], "tool_use")
       /\ \A h \in (a + 1)..(r.m - 1) : c[h].role = "system"
       /\ Behind(s, i, c[r.m], r.b - 1)
  BY DEF Pending
<1>3. X!BlocksOf(c[a], "tool_use") # {}
  <2>1. X!ToSet(s[i].calls) # {}
    BY DEF X!Answered
  <2> QED
    BY <1>2, <2>1 DEF X!IdsOf
<1>4. a \in DOMAIN c /\ r.m \in DOMAIN c /\ a < r.m
  <2>1. Len(c) \in Nat /\ DOMAIN c = 1..Len(c)
    BY <1>1, LenProperties
  <2> QED
    BY <1>1, <1>2, <2>1
<1>5. X!Follows(c, a, r.m)
  BY <1>2, <1>4 DEF X!Follows
<1> QED
  BY <1>1, <1>2, <1>3, <1>4, <1>5 DEF X!WellFormed

\* Behind the last message that makes calls there is nothing yet.
LEMMA NothingCollected ==
    ASSUME NEW s \in Seq(SentMessages), NEW i \in DOMAIN s, NEW m
    PROVE  Behind(s, i, m, 0) <=> i = Len(s)
<1>1. Len(s) \in Nat /\ i \in 1..Len(s) /\ 1..0 = {}
  BY LenProperties
<1>2. CASE i = Len(s)
  <2>1. (i + 1)..Len(s) = {}
    BY <1>1, <1>2
  <2> QED
    BY <1>1, <1>2, <2>1 DEF Behind
<1>3. CASE i # Len(s)
  <2>1. Len(s) \in (i + 1)..Len(s)
    BY <1>1, <1>3
  <2> QED
    BY <1>1, <1>3, <2>1 DEF Behind
<1> QED
  BY <1>2, <1>3

LEMMA NextReading ==
    ASSUME NEW r \in Readings, NEW sys \in BOOLEAN
    PROVE  LET q == [X!NextMessage(r) EXCEPT !.system = sys]
           IN /\ q \in Readings /\ X!NextMessage(r) \in Readings
              /\ q.m = r.m + 1 /\ q.b = 1 /\ q.calls = <<>> /\ q.messages = r.messages
              /\ X!NextMessage(r).m = r.m + 1 /\ X!NextMessage(r).b = 1
              /\ X!NextMessage(r).calls = <<>> /\ X!NextMessage(r).messages = r.messages
<1>1. r.m + 1 \in Nat \ {0} /\ 1 \in Nat \ {0} /\ <<>> \in Seq(CallIds)
  BY DEF Readings
<1> QED
  BY <1>1 DEF Readings, X!NextMessage

LEMMA MessageOfBody ==
    ASSUME NEW r \in Readings, r.m <= Len(r.messages)
    PROVE  LET m == r.messages[r.m]
           IN /\ m \in X!Messages /\ Len(m.blocks) \in Nat /\ DOMAIN m.blocks = 1..Len(m.blocks)
              /\ r.b <= Len(m.blocks) => r.b \in DOMAIN m.blocks
<1>1. r.messages \in Seq(X!Messages) /\ r.m \in Nat \ {0} /\ r.b \in Nat \ {0}
  BY DEF Readings
<1>2. r.m \in 1..Len(r.messages)
  BY <1>1, LenProperties
<1>3. r.messages[r.m] \in X!Messages
  BY <1>1, <1>2, ElementOfSeq
<1> QED
  BY <1>1, <1>3, LenProperties DEF X!Messages

LEMMA AppendedSet ==
    ASSUME NEW T, NEW s \in Seq(T), NEW e \in T
    PROVE  X!ToSet(Append(s, e)) = X!ToSet(s) \cup {e}
<1>1. /\ Len(s) \in Nat /\ DOMAIN s = 1..Len(s) /\ DOMAIN Append(s, e) = 1..Len(s) + 1
      /\ Append(s, e)[Len(s) + 1] = e
  BY LenProperties, AppendProperties
<1>2. \A k \in 1..Len(s) : Append(s, e)[k] = s[k]
  BY AppendProperties
<1>3. 1..Len(s) + 1 = 1..Len(s) \cup {Len(s) + 1}
  BY <1>1
<1> QED
  BY <1>1, <1>2, <1>3 DEF X!ToSet

\* A message that begins: no block of it has been read.
LEMMA FreshMessage ==
    ASSUME NEW s, NEW q \in Readings, q.m <= Len(q.messages) + 1, q.b = 1, q.calls = <<>>,
           \A i \in DOMAIN s : s[i].role = "assistant" => X!Answered(s, i) \/ Pending(s, i, q)
    PROVE  Underway(s, q)
<1>1. q.m <= Len(q.messages) => CallsSoFar(q) = {} /\ 1 <= Len(q.messages[q.m].blocks) + 1
  <2> SUFFICES ASSUME q.m <= Len(q.messages)
               PROVE  CallsSoFar(q) = {} /\ 1 <= Len(q.messages[q.m].blocks) + 1
    OBVIOUS
  <2> DEFINE m == q.messages[q.m]
  <2>1. Len(m.blocks) \in Nat /\ DOMAIN m.blocks = 1..Len(m.blocks)
    BY MessageOfBody
  <2>2. {k \in X!BlocksOf(m, "tool_use") : k < q.b} = {}
    BY <2>1 DEF X!BlocksOf
  <2> QED
    BY <2>1, <2>2 DEF CallsSoFar
<1>2. X!ToSet(<<>>) = {}
  BY DEF X!ToSet
<1> QED
  BY <1>1, <1>2 DEF Underway

LEMMA RequestTranslates ==
    ASSUME TranslationInv, X!Request PROVE TranslationInv'
<1>1. PICK c \in Conversations : reading' = X!Read(c)
  BY DEF X!Request
<1>2. c \in Seq(X!Messages) /\ X!WellFormed(c) /\ Len(c) \in Nat /\ DOMAIN c = 1..Len(c)
  BY ConversationAssumption, LenProperties DEF X!WellFormed
<1>3. asked = <<>> /\ asked' = asked /\ phase' = "translate"
  BY DEF X!Request, TranslationInv
<1>4. X!Read(c) \in Readings
  <2>1. 1 \in Nat \ {0} /\ <<>> \in Seq(CallIds) /\ FALSE \in BOOLEAN
    OBVIOUS
  <2> QED
    BY <1>2, <2>1 DEF X!Read, Readings
<1>7. Underway(<<>>, X!Read(c))
  <2>1. /\ X!Read(c).messages = c /\ X!Read(c).m = 1 /\ X!Read(c).b = 1 /\ X!Read(c).calls = <<>>
    BY DEF X!Read
  <2> QED
    BY <1>2, <1>4, <2>1, FreshMessage
<1> QED
  BY <1>1, <1>3, <1>7 DEF TranslationInv, X!ToolsAnswered

LEMMA SystemTranslates ==
    ASSUME TranslationInv, X!SkipSystem PROVE TranslationInv'
<1> DEFINE r == reading
           q == [X!NextMessage(r) EXCEPT !.system = TRUE]
           c == r.messages
<1>1. /\ r.m <= Len(c) /\ c[r.m].role = "system" /\ reading' = q
      /\ asked' = asked /\ phase = "translate" /\ phase' = "translate"
  BY DEF X!SkipSystem, X!Message
<1>2. Underway(asked, r) /\ asked \in Seq(SentMessages)
  BY <1>1 DEF TranslationInv
<1>3. r \in Readings /\ r.b = 1 /\ r.m \in Nat \ {0}
  BY <1>1, <1>2 DEF Underway, Readings
<1>4. /\ q \in Readings /\ q.m = r.m + 1 /\ q.b = 1 /\ q.calls = <<>> /\ q.messages = c
  BY <1>3, NextReading
<1> HIDE DEF q
<1>5. ASSUME NEW i \in DOMAIN asked, Pending(asked, i, r)
      PROVE  Pending(asked, i, q)
  <2>1. PICK a \in 1..(r.m - 1) :
           /\ c[a].role = "assistant"
           /\ X!ToSet(asked[i].calls) = X!IdsOf(c[a], "tool_use")
           /\ \A h \in (a + 1)..(r.m - 1) : c[h].role = "system"
           /\ Behind(asked, i, c[r.m], r.b - 1)
    BY <1>5 DEF Pending
  <2>2. r.b - 1 = 0 /\ q.b - 1 = 0 /\ a \in 1..(q.m - 1) /\ q.m - 1 = r.m
    BY <1>3, <1>4
  <2>3. Behind(asked, i, c[q.m], q.b - 1)
    BY <1>2, <2>1, <2>2, NothingCollected
  <2>4. \A h \in (a + 1)..(q.m - 1) : h = r.m \/ h \in (a + 1)..(r.m - 1)
    BY <1>3, <2>2
  <2>5. \A h \in (a + 1)..(q.m - 1) : c[h].role = "system"
    BY <1>1, <2>1, <2>4
  <2> QED
    BY <1>4, <2>1, <2>2, <2>3, <2>5 DEF Pending
<1>6. Underway(asked, q)
  <2>1. c \in Seq(X!Messages) /\ Len(c) \in Nat
    BY <1>3, LenProperties DEF Readings
  <2>2. q.m <= Len(q.messages) + 1
    BY <1>1, <1>3, <1>4, <2>1
  <2>3. \A i \in DOMAIN asked : asked[i].role = "assistant" => X!Answered(asked, i) \/ Pending(asked, i, q)
    BY <1>2, <1>5 DEF Underway
  <2> QED
    BY <1>4, <2>2, <2>3, FreshMessage
<1> QED
  BY <1>1, <1>2, <1>6 DEF TranslationInv, X!ToolsAnswered

LEMMA AssistantTranslates ==
    ASSUME TranslationInv, X!AssistantBlock PROVE TranslationInv'
<1> DEFINE r == reading
           c == r.messages
           m == c[r.m]
           k == r.b
<1>1. /\ r.m <= Len(c) /\ m.role = "assistant" /\ k <= Len(m.blocks)
      /\ reading' = [r EXCEPT !.b = @ + 1,
            !.calls = IF m.blocks[k].type = "tool_use" THEN Append(@, m.blocks[k].id) ELSE @]
      /\ asked' = asked /\ phase = "translate" /\ phase' = "translate"
  BY DEF X!AssistantBlock, X!Message, X!BlockRead
<1>2. Underway(asked, r) /\ asked \in Seq(SentMessages)
  BY <1>1 DEF TranslationInv
<1>3. r \in Readings /\ k \in Nat \ {0} /\ r.m \in Nat \ {0} /\ r.calls \in Seq(CallIds)
  BY <1>2 DEF Underway, Readings
<1>4. m \in X!Messages /\ DOMAIN m.blocks = 1..Len(m.blocks) /\ Len(m.blocks) \in Nat /\ k \in DOMAIN m.blocks
  BY <1>1, <1>3, MessageOfBody
<1>5. m.blocks[k].id \in CallIds
  <2>1. m.blocks \in Seq([type : {"text", "image", "tool_use", "tool_result"}, id : CallIds])
    BY <1>4 DEF X!Messages
  <2>2. m.blocks[k] \in [type : {"text", "image", "tool_use", "tool_result"}, id : CallIds]
    BY <1>4, <2>1, ElementOfSeq
  <2> QED
    BY <2>2
<1> DEFINE calls == IF m.blocks[k].type = "tool_use" THEN Append(r.calls, m.blocks[k].id) ELSE r.calls
<1>6. calls \in Seq(CallIds) /\ X!ToSet(calls) = X!ToSet(r.calls) \cup
                                 (IF m.blocks[k].type = "tool_use" THEN {m.blocks[k].id} ELSE {})
  <2>1. X!ToSet(Append(r.calls, m.blocks[k].id)) = X!ToSet(r.calls) \cup {m.blocks[k].id}
    BY <1>3, <1>5, AppendedSet
  <2> QED
    BY <1>3, <1>5, <2>1
<1>7. PICK q : q = [r EXCEPT !.b = @ + 1, !.calls = calls]
  OBVIOUS
<1>8. /\ q \in Readings /\ q.m = r.m /\ q.b = k + 1 /\ q.calls = calls /\ q.messages = c
      /\ reading' = q
  <2>1. k + 1 \in Nat \ {0}
    BY <1>3
  <2> HIDE DEF calls
  <2>2. q \in Readings /\ q.m = r.m /\ q.b = k + 1 /\ q.calls = calls /\ q.messages = c
    BY <1>3, <1>6, <1>7, <2>1 DEF Readings
  <2>3. reading' = q
    BY <1>1, <1>7 DEF calls
  <2> QED
    BY <2>2, <2>3
<1>9. CallsSoFar(q) = CallsSoFar(r) \cup (IF m.blocks[k].type = "tool_use" THEN {m.blocks[k].id} ELSE {})
  <2>1. \A x \in X!BlocksOf(m, "tool_use") : x \in Nat /\ (x < k + 1 <=> x < k \/ x = k)
    BY <1>3, <1>4 DEF X!BlocksOf
  <2>2. k \in X!BlocksOf(m, "tool_use") <=> m.blocks[k].type = "tool_use"
    BY <1>4 DEF X!BlocksOf
  <2> QED
    BY <1>8, <2>1, <2>2 DEF CallsSoFar
<1>10. \A i \in DOMAIN asked : asked[i].role = "assistant" => X!Answered(asked, i)
  BY <1>1, <1>2, Expected DEF Underway
<1>11. X!ToSet(r.calls) = CallsSoFar(r)
  BY <1>1, <1>2 DEF Underway
<1> HIDE DEF calls
<1>12. Underway(asked, q)
  <2>1. q.b # 1 /\ q.b <= Len(m.blocks) + 1
    BY <1>1, <1>3, <1>4, <1>8
  <2> QED
    <3>1. q.m <= Len(q.messages) + 1 /\ ~(q.m > Len(q.messages) \/ q.messages[q.m].role = "system")
      <4>1. c \in Seq(X!Messages) /\ Len(c) \in Nat
        BY <1>3, LenProperties DEF Readings
      <4> QED
        BY <1>1, <1>3, <1>8, <4>1
    <3>2. X!ToSet(q.calls) = CallsSoFar(q) /\ q.messages[q.m] = m /\ m.role = "assistant"
      BY <1>1, <1>6, <1>8, <1>9, <1>11
    <3> HIDE DEF r
    <3> QED
      BY <1>8, <1>10, <2>1, <3>1, <3>2 DEF Underway
<1> QED
  BY <1>1, <1>2, <1>8, <1>12 DEF TranslationInv, X!ToolsAnswered

LEMMA UserTranslates ==
    ASSUME TranslationInv, X!UserBlock PROVE TranslationInv'
<1> DEFINE r == reading
           c == r.messages
           m == c[r.m]
           k == r.b
           e == X!Sent("tool", <<m.blocks[k].id>>)
           isResult == m.blocks[k].type = "tool_result"
<1>1. /\ r.m <= Len(c) /\ m.role = "user" /\ k <= Len(m.blocks)
      /\ asked' = IF isResult THEN Append(asked, e) ELSE asked
      /\ reading' = [r EXCEPT !.b = @ + 1, !.content = @ \/ m.blocks[k].type \in {"text", "image"}]
      /\ phase = "translate" /\ phase' = "translate"
  BY DEF X!UserBlock, X!Message, X!BlockRead
<1>2. Underway(asked, r) /\ asked \in Seq(SentMessages)
  BY <1>1 DEF TranslationInv
<1>3. r \in Readings /\ k \in Nat \ {0} /\ r.m \in Nat \ {0} /\ r.content \in BOOLEAN
  BY <1>2 DEF Underway, Readings
<1>4. m \in X!Messages /\ DOMAIN m.blocks = 1..Len(m.blocks) /\ Len(m.blocks) \in Nat /\ k \in DOMAIN m.blocks
  BY <1>1, <1>3, MessageOfBody
<1>5. m.blocks[k].id \in CallIds
  <2>1. m.blocks \in Seq([type : {"text", "image", "tool_use", "tool_result"}, id : CallIds])
    BY <1>4 DEF X!Messages
  <2>2. m.blocks[k] \in [type : {"text", "image", "tool_use", "tool_result"}, id : CallIds]
    BY <1>4, <2>1, ElementOfSeq
  <2> QED
    BY <2>2
<1>6. e \in SentMessages /\ e.role = "tool"
  <2>1. <<m.blocks[k].id>> \in Seq(CallIds)
    BY <1>5
  <2> QED
    BY <2>1 DEF X!Sent, SentMessages
<1>7. PICK content \in BOOLEAN : content = (r.content \/ m.blocks[k].type \in {"text", "image"})
  OBVIOUS
<1>8. PICK q : q = [r EXCEPT !.b = @ + 1, !.content = content]
  OBVIOUS
<1>9. /\ q \in Readings /\ q.m = r.m /\ q.b = k + 1 /\ q.calls = r.calls /\ q.messages = c
      /\ reading' = q
  <2>1. k + 1 \in Nat \ {0}
    BY <1>3
  <2>2. q \in Readings /\ q.m = r.m /\ q.b = k + 1 /\ q.calls = r.calls /\ q.messages = c
    BY <1>3, <1>8, <2>1 DEF Readings
  <2>3. reading' = q
    BY <1>1, <1>7, <1>8
  <2> QED
    BY <2>2, <2>3
<1>10. PICK t : t = IF isResult THEN Append(asked, e) ELSE asked
  OBVIOUS
<1>11. /\ t \in Seq(SentMessages) /\ t = asked'
       /\ \A i \in DOMAIN t : t[i].role = "assistant" => i \in DOMAIN asked /\ t[i] = asked[i]
  <2>1. /\ Len(asked) \in Nat /\ DOMAIN asked = 1..Len(asked)
        /\ Append(asked, e) \in Seq(SentMessages) /\ DOMAIN Append(asked, e) = 1..Len(asked) + 1
        /\ Append(asked, e)[Len(asked) + 1] = e
        /\ \A i \in 1..Len(asked) : Append(asked, e)[i] = asked[i]
    BY <1>2, <1>6, LenProperties, AppendProperties
  <2>2. 1..Len(asked) + 1 = 1..Len(asked) \cup {Len(asked) + 1}
    BY <2>1
  <2> HIDE DEF isResult, e
  <2> QED
    BY <1>1, <1>2, <1>6, <1>10, <2>1, <2>2
<1>12. ASSUME NEW i \in DOMAIN asked, t[i] = asked[i], asked[i].role = "assistant"
       PROVE  X!Answered(t, i) \/ Pending(t, i, q)
  <2>1. CASE X!Answered(asked, i)
    <3>1. X!Answered(Append(asked, e), i)
      BY <1>2, <1>6, <2>1, AnsweredStays
    <3> QED
      BY <1>10, <2>1, <3>1
  <2>2. CASE ~X!Answered(asked, i)
    <3>1. Pending(asked, i, r)
      BY <1>2, <1>12, <2>2 DEF Underway
    <3>2. /\ \A x, y \in X!BlocksOf(m, "tool_result") : m.blocks[x].id = m.blocks[y].id => x = y
          /\ Behind(asked, i, m, k - 1)
      BY <1>1, <1>2, <2>2, <3>1, Expected
    <3>3. PICK n \in Nat : n = k - 1
      BY <1>3
    <3>4. n + 1 = k /\ q.b - 1 = n + 1
      BY <1>3, <1>9, <3>3
    <3>5. IF n + 1 \in X!BlocksOf(m, "tool_result")
          THEN Behind(Append(asked, X!Sent("tool", <<m.blocks[n + 1].id>>)), i, m, n + 1)
          ELSE Behind(asked, i, m, n + 1)
      BY <1>2, <1>4, <3>2, <3>3, <3>4, CollectsMore
    <3>6. k \in X!BlocksOf(m, "tool_result") <=> isResult
      BY <1>4 DEF X!BlocksOf
    <3>7. Behind(t, i, m, n + 1)
      BY <1>10, <3>4, <3>5, <3>6
    <3>8. c[q.m] = m /\ q.messages = c /\ q.m = r.m
      BY <1>9
    <3> QED
      BY <1>12, <3>1, <3>4, <3>7, <3>8 DEF Pending
  <2> QED
    BY <2>1, <2>2
<1>13. Underway(t, q)
  <2>1. q.b # 1 /\ q.b <= Len(m.blocks) + 1
    <3>1. q.b = k + 1 /\ k \in Nat \ {0} /\ k <= Len(m.blocks) /\ Len(m.blocks) \in Nat
      BY <1>1, <1>3, <1>4, <1>9
    <3> HIDE DEF k, m
    <3> QED BY <3>1
  <2>2. q.m <= Len(q.messages) + 1 /\ ~(q.m > Len(q.messages) \/ q.messages[q.m].role = "system")
    <3>1. c \in Seq(X!Messages) /\ Len(c) \in Nat
      BY <1>3, LenProperties DEF Readings
    <3>2. /\ q.m = r.m /\ q.messages = c /\ r.m <= Len(c) /\ r.m \in Nat /\ Len(c) \in Nat
          /\ q.messages[q.m].role # "system"
      BY <1>1, <1>3, <1>9, <3>1
    <3> HIDE DEF r, c
    <3> QED
      BY <3>2
  <2>3. q.messages[q.m] = m /\ m.role # "assistant" /\ q.calls = <<>>
    BY <1>1, <1>2, <1>9 DEF Underway
  <2>4. \A i \in DOMAIN t : t[i].role = "assistant" => X!Answered(t, i) \/ Pending(t, i, q)
    BY <1>11, <1>12
  <2> HIDE DEF r
  <2> QED
    BY <1>9, <2>1, <2>2, <2>3, <2>4 DEF Underway
<1> QED
  BY <1>1, <1>9, <1>11, <1>13 DEF TranslationInv, X!ToolsAnswered

\* What is sent for a message that ends follows what was sent before.
LEMMA EndTranslates ==
    ASSUME TranslationInv, X!MessageEnds PROVE TranslationInv'
<1> DEFINE r == reading
           c == r.messages
           m == c[r.m]
           q == X!NextMessage(r)
<1>1. /\ r.m <= Len(c) /\ m.role # "system" /\ r.b > Len(m.blocks) /\ reading' = q
      /\ asked' = IF m.role = "assistant" THEN Append(asked, X!Sent("assistant", r.calls))
                  ELSE IF r.content THEN Append(asked, X!Sent("user", <<>>)) ELSE asked
      /\ phase = "translate" /\ phase' = "translate"
  BY DEF X!MessageEnds, X!Message
<1>2. Underway(asked, r) /\ asked \in Seq(SentMessages) /\ Len(asked) \in Nat /\ DOMAIN asked = 1..Len(asked)
  BY <1>1, LenProperties DEF TranslationInv
<1>3. r \in Readings /\ r.b \in Nat \ {0} /\ r.m \in Nat \ {0} /\ r.calls \in Seq(CallIds)
      /\ Len(c) \in Nat
  BY <1>2, LenProperties DEF Underway, Readings
<1>4. m \in X!Messages /\ DOMAIN m.blocks = 1..Len(m.blocks) /\ Len(m.blocks) \in Nat
  BY <1>1, <1>3, MessageOfBody
<1>5. q \in Readings /\ q.m = r.m + 1 /\ q.b = 1 /\ q.calls = <<>> /\ q.messages = c
  BY <1>3, NextReading
<1>6. r.b - 1 = Len(m.blocks) /\ q.b - 1 = 0 /\ q.m <= Len(c) + 1
  <2>1. r.b <= Len(m.blocks) + 1
    BY <1>1, <1>2 DEF Underway
  <2> HIDE DEF q, m, c
  <2> QED
    BY <1>1, <1>3, <1>4, <1>5, <2>1
<1> HIDE DEF q
<1>7. \A i \in DOMAIN asked : asked[i].role = "assistant" => X!Answered(asked, i)
  <2> SUFFICES ASSUME NEW i \in DOMAIN asked, asked[i].role = "assistant", ~X!Answered(asked, i)
               PROVE  FALSE
    OBVIOUS
  <2>1. Pending(asked, i, r)
    BY <1>2 DEF Underway
  <2>2. /\ X!IdsOf(m, "tool_result") = X!ToSet(asked[i].calls)
        /\ Behind(asked, i, m, Len(m.blocks))
    BY <1>1, <1>2, <1>6, <2>1, Expected
  <2> QED
    BY <1>2, <1>4, <2>2, CollectedAnswers
<1>8. CASE asked' = asked
  <2>1. Underway(asked', q)
    BY <1>5, <1>6, <1>7, <1>8, FreshMessage
  <2> QED
    BY <1>1, <1>2, <1>8, <2>1 DEF TranslationInv, X!ToolsAnswered
<1>9. ASSUME NEW e \in SentMessages, asked' = Append(asked, e),
             e.role = "assistant" => m.role = "assistant" /\ e.calls = r.calls
      PROVE  TranslationInv'
  <2> DEFINE t == Append(asked, e)
             last == Len(asked) + 1
  <2>1. /\ t \in Seq(SentMessages) /\ DOMAIN t = 1..last /\ Len(t) = last /\ t[last] = e
        /\ \A i \in 1..Len(asked) : t[i] = asked[i]
    BY <1>2, AppendProperties
  <2>2. 1..last = 1..Len(asked) \cup {last} /\ last \in 1..last
    BY <1>2
  <2>3. ASSUME NEW i \in 1..Len(asked), t[i].role = "assistant" PROVE X!Answered(t, i)
    <3>1. X!Answered(asked, i)
      BY <1>2, <1>7, <2>1, <2>3
    <3> QED
      BY <1>2, <3>1, AnsweredStays
  <2>4. ASSUME e.role = "assistant" PROVE Pending(t, last, q)
    <3>1. X!ToSet(r.calls) = CallsSoFar(r) /\ m.role = "assistant" /\ e.calls = r.calls
      BY <1>1, <1>2, <1>9, <2>4 DEF Underway
    <3>2. \A x \in X!BlocksOf(m, "tool_use") : x < r.b
      BY <1>1, <1>3, <1>4 DEF X!BlocksOf
    <3>3. CallsSoFar(r) = X!IdsOf(m, "tool_use")
      BY <3>2 DEF CallsSoFar, X!IdsOf
    <3>4. Behind(t, last, q.messages[q.m], q.b - 1)
      <4> HIDE DEF t
      <4> QED BY <1>6, <2>1, <2>2, NothingCollected
    <3>5. r.m \in 1..(q.m - 1) /\ (r.m + 1)..(q.m - 1) = {}
      BY <1>3, <1>5
    <3> HIDE DEF t, last
    <3> QED
      BY <1>5, <2>1, <3>1, <3>3, <3>4, <3>5 DEF Pending
  <2> HIDE DEF t, last
  <2>5. \A i \in DOMAIN t : t[i].role = "assistant" => X!Answered(t, i) \/ Pending(t, i, q)
    BY <2>1, <2>2, <2>3, <2>4
  <2>6. Underway(t, q)
    BY <1>5, <1>6, <2>5, FreshMessage
  <2> QED
    BY <1>1, <1>9, <2>1, <2>6 DEF TranslationInv, X!ToolsAnswered, t
<1>10. X!Sent("assistant", r.calls) \in SentMessages /\ X!Sent("user", <<>>) \in SentMessages
  <2>1. <<>> \in Seq(CallIds)
    OBVIOUS
  <2> QED
    BY <1>3, <2>1 DEF X!Sent, SentMessages
<1>11. /\ X!Sent("assistant", r.calls).role = "assistant" /\ X!Sent("assistant", r.calls).calls = r.calls
       /\ X!Sent("user", <<>>).role = "user"
  BY DEF X!Sent
<1> HIDE DEF r
<1>12. CASE m.role = "assistant"
  BY <1>1, <1>9, <1>10, <1>11, <1>12
<1>13. CASE m.role # "assistant"
  <2>1. CASE r.content
    BY <1>1, <1>9, <1>10, <1>11, <1>13, <2>1
  <2>2. CASE ~r.content
    BY <1>1, <1>8, <1>13, <2>2
  <2> QED
    BY <2>1, <2>2
<1> QED
  BY <1>12, <1>13

LEMMA BodyTranslates ==
    ASSUME TranslationInv, X!BodyEnds PROVE TranslationInv'
<1> DEFINE r == reading
           p == IF r.system THEN <<X!Sent("system", <<>>)>> ELSE <<>>
           t == p \o asked
<1>1. r.m > Len(r.messages) /\ asked' = t /\ phase = "translate" /\ phase' = "fetch"
  BY DEF X!BodyEnds
<1>2. Underway(asked, r) /\ asked \in Seq(SentMessages) /\ Len(asked) \in Nat /\ DOMAIN asked = 1..Len(asked)
  BY <1>1, LenProperties DEF TranslationInv
<1>3. r.b = 1
  BY <1>1, <1>2 DEF Underway
<1>4. \A i \in DOMAIN asked : asked[i].role = "assistant" /\ i < Len(asked) => X!Answered(asked, i)
  <2> SUFFICES ASSUME NEW i \in DOMAIN asked, asked[i].role = "assistant", ~X!Answered(asked, i)
               PROVE  i = Len(asked)
    BY <1>2
  <2>1. Pending(asked, i, r) /\ r.b - 1 = 0
    BY <1>2, <1>3 DEF Underway
  <2> QED
    BY <1>2, <2>1, NothingCollected DEF Pending
<1>5. /\ p \in Seq(SentMessages) /\ Len(p) \in Nat /\ DOMAIN p = 1..Len(p)
      /\ \A i \in DOMAIN p : p[i].role = "system"
  <2>1. <<>> \in Seq(CallIds) /\ X!Sent("system", <<>>).role = "system"
    BY DEF X!Sent
  <2>2. X!Sent("system", <<>>) \in SentMessages
    BY <2>1 DEF X!Sent, SentMessages
  <2>3. p = <<>> \/ p = <<X!Sent("system", <<>>)>>
    OBVIOUS
  <2> HIDE DEF p
  <2>4. p \in Seq(SentMessages)
    <3>1. CASE p = <<>>
      BY <3>1
    <3>2. CASE p = <<X!Sent("system", <<>>)>>
      BY <2>2, <3>2
    <3> QED BY <2>3, <3>1, <3>2
  <2> QED
    BY <2>1, <2>3, <2>4, LenProperties
<1> HIDE DEF p
<1>6. /\ t \in Seq(SentMessages) /\ Len(t) = Len(p) + Len(asked) /\ DOMAIN t = 1..Len(t)
      /\ \A i \in 1..Len(p) : t[i] = p[i]
      /\ \A i \in 1..Len(asked) : t[Len(p) + i] = asked[i]
  <2>1. /\ t \in Seq(SentMessages) /\ Len(t) = Len(p) + Len(asked)
        /\ \A i \in 1..Len(p) + Len(asked) : t[i] = IF i <= Len(p) THEN p[i] ELSE asked[i - Len(p)]
    BY <1>2, <1>5, ConcatProperties
  <2>2. /\ \A i \in 1..Len(p) : i \in 1..Len(p) + Len(asked) /\ i <= Len(p)
        /\ \A i \in 1..Len(asked) : /\ Len(p) + i \in 1..Len(p) + Len(asked) /\ ~(Len(p) + i <= Len(p))
                                    /\ (Len(p) + i) - Len(p) = i
    BY <1>2, <1>5
  <2> HIDE DEF t
  <2> QED
    BY <2>1, <2>2, LenProperties
<1>7. ASSUME NEW i \in DOMAIN t, t[i].role = "assistant", i < Len(t)
      PROVE  X!Answered(t, i)
  <2>1. i \notin 1..Len(p)
    BY <1>5, <1>6, <1>7
  <2>2. PICK k \in 1..Len(asked) : i = Len(p) + k
    <3>1. i - Len(p) \in 1..Len(asked) /\ i = Len(p) + (i - Len(p))
      BY <1>2, <1>5, <1>6, <2>1
    <3> QED BY <3>1
  <2>3. k < Len(asked) /\ asked[k].role = "assistant"
    BY <1>2, <1>5, <1>6, <1>7, <2>2
  <2>4. X!Answered(asked, k)
    BY <1>2, <1>4, <2>3
  <2> QED
    BY <1>2, <1>5, <2>2, <2>4, AnsweredShifted
<1> HIDE DEF t
<1> QED
  BY <1>1, <1>6, <1>7 DEF TranslationInv, X!ToolsAnswered

\* Once the body has been translated, what is sent upstream stays.
LEMMA SentStays ==
    ASSUME TranslationInv, phase \notin {"idle", "translate"}, asked' = asked,
           phase' \notin {"idle", "translate"}
    PROVE  TranslationInv'
BY DEF TranslationInv, X!ToolsAnswered

LEMMA Translates == ASSUME TranslationInv, [X!Next]_(X!vars) PROVE TranslationInv'
<1>1. CASE UNCHANGED X!vars
  BY <1>1 DEF X!vars, TranslationInv, X!ToolsAnswered
<1>2. CASE X!Request
  BY <1>2, RequestTranslates
<1>3. CASE X!Translate
  BY <1>3, SystemTranslates, AssistantTranslates, UserTranslates, EndTranslates, BodyTranslates
     DEF X!Translate
<1>4. CASE \/ X!UpstreamFails \/ X!TextDelta \/ X!StreamEnds
           \/ \E b \in BOOLEAN : X!UpstreamAnswers(b)
           \/ \E oi \in ToolIndex : X!ToolDelta(oi)
  BY <1>4, SentStays DEF X!UpstreamFails, X!TextDelta, X!StreamEnds, X!UpstreamAnswers, X!ToolDelta
<1>5. CASE \E b \in BOOLEAN, calls \in X!BoundedSeq(ToolIndex, 2) :
             X!IsInjective(calls) /\ X!FromOpenAI(b, calls)
  BY <1>5, SentStays DEF X!FromOpenAI
<1> QED
  BY <1>1, <1>2, <1>3, <1>4, <1>5 DEF X!Next

---------------------------------------------------------------------------
(* Proxy: the answer is put together                                       *)

Held(p, x, g, o) == [part |-> p, index |-> x, got |-> g, open |-> o]

\* The client's blocks, one for every part in its turn, the one numbered
\* `last' of which is open.
Shown(ts, sd, last) ==
    [i \in DOMAIN ts |-> Held(ts[i], i - 1, sd[ts[i]], i = last)]

Among(ts, p) == \E i \in DOMAIN ts : ts[i] = p

\* While the upstream has not come back to a part.
Assembling ==
    /\ open = Len(turns) - 1 /\ nextIndex = Len(turns)
    /\ blocks = Shown(turns, told, Len(turns))
    /\ IF Among(turns, <<X!Text, 0>>) THEN text + 1 \in DOMAIN turns /\ turns[text + 1] = <<X!Text, 0>>
                                      ELSE text = X!Closed
    /\ \A t \in X!ToSet(heard) : t.ai + 1 \in DOMAIN turns /\ turns[t.ai + 1] = <<"tool", t.oi>>
    /\ \A oi \in ToolIndex : Among(turns, <<"tool", oi>>) => X!BlockOf(oi) # {}
    /\ \A p \in X!Parts : ~Among(turns, p) => told[p] = <<>>

AnswerInv ==
    /\ told = [p \in X!Parts |-> told[p]] /\ turns \in Seq(X!Parts)
    /\ nextIndex \in Nat /\ open \in Int /\ text \in Int /\ heard \in Seq([oi : ToolIndex, ai : Nat])
    /\ phase \notin {"stream", "done"} =>
         /\ nextIndex = 0 /\ open = X!Closed /\ text = X!Closed /\ heard = <<>>
         /\ turns = <<>> /\ blocks = <<>> /\ told = [p \in X!Parts |-> <<>>]
    /\ phase = "stream" /\ X!IsInjective(turns) => Assembling
    /\ X!Reassembled

LEMMA OnceEach ==
    ASSUME NEW T, NEW s \in Seq(T), NEW e \in T
    PROVE  X!IsInjective(Append(s, e)) => X!IsInjective(s) /\ ~Among(s, e)
<1>1. /\ Len(s) \in Nat /\ DOMAIN s = 1..Len(s) /\ DOMAIN Append(s, e) = 1..Len(s) + 1
      /\ Append(s, e)[Len(s) + 1] = e
  BY LenProperties, AppendProperties
<1>2. \A k \in 1..Len(s) : Append(s, e)[k] = s[k]
  BY AppendProperties
<1>3. 1..Len(s) + 1 = 1..Len(s) \cup {Len(s) + 1} /\ Len(s) + 1 \notin 1..Len(s)
  BY <1>1
<1> QED
  BY <1>1, <1>2, <1>3 DEF X!IsInjective, Among

LEMMA HeldBlock ==
    \A p, x, g, o : /\ Held(p, x, g, o).index = x /\ Held(p, x, g, o).open = o
                    /\ X!Shut(Held(p, x, g, o)) = Held(p, x, g, FALSE)
<1> SUFFICES ASSUME NEW p, NEW x, NEW g, NEW o
             PROVE  /\ Held(p, x, g, o).index = x /\ Held(p, x, g, o).open = o
                    /\ X!Shut(Held(p, x, g, o)) = Held(p, x, g, FALSE)
  OBVIOUS
<1>1. PICK v : v = FALSE
  OBVIOUS
<1>2. [[part |-> p, index |-> x, got |-> g, open |-> o] EXCEPT !.open = v]
        = [part |-> p, index |-> x, got |-> g, open |-> v]
  BY ONLY TRUE
<1>3. X!Shut(Held(p, x, g, o)) = Held(p, x, g, FALSE)
  BY <1>1, <1>2, Zenon DEF X!Shut, Held
<1>4. Held(p, x, g, o).index = x /\ Held(p, x, g, o).open = o
  BY DEF Held
<1> QED
  BY <1>3, <1>4

LEMMA GrownBlock ==
    \A p, x, g, o, n : X!Grown(Held(p, x, g, o), n) = Held(p, x, Append(g, n), o)
<1> SUFFICES ASSUME NEW p, NEW x, NEW g, NEW o, NEW n
             PROVE  X!Grown(Held(p, x, g, o), n) = Held(p, x, Append(g, n), o)
  OBVIOUS
<1>1. PICK v : v = Append(g, n)
  OBVIOUS
<1>2. [[part |-> p, index |-> x, got |-> g, open |-> o] EXCEPT !.got = v]
        = [part |-> p, index |-> x, got |-> v, open |-> o]
  BY ONLY TRUE
<1>3. [part |-> p, index |-> x, got |-> g, open |-> o].got = g
  BY ONLY TRUE
<1> QED
  BY <1>1, <1>2, <1>3, Zenon DEF X!Grown, Held

LEMMA ShownBlocks ==
    ASSUME NEW ts \in Seq(X!Parts), NEW sd, NEW last
    PROVE  LET bs == Shown(ts, sd, last)
           IN /\ DOMAIN bs = 1..Len(ts)
              /\ \A i \in 1..Len(ts) : /\ bs[i] = Held(ts[i], i - 1, sd[ts[i]], i = last)
                                       /\ bs[i].index = i - 1 /\ (bs[i].open <=> i = last)
<1> DEFINE bs == Shown(ts, sd, last)
<1>1. Len(ts) \in Nat /\ DOMAIN ts = 1..Len(ts)
  BY LenProperties
<1>2. DOMAIN bs = 1..Len(ts) /\ \A i \in 1..Len(ts) : bs[i] = Held(ts[i], i - 1, sd[ts[i]], i = last)
  BY <1>1 DEF Shown
<1> HIDE DEF bs
<1>3. ASSUME NEW i \in 1..Len(ts) PROVE bs[i].index = i - 1 /\ (bs[i].open <=> i = last)
  <2>1. PICK o : o = (i = last)
    OBVIOUS
  <2>2. bs[i] = Held(ts[i], i - 1, sd[ts[i]], o)
    BY <1>2, <2>1, Zenon
  <2>3. bs[i].index = i - 1 /\ bs[i].open = o
    BY <2>2, HeldBlock
  <2> QED
    BY <2>1, <2>3
<1> QED
  BY <1>2, <1>3 DEF bs

\* The open block is closed, if there is one: then no block is open.
LEMMA StoppedBlocks ==
    ASSUME NEW ts \in Seq(X!Parts), NEW sd, NEW last, last \notin DOMAIN ts
    PROVE  X!Stopped(Shown(ts, sd, Len(ts)), Len(ts) - 1) = Shown(ts, sd, last)
<1> DEFINE N == Len(ts)
           bs == Shown(ts, sd, N)
           cs == X!Stopped(bs, N - 1)
<1>1. N \in Nat /\ DOMAIN ts = 1..N
  BY LenProperties
<1>2. /\ DOMAIN bs = 1..N
      /\ \A i \in 1..N : /\ bs[i].index = i - 1
                         /\ bs[i] = Held(ts[i], i - 1, sd[ts[i]], i = N)
  BY ShownBlocks
<1>3. cs = [i \in 1..N |-> IF bs[i].index = N - 1 THEN X!Shut(bs[i]) ELSE bs[i]]
  BY <1>2 DEF X!Stopped
<1>4. \A i \in 1..N : i - 1 = N - 1 <=> i = N
  BY <1>1
<1>5. ASSUME NEW i \in 1..N
      PROVE  cs[i] = Held(ts[i], i - 1, sd[ts[i]], i = last)
  <2>1. (i = last) = FALSE
    BY <1>1
  <2>2. CASE i = N
    <3>1. cs[i] = X!Shut(bs[i])
      <4> HIDE DEF cs, bs, N
      <4> QED BY <1>2, <1>3, <1>4, <2>2
    <3> HIDE DEF cs, bs, N
    <3>2. PICK o : bs[i] = Held(ts[i], i - 1, sd[ts[i]], o)
      BY <1>2
    <3>3. cs[i] = Held(ts[i], i - 1, sd[ts[i]], FALSE)
      <4>1. X!Shut(bs[i]) = X!Shut(Held(ts[i], i - 1, sd[ts[i]], o))
        BY <3>2, Zenon
      <4>2. X!Shut(Held(ts[i], i - 1, sd[ts[i]], o))
              = Held(ts[i], i - 1, sd[ts[i]], FALSE)
        BY HeldBlock, Zenon
      <4> QED BY <3>1, <4>1, <4>2, Zenon
    <3> QED BY <2>1, <3>3, Zenon
  <2>3. CASE i # N
    <3>1. cs[i] = bs[i] /\ (i = N) = FALSE
      <4> HIDE DEF cs, bs, N
      <4> QED BY <1>2, <1>3, <1>4, <2>3
    <3> HIDE DEF cs, bs, N
    <3>2. bs[i] = Held(ts[i], i - 1, sd[ts[i]], i = N)
      BY <1>2
    <3>3. (i = N) = (i = last)
      BY <2>1, <3>1
    <3> QED BY <3>1, <3>2, <3>3, Zenon
  <2> QED BY <2>2, <2>3
<1> HIDE DEF bs, cs, N
<1>6. cs = Shown(ts, sd, last)
  BY <1>1, <1>3, <1>5 DEF Shown
<1> QED
  BY <1>6 DEF cs, bs, N

\* The part that is open goes on.
LEMMA GoesOnPart ==
    ASSUME NEW ts \in Seq(X!Parts), NEW sd, sd = [p \in X!Parts |-> sd[p]], NEW n,
           X!IsInjective(ts), ts # <<>>
    PROVE  X!Extended(Shown(ts, sd, Len(ts)), Len(ts) - 1, n)
             = Shown(ts, [sd EXCEPT ![ts[Len(ts)]] = Append(@, n)], Len(ts))
<1> DEFINE N == Len(ts)
           p == ts[N]
           se == [sd EXCEPT ![p] = Append(@, n)]
           bs == Shown(ts, sd, N)
           es == X!Extended(bs, N - 1, n)
<1>1. N \in Nat \ {0} /\ DOMAIN ts = 1..N /\ N \in 1..N
  BY LenProperties, EmptySeq
<1>2. \A i \in 1..N : ts[i] \in X!Parts
  BY <1>1, ElementOfSeq
<1>3. /\ DOMAIN bs = 1..N
      /\ \A i \in 1..N : /\ bs[i].index = i - 1 /\ (bs[i].open <=> i = N)
                         /\ bs[i] = Held(ts[i], i - 1, sd[ts[i]], i = N)
  BY ShownBlocks
<1>4. \A i \in 1..N : bs[i].index = N - 1 /\ bs[i].open <=> i = N
  <2> HIDE DEF bs, N
  <2>1. \A i \in 1..N : i - 1 = N - 1 <=> i = N
    BY <1>1
  <2> QED BY <1>3, <2>1
<1>5. se[p] = Append(sd[p], n) /\ \A i \in 1..N : i # N => se[ts[i]] = sd[ts[i]]
  <2>1. \A i \in 1..N : i # N => ts[i] # p
    BY <1>1 DEF X!IsInjective
  <2> HIDE DEF p
  <2>2. p \in X!Parts
    BY <1>1, <1>2 DEF p
  <2> QED
    BY <1>2, <2>1, <2>2
<1>6. /\ DOMAIN es = 1..N
      /\ \A i \in 1..N : es[i] = IF i = N THEN X!Grown(bs[i], n) ELSE bs[i]
  <2> HIDE DEF bs, N
  <2> QED BY <1>3, <1>4 DEF X!Extended
<1>7. X!Grown(bs[N], n) = Held(ts[N], N - 1, se[ts[N]], N = N)
  <2>1. bs[N] = Held(ts[N], N - 1, sd[ts[N]], N = N)
    BY <1>1, <1>3
  <2>2. Append(sd[ts[N]], n) = se[ts[N]]
    BY <1>5 DEF p
  <2> HIDE DEF bs, N, se
  <2>3. X!Grown(bs[N], n) = Held(ts[N], N - 1, Append(sd[ts[N]], n), N = N)
    <3>1. PICK o : o = (N = N)
      OBVIOUS
    <3>2. bs[N] = Held(ts[N], N - 1, sd[ts[N]], o)
      BY <2>1, <3>1, Zenon
    <3>3. X!Grown(bs[N], n)
            = X!Grown(Held(ts[N], N - 1, sd[ts[N]], o), n)
      BY <3>2, Zenon
    <3>4. X!Grown(Held(ts[N], N - 1, sd[ts[N]], o), n)
            = Held(ts[N], N - 1, Append(sd[ts[N]], n), o)
      BY GrownBlock
    <3> QED BY <3>1, <3>3, <3>4, Zenon
  <2> QED
    BY <2>2, <2>3, Zenon
<1>8. \A i \in 1..N : es[i] = Held(ts[i], i - 1, se[ts[i]], i = N)
  <2> SUFFICES ASSUME NEW i \in 1..N
               PROVE  es[i] = Held(ts[i], i - 1, se[ts[i]], i = N)
    OBVIOUS
  <2>1. CASE i = N
    <3> HIDE DEF bs, N, se, es
    <3> QED BY <1>1, <1>6, <1>7, <2>1
  <2>2. CASE i # N
    <3>1. se[ts[i]] = sd[ts[i]] /\ es[i] = bs[i]
      BY <1>5, <1>6, <2>2
    <3> HIDE DEF bs, N, se, es
    <3> QED BY <1>3, <3>1
  <2> QED BY <2>1, <2>2
<1>9. es = [i \in 1..N |-> es[i]]
  <2>1. es = [i \in DOMAIN bs |-> es[i]]
    BY DEF X!Extended
  <2> HIDE DEF es, bs, N
  <2> QED BY <2>1, <1>3
<1> HIDE DEF es, se
<1>10. es = Shown(ts, se, N)
  BY <1>1, <1>8, <1>9 DEF Shown
<1> QED
  BY <1>10 DEF es, se

\* A part begins: the open one is closed, a block is started and extended.
LEMMA BeginsPart ==
    ASSUME NEW ts \in Seq(X!Parts), NEW sd, sd = [p \in X!Parts |-> sd[p]], NEW n,
           NEW p \in X!Parts, ~Among(ts, p), sd[p] = <<>>
    PROVE  X!Extended(X!Started(X!Stopped(Shown(ts, sd, Len(ts)), Len(ts) - 1), p, Len(ts)), Len(ts), n)
             = Shown(Append(ts, p), [sd EXCEPT ![p] = Append(@, n)], Len(ts) + 1)
<1> DEFINE N == Len(ts)
           M == N + 1
           tt == Append(ts, p)
           se == [sd EXCEPT ![p] = Append(@, n)]
           bs == Shown(ts, sd, N)
           cs == X!Stopped(bs, N - 1)
           ds == X!Started(cs, p, N)
           es == X!Extended(ds, N, n)
<1>1. N \in Nat /\ DOMAIN ts = 1..N /\ 1..M = 1..N \cup {M} /\ M \notin 1..N /\ M - 1 = N
  BY LenProperties
<1>2. \A i \in 1..N : ts[i] \in X!Parts /\ ts[i] # p
  BY <1>1, ElementOfSeq DEF Among
<1>3. DOMAIN tt = 1..M /\ tt[M] = p /\ \A i \in 1..N : tt[i] = ts[i]
  BY <1>1, AppendProperties
<1>4. se[p] = Append(<<>>, n) /\ \A i \in 1..N : se[ts[i]] = sd[ts[i]]
  BY <1>2
<1>5. cs = Shown(ts, sd, M)
  BY <1>1, StoppedBlocks
<1>6. /\ DOMAIN cs = 1..N /\ cs = [i \in 1..N |-> cs[i]]
      /\ \A i \in 1..N : /\ cs[i].index = i - 1 /\ ~cs[i].open
                         /\ cs[i] = Held(ts[i], i - 1, sd[ts[i]], i = M)
  <2> HIDE DEF cs, N, M
  <2>1. cs = [i \in 1..N |-> cs[i]]
    BY <1>1, <1>5 DEF Shown
  <2>2. /\ DOMAIN cs = 1..N
        /\ \A i \in 1..N : /\ cs[i].index = i - 1 /\ (cs[i].open <=> i = M)
                           /\ cs[i] = Held(ts[i], i - 1, sd[ts[i]], i = M)
    BY <1>5, ShownBlocks DEF N
  <2> QED BY <1>1, <2>1, <2>2
<1>7. ds = Append(cs, X!Block(p, N))
  <2>1. \A i \in 1..N : i - 1 # N
    BY <1>1
  <2>2. ~\E i \in DOMAIN cs : cs[i].index = N
    <3> HIDE DEF cs, N
    <3> QED BY <1>6, <2>1
  <2> HIDE DEF cs, N
  <2> QED BY <2>2 DEF X!Started
<1>8. /\ DOMAIN ds = 1..M /\ ds[M] = X!Block(p, N) /\ \A i \in 1..N : ds[i] = cs[i]
  <2>1. cs \in Seq({cs[i] : i \in 1..N} \cup {X!Block(p, N)}) /\ Len(cs) = N
    <3> HIDE DEF cs, N
    <3> QED BY <1>1, <1>6
  <2> HIDE DEF cs, ds, N
  <2> QED
    BY <1>1, <1>7, <2>1, AppendProperties
<1>9. \A i \in 1..M : ds[i].index = N /\ ds[i].open <=> i = M
  <2>1. ds[M].index = N /\ ds[M].open
    BY <1>8 DEF X!Block
  <2> HIDE DEF cs, ds, N, M
  <2> QED BY <1>1, <1>6, <1>8, <2>1
<1>10. /\ DOMAIN es = 1..M /\ es = [i \in 1..M |-> es[i]]
       /\ \A i \in 1..N : es[i] = cs[i]
       /\ es[M] = X!Grown(ds[M], n)
  <2>1. es = [i \in DOMAIN ds |-> IF ds[i].index = N /\ ds[i].open
                                  THEN X!Grown(ds[i], n) ELSE ds[i]]
    BY DEF X!Extended
  <2> HIDE DEF cs, ds, es, N, M
  <2> QED BY <1>1, <1>8, <1>9, <2>1
<1>11. es[M] = Held(p, N, Append(<<>>, n), TRUE)
  <2>1. PICK g, o : g = <<>> /\ o = TRUE
    OBVIOUS
  <2>2. ds[M] = Held(p, N, g, o)
    BY <1>8, <2>1, Zenon DEF X!Block, Held
  <2> HIDE DEF ds, es, N, M
  <2>3. X!Grown(ds[M], n) = X!Grown(Held(p, N, g, o), n)
    BY <2>2, Zenon
  <2>4. X!Grown(Held(p, N, g, o), n) = Held(p, N, Append(g, n), o)
    BY GrownBlock
  <2> QED BY <1>10, <2>1, <2>3, <2>4, Zenon
<1>12. \A i \in 1..M : es[i] = Held(tt[i], i - 1, se[tt[i]], i = M)
  <2>1. es[M] = Held(tt[M], M - 1, se[tt[M]], M = M)
    <3>1. (M = M) = TRUE
      OBVIOUS
    <3> HIDE DEF es, se, tt
    <3> QED BY <1>1, <1>3, <1>4, <1>11, <3>1
  <2>2. \A i \in 1..N : es[i] = Held(tt[i], i - 1, se[tt[i]], i = M)
    <3> HIDE DEF es, se, tt, cs, N, M
    <3>1. SUFFICES ASSUME NEW i \in 1..N
                   PROVE  es[i] = Held(tt[i], i - 1, se[tt[i]], i = M)
      OBVIOUS
    <3>2. es[i] = Held(ts[i], i - 1, sd[ts[i]], i = M)
      BY <1>6, <1>10, Zenon
    <3>3. ts[i] = tt[i] /\ sd[ts[i]] = se[tt[i]]
      BY <1>3, <1>4
    <3> QED BY <3>2, <3>3, Zenon
  <2> HIDE DEF es, se, tt, N, M
  <2> QED BY <1>1, <2>1, <2>2
<1> HIDE DEF es, se, tt, M
<1>13. es = Shown(tt, se, M)
  BY <1>3, <1>10, <1>12 DEF Shown
<1> QED
  BY <1>13 DEF es, se, tt, M

\* Every answer of the upstream goes on with the last part, or begins one.
LEMMA SaysMore ==
    ASSUME AnswerInv, NEW p \in X!Parts, NEW n, X!Says(p, n)
    PROVE  /\ told' = [told EXCEPT ![p] = Append(@, n)] /\ told' = [q \in X!Parts |-> told'[q]]
           /\ turns' \in Seq(X!Parts)
           /\ \/ turns' = turns /\ turns # <<>> /\ turns[Len(turns)] = p
              \/ turns' = Append(turns, p)
<1>1. turns \in Seq(X!Parts) /\ told = [q \in X!Parts |-> told[q]]
  BY DEF AnswerInv
<1>2. told' = [told EXCEPT ![p] = Append(@, n)]
  BY DEF X!Says
<1>3. told' = [q \in X!Parts |-> told'[q]]
  BY <1>1, <1>2
<1>4. \/ turns' = turns /\ turns # <<>> /\ turns[Len(turns)] = p
      \/ turns' = Append(turns, p)
  BY DEF X!Says, X!Last
<1>5. turns' \in Seq(X!Parts)
  BY <1>1, <1>4, AppendProperties
<1> QED
  BY <1>2, <1>3, <1>4, <1>5

\* While the upstream has not come back to a part, a delta finds the block of
\* its part open, or begins the next one.
LEMMA DeltaAssembles ==
    ASSUME AnswerInv, phase = "stream", NEW p \in X!Parts, NEW index \in Int, NEW n,
           X!Delta(p, index, n), X!Says(p, n), X!IsInjective(turns'),
           Among(turns, p) => /\ index + 1 \in DOMAIN turns /\ turns[index + 1] = p
                              /\ nextIndex' = nextIndex,
           ~Among(turns, p) => index = nextIndex /\ nextIndex' = nextIndex + 1
    PROVE  /\ Assembling /\ open' = Len(turns') - 1 /\ nextIndex' = Len(turns')
           /\ blocks' = Shown(turns', told', Len(turns'))
           /\ index + 1 \in DOMAIN turns' /\ turns'[index + 1] = p
           /\ \A i \in DOMAIN turns : i \in DOMAIN turns' /\ turns'[i] = turns[i]
           /\ \A q : Among(turns', q) <=> Among(turns, q) \/ q = p
           /\ \A q \in X!Parts : ~Among(turns', q) => told'[q] = <<>>
<1>1. /\ turns \in Seq(X!Parts) /\ Len(turns) \in Nat /\ DOMAIN turns = 1..Len(turns)
      /\ told = [q \in X!Parts |-> told[q]]
  BY LenProperties DEF AnswerInv
<1>2. /\ told' = [told EXCEPT ![p] = Append(@, n)]
      /\ \/ turns' = turns /\ turns # <<>> /\ turns[Len(turns)] = p
         \/ turns' = Append(turns, p)
  BY SaysMore
<1>3. X!IsInjective(turns)
  BY <1>1, <1>2, OnceEach
<1>4. Assembling
  BY <1>3 DEF AnswerInv
<1>5. /\ open = Len(turns) - 1 /\ nextIndex = Len(turns)
      /\ blocks = Shown(turns, told, Len(turns))
      /\ \A q \in X!Parts : ~Among(turns, q) => told[q] = <<>>
  BY <1>4 DEF Assembling
<1>6. CASE turns' = turns /\ turns # <<>> /\ turns[Len(turns)] = p
  <2>1. Len(turns) \in DOMAIN turns /\ Among(turns, p)
    BY <1>1, <1>6, EmptySeq DEF Among
  <2>2. index + 1 = Len(turns)
    BY <1>3, <1>6, <2>1 DEF X!IsInjective
  <2>3. index = open /\ index = Len(turns) - 1
    BY <1>1, <1>5, <2>2
  <2>4. open' = index /\ blocks' = X!Extended(blocks, index, n)
    BY <2>3 DEF X!Delta
  <2>5. blocks' = Shown(turns', told', Len(turns'))
    <3>1. X!Extended(Shown(turns, told, Len(turns)), Len(turns) - 1, n)
            = Shown(turns, [told EXCEPT ![turns[Len(turns)]] = Append(@, n)], Len(turns))
      BY <1>1, <1>3, <1>6, GoesOnPart
    <3>2. [told EXCEPT ![turns[Len(turns)]] = Append(@, n)] = told'
      BY <1>2, <1>6
    <3>3. blocks' = X!Extended(Shown(turns, told, Len(turns)), Len(turns) - 1, n)
      BY <1>5, <2>3, <2>4
    <3> QED
      BY <1>6, <3>1, <3>2, <3>3
  <2>6. \A q : Among(turns', q) <=> Among(turns, q) \/ q = p
    BY <1>6, <2>1
  <2>7. \A q \in X!Parts : ~Among(turns', q) => told'[q] = <<>>
    <3>1. \A q \in X!Parts : q # p => told'[q] = told[q]
      BY <1>1, <1>2
    <3> QED
      BY <1>5, <2>6, <3>1
  <2> QED
    BY <1>1, <1>4, <1>5, <1>6, <2>1, <2>3, <2>4, <2>5, <2>6, <2>7
<1>7. CASE turns' = Append(turns, p)
  <2>1. ~Among(turns, p) /\ index = Len(turns) /\ nextIndex' = Len(turns) + 1 /\ open # index
    BY <1>1, <1>5, <1>7, OnceEach
  <2>2. /\ Len(turns') = Len(turns) + 1 /\ DOMAIN turns' = 1..Len(turns) + 1
        /\ turns'[Len(turns) + 1] = p /\ \A i \in 1..Len(turns) : turns'[i] = turns[i]
    BY <1>1, <1>7, AppendProperties
  <2>3. /\ open' = index
        /\ blocks' = X!Extended(X!Started(X!Stopped(blocks, open), p, index), index, n)
    BY <2>1 DEF X!Delta
  <2>4. blocks' = Shown(turns', told', Len(turns'))
    <3>1. told[p] = <<>>
      BY <1>5, <2>1
    <3>2. X!Extended(X!Started(X!Stopped(Shown(turns, told, Len(turns)), Len(turns) - 1), p, Len(turns)), Len(turns), n)
            = Shown(Append(turns, p), [told EXCEPT ![p] = Append(@, n)], Len(turns) + 1)
      BY <1>1, <2>1, <3>1, BeginsPart
    <3>3. blocks' = X!Extended(X!Started(X!Stopped(Shown(turns, told, Len(turns)), Len(turns) - 1), p, Len(turns)), Len(turns), n)
      BY <1>5, <2>1, <2>3
    <3> QED
      BY <1>2, <1>7, <2>2, <3>2, <3>3
  <2>5. 1..Len(turns) + 1 = 1..Len(turns) \cup {Len(turns) + 1}
    BY <1>1
  <2>6. \A q : Among(turns', q) <=> Among(turns, q) \/ q = p
    BY <1>1, <2>2, <2>5 DEF Among
  <2>7. \A q \in X!Parts : ~Among(turns', q) => told'[q] = <<>>
    <3>1. \A q \in X!Parts : q # p => told'[q] = told[q]
      BY <1>1, <1>2
    <3> QED
      BY <1>5, <2>6, <3>1
  <2>8. open' = Len(turns') - 1 /\ nextIndex' = Len(turns')
    BY <1>1, <2>1, <2>2, <2>3
  <2>9. index + 1 \in DOMAIN turns' /\ turns'[index + 1] = p
    BY <2>1, <2>2, <2>5
  <2>10. \A i \in DOMAIN turns : i \in DOMAIN turns' /\ turns'[i] = turns[i]
    BY <1>1, <2>2, <2>5
  <2> QED
    BY <1>4, <2>4, <2>6, <2>7, <2>8, <2>9, <2>10
<1> QED
  BY <1>2, <1>6, <1>7

LEMMA StillAssembling ==
    ASSUME AnswerInv, phase = "stream", NEW p \in X!Parts, NEW n, X!Says(p, n), X!IsInjective(turns')
    PROVE  Assembling
<1>1. turns \in Seq(X!Parts) /\ (turns' = turns \/ turns' = Append(turns, p))
  BY SaysMore DEF AnswerInv
<1>2. X!IsInjective(turns)
  BY <1>1, OnceEach
<1> QED
  BY <1>2 DEF AnswerInv

LEMMA TextAnswers ==
    ASSUME AnswerInv, X!TextDelta PROVE AnswerInv'
<1> DEFINE index == IF text = X!Closed THEN nextIndex ELSE text
           p == <<X!Text, 0>>
           n == X!Heard + 1
<1>1. /\ phase = "stream" /\ phase' = "stream" /\ heard' = heard /\ text' = index
      /\ nextIndex' = IF text = X!Closed THEN nextIndex + 1 ELSE nextIndex
      /\ X!Delta(p, index, n) /\ X!Says(p, n)
  BY DEF X!TextDelta
<1>2. /\ nextIndex \in Nat /\ text \in Int /\ heard \in Seq([oi : ToolIndex, ai : Nat])
      /\ turns \in Seq(X!Parts)
  BY DEF AnswerInv
<1>3. p \in X!Parts /\ \A oi : p # <<"tool", oi>>
  BY DEF X!Parts, X!Text
<1>4. index \in Int /\ open' \in Int /\ nextIndex' \in Nat /\ text' \in Int
  <2>1. open' = index
    BY <1>1 DEF X!Delta
  <2> QED
    BY <1>1, <1>2, <2>1
<1> HIDE DEF n, p
<1>5. told' = [q \in X!Parts |-> told'[q]] /\ turns' \in Seq(X!Parts)
  BY <1>1, <1>3, SaysMore
<1>6. ASSUME X!IsInjective(turns') PROVE Assembling'
  <2>1. Assembling
    BY <1>1, <1>3, <1>6, StillAssembling
  <2>2. IF Among(turns, p) THEN text + 1 \in DOMAIN turns /\ turns[text + 1] = p
                           ELSE text = X!Closed
    BY <2>1 DEF Assembling, p
  <2>3. text + 1 \in DOMAIN turns => text # X!Closed
    <3>1. DOMAIN turns = 1..Len(turns) /\ -1 + 1 \notin 1..Len(turns)
      BY <1>2, LenProperties
    <3> QED
      BY <3>1 DEF X!Closed
  <2>4. /\ Among(turns, p) => /\ index + 1 \in DOMAIN turns /\ turns[index + 1] = p
                              /\ nextIndex' = nextIndex
        /\ ~Among(turns, p) => index = nextIndex /\ nextIndex' = nextIndex + 1
    BY <1>1, <2>2, <2>3
  <2> HIDE DEF index
  <2>5. /\ open' = Len(turns') - 1 /\ nextIndex' = Len(turns')
        /\ blocks' = Shown(turns', told', Len(turns'))
        /\ index + 1 \in DOMAIN turns' /\ turns'[index + 1] = p
        /\ \A i \in DOMAIN turns : i \in DOMAIN turns' /\ turns'[i] = turns[i]
        /\ \A q : Among(turns', q) <=> Among(turns, q) \/ q = p
        /\ \A q \in X!Parts : ~Among(turns', q) => told'[q] = <<>>
    BY <1>1, <1>3, <1>4, <1>6, <2>4, DeltaAssembles
  <2>6. text' + 1 \in DOMAIN turns' /\ turns'[text' + 1] = p /\ Among(turns', p)
    BY <1>1, <2>5
  <2>7. \A t \in X!ToSet(heard) : t.ai + 1 \in DOMAIN turns' /\ turns'[t.ai + 1] = <<"tool", t.oi>>
    BY <2>1, <2>5 DEF Assembling
  <2>8. \A oi \in ToolIndex : Among(turns', <<"tool", oi>>) => X!BlockOf(oi) # {}
    BY <1>3, <2>1, <2>5 DEF Assembling
  <2> QED
    BY <1>1, <2>5, <2>6, <2>7, <2>8 DEF Assembling, X!BlockOf, p
<1> QED
  BY <1>1, <1>2, <1>4, <1>5, <1>6 DEF AnswerInv, X!Reassembled

LEMMA ToolAnswers ==
    ASSUME AnswerInv, NEW oi \in ToolIndex, X!ToolDelta(oi) PROVE AnswerInv'
<1> DEFINE met == X!BlockOf(oi) # {}
           entry == CHOOSE t \in X!BlockOf(oi) : TRUE
           index == IF met THEN entry.ai ELSE nextIndex
           fresh == [oi |-> oi, ai |-> nextIndex]
           p == <<"tool", oi>>
           n == X!Heard + 1
<1>1. /\ phase = "stream" /\ phase' = "stream" /\ text' = text
      /\ heard' = IF met THEN heard ELSE Append(heard, fresh)
      /\ nextIndex' = IF met THEN nextIndex ELSE nextIndex + 1
      /\ X!Delta(p, index, n) /\ X!Says(p, n)
  BY DEF X!ToolDelta
<1>2. /\ nextIndex \in Nat /\ text \in Int /\ heard \in Seq([oi : ToolIndex, ai : Nat])
      /\ turns \in Seq(X!Parts) /\ DOMAIN turns = 1..Len(turns) /\ Len(turns) \in Nat
  BY LenProperties DEF AnswerInv
<1>3. p \in X!Parts /\ p # <<X!Text, 0>> /\ \A o : <<"tool", o>> = p <=> o = oi
  BY DEF X!Parts, X!Text
<1>4. met => entry \in X!ToSet(heard) /\ entry.oi = oi /\ entry.ai \in Nat
  <2>1. \A t \in X!ToSet(heard) : t.ai \in Nat
    <3>1. \A i \in DOMAIN heard : heard[i] \in [oi : ToolIndex, ai : Nat]
      BY <1>2, LenProperties, ElementOfSeq
    <3> QED
      BY <3>1 DEF X!ToSet
  <2> QED
    BY <2>1 DEF X!BlockOf
<1>5. fresh \in [oi : ToolIndex, ai : Nat] /\ fresh.oi = oi /\ fresh.ai = nextIndex
  BY <1>2
<1> HIDE DEF n, p, entry, fresh
<1>6. /\ heard' \in Seq([oi : ToolIndex, ai : Nat])
      /\ X!ToSet(heard') = X!ToSet(heard) \cup (IF met THEN {} ELSE {fresh})
  <2>1. /\ Append(heard, fresh) \in Seq([oi : ToolIndex, ai : Nat])
        /\ X!ToSet(Append(heard, fresh)) = X!ToSet(heard) \cup {fresh}
    <3> DEFINE T == [oi : ToolIndex, ai : Nat]
    <3>1. heard \in Seq(T) /\ fresh \in T
      BY <1>2, <1>5
    <3> HIDE DEF T
    <3>2. Append(heard, fresh) \in Seq(T) /\ X!ToSet(Append(heard, fresh)) = X!ToSet(heard) \cup {fresh}
      BY <3>1, AppendProperties, AppendedSet
    <3> QED
      BY <3>2 DEF T
  <2> QED
    BY <1>1, <1>2, <2>1
<1>7. index \in Int /\ open' \in Int /\ nextIndex' \in Nat
  <2>1. open' = index
    BY <1>1 DEF X!Delta
  <2> QED
    BY <1>1, <1>2, <1>4, <2>1
<1>8. told' = [q \in X!Parts |-> told'[q]] /\ turns' \in Seq(X!Parts)
  BY <1>1, <1>3, SaysMore
<1>9. ASSUME X!IsInjective(turns') PROVE Assembling'
  <2>1. Assembling
    BY <1>1, <1>3, <1>9, StillAssembling
  <2>2. /\ \A t \in X!ToSet(heard) : t.ai + 1 \in DOMAIN turns /\ turns[t.ai + 1] = <<"tool", t.oi>>
        /\ \A o \in ToolIndex : Among(turns, <<"tool", o>>) => X!BlockOf(o) # {}
    BY <2>1 DEF Assembling
  <2>3. met => entry.ai + 1 \in DOMAIN turns /\ turns[entry.ai + 1] = p
    BY <1>4, <2>2 DEF p
  <2>4. met <=> Among(turns, p)
    BY <2>2, <2>3 DEF p, Among
  <2>5. /\ Among(turns, p) => /\ index + 1 \in DOMAIN turns /\ turns[index + 1] = p
                              /\ nextIndex' = nextIndex
        /\ ~Among(turns, p) => index = nextIndex /\ nextIndex' = nextIndex + 1
    BY <1>1, <2>3, <2>4
  <2>6. /\ open' = Len(turns') - 1 /\ nextIndex' = Len(turns')
        /\ blocks' = Shown(turns', told', Len(turns'))
        /\ index + 1 \in DOMAIN turns' /\ turns'[index + 1] = p
        /\ \A i \in DOMAIN turns : i \in DOMAIN turns' /\ turns'[i] = turns[i]
        /\ \A q : Among(turns', q) <=> Among(turns, q) \/ q = p
        /\ \A q \in X!Parts : ~Among(turns', q) => told'[q] = <<>>
    <3> HIDE DEF index
    <3> QED
      BY <1>1, <1>3, <1>7, <1>9, <2>5, DeltaAssembles
  <2>7. IF Among(turns', <<X!Text, 0>>)
        THEN text' + 1 \in DOMAIN turns' /\ turns'[text' + 1] = <<X!Text, 0>>
        ELSE text' = X!Closed
    BY <1>1, <1>3, <2>1, <2>6 DEF Assembling
  <2>8. \A t \in X!ToSet(heard') : t.ai + 1 \in DOMAIN turns' /\ turns'[t.ai + 1] = <<"tool", t.oi>>
    <3>1. \A t \in X!ToSet(heard) : t.ai + 1 \in DOMAIN turns' /\ turns'[t.ai + 1] = <<"tool", t.oi>>
      BY <2>2, <2>6
    <3>2. ~met => fresh.ai + 1 \in DOMAIN turns' /\ turns'[fresh.ai + 1] = <<"tool", fresh.oi>>
      BY <1>5, <2>6 DEF p
    <3> HIDE DEF met
    <3> QED
      BY <1>6, <3>1, <3>2
  <2>9. \A o \in ToolIndex : Among(turns', <<"tool", o>>) => \E t \in X!ToSet(heard') : t.oi = o
    <3>1. \A o \in ToolIndex : Among(turns, <<"tool", o>>) => \E t \in X!ToSet(heard) : t.oi = o
      BY <2>2 DEF X!BlockOf
    <3>2. \E t \in X!ToSet(heard') : t.oi = oi
      BY <1>4, <1>5, <1>6
    <3> QED
      BY <1>3, <1>6, <2>6, <3>1, <3>2
  <2> QED
    BY <2>6, <2>7, <2>8, <2>9 DEF Assembling, X!BlockOf
<1> QED
  BY <1>1, <1>2, <1>6, <1>7, <1>8, <1>9 DEF AnswerInv, X!Reassembled

LEMMA WholeAnswers ==
    ASSUME AnswerInv, NEW hasText \in BOOLEAN, NEW calls \in Seq(ToolIndex), X!FromOpenAI(hasText, calls)
    PROVE  AnswerInv'
<1> DEFINE front == IF hasText \/ calls = <<>> THEN <<<<X!Text, 0>>>> ELSE <<>>
           back == [i \in DOMAIN calls |-> <<"tool", calls[i]>>]
           bs == front \o back
<1>1. /\ phase = "whole" /\ phase' = "done" /\ turns' = bs
      /\ told' = [q \in X!Parts |-> IF q \in X!ToSet(bs) THEN <<1>> ELSE <<>>]
      /\ blocks' = [i \in DOMAIN bs |->
                      [part |-> bs[i], index |-> i - 1, got |-> <<1>>, open |-> FALSE]]
      /\ nextIndex' = nextIndex /\ open' = open /\ text' = text /\ heard' = heard
  BY DEF X!FromOpenAI, X!stream
<1>2. bs \in Seq(X!Parts)
  <2>1. <<X!Text, 0>> \in X!Parts /\ \A oi \in ToolIndex : <<"tool", oi>> \in X!Parts
    BY DEF X!Parts
  <2>2. front \in Seq(X!Parts)
    <3>1. <<<<X!Text, 0>>>> \in Seq(X!Parts) /\ <<>> \in Seq(X!Parts)
      BY <2>1
    <3> QED BY <3>1
  <2>3. back \in Seq(X!Parts)
    <3>1. /\ Len(calls) \in Nat /\ DOMAIN calls = 1..Len(calls)
          /\ \A i \in 1..Len(calls) : calls[i] \in ToolIndex
      BY LenProperties, ElementOfSeq
    <3>2. back \in [1..Len(calls) -> X!Parts]
      BY <2>1, <3>1
    <3> HIDE DEF back
    <3> QED BY <3>1, <3>2
  <2> HIDE DEF front, back
  <2> QED BY <2>2, <2>3, ConcatProperties
<1> HIDE DEF bs
<1>3. \A i \in DOMAIN bs : told'[bs[i]] = <<1>>
  <2>1. \A i \in DOMAIN bs : bs[i] \in X!Parts /\ bs[i] \in X!ToSet(bs)
    BY <1>2, LenProperties, ElementOfSeq DEF X!ToSet
  <2> QED BY <1>1, <2>1
<1>4. X!Reassembled'
  <2>1. \A i \in DOMAIN bs : [part |-> bs[i], index |-> i - 1, got |-> <<1>>, open |-> FALSE]
                               = [part |-> turns'[i], index |-> i - 1, got |-> told'[turns'[i]], open |-> FALSE]
    BY <1>1, <1>3, Zenon
  <2>2. blocks' = [i \in DOMAIN turns' |->
                    [part |-> turns'[i], index |-> i - 1, got |-> told'[turns'[i]], open |-> FALSE]]
    BY <1>1, <2>1, Zenon
  <2> QED BY <2>2 DEF X!Reassembled
<1>5. told' = [q \in X!Parts |-> told'[q]]
  BY <1>1
<1> QED
  BY <1>1, <1>2, <1>4, <1>5 DEF AnswerInv

LEMMA EndAnswers ==
    ASSUME AnswerInv, X!StreamEnds PROVE AnswerInv'
<1>1. /\ phase = "stream" /\ phase' = "done" /\ blocks' = X!Stopped(blocks, open) /\ open' = X!Closed
      /\ nextIndex' = nextIndex /\ text' = text /\ heard' = heard /\ told' = told /\ turns' = turns
  BY DEF X!StreamEnds
<1>2. turns \in Seq(X!Parts) /\ Len(turns) \in Nat /\ DOMAIN turns = 1..Len(turns)
  BY LenProperties DEF AnswerInv
<1>3. ASSUME X!IsInjective(turns)
      PROVE  blocks' = [i \in DOMAIN turns |->
                          [part |-> turns[i], index |-> i - 1, got |-> told[turns[i]], open |-> FALSE]]
  <2>1. open = Len(turns) - 1 /\ blocks = Shown(turns, told, Len(turns))
    BY <1>1, <1>3 DEF AnswerInv, Assembling
  <2>2. blocks' = Shown(turns, told, 0)
    <3>1. 0 \notin DOMAIN turns
      BY <1>2
    <3> QED BY <1>1, <1>2, <2>1, <3>1, StoppedBlocks
  <2>3. \A i \in DOMAIN turns : (i = 0) = FALSE
    BY <1>2
  <2>4. \A i \in DOMAIN turns :
          Held(turns[i], i - 1, told[turns[i]], i = 0)
            = [part |-> turns[i], index |-> i - 1, got |-> told[turns[i]], open |-> FALSE]
    BY <2>3, Zenon DEF Held
  <2> QED
    BY <2>2, <2>4, Zenon DEF Shown
<1>4. X!Reassembled'
  BY <1>1, <1>3 DEF X!Reassembled
<1>5. X!Closed \in Int
  BY DEF X!Closed
<1> QED
  BY <1>1, <1>4, <1>5 DEF AnswerInv

\* Until the upstream answers there is no answer to put together.
LEMMA NoAnswerYet ==
    ASSUME AnswerInv, phase \notin {"stream", "done"},
           UNCHANGED <<nextIndex, open, text, heard, told, turns, blocks>>
    PROVE  AnswerInv'
<1>1. /\ nextIndex = 0 /\ open = X!Closed /\ text = X!Closed /\ heard = <<>>
      /\ turns = <<>> /\ blocks = <<>> /\ told = [p \in X!Parts |-> <<>>]
  BY DEF AnswerInv
<1>2. Assembling'
  <2>1. Len(turns) = 0 /\ DOMAIN turns = {} /\ -1 = 0 - 1
    BY <1>1, EmptySeq
  <2>2. \A p : ~Among(turns, p)
    BY <2>1 DEF Among
  <2>3. blocks = Shown(turns, told, Len(turns))
    BY <1>1, <2>1 DEF Shown
  <2>4. X!ToSet(heard) = {} /\ open = Len(turns) - 1
    BY <1>1, <2>1 DEF X!ToSet, X!Closed
  <2>5. \A p \in X!Parts : told[p] = <<>>
    BY <1>1
  <2> QED
    BY <1>1, <2>1, <2>2, <2>3, <2>4, <2>5 DEF Assembling
<1>3. X!Reassembled'
  <2>1. DOMAIN turns = {}
    BY <1>1
  <2>2. blocks = [i \in DOMAIN turns |->
                    [part |-> turns[i], index |-> i - 1, got |-> told[turns[i]], open |-> FALSE]]
    BY <1>1, <2>1
  <2> QED BY <2>2 DEF X!Reassembled
<1> QED
  BY <1>2, <1>3, <1>1 DEF AnswerInv

LEMMA Answers == ASSUME AnswerInv, [X!Next]_(X!vars) PROVE AnswerInv'
<1>1. CASE UNCHANGED X!vars
  <2>1. /\ asked' = asked /\ reading' = reading /\ phase' = phase /\ nextIndex' = nextIndex
        /\ open' = open /\ text' = text /\ heard' = heard /\ told' = told /\ turns' = turns
        /\ blocks' = blocks
    BY <1>1 DEF X!vars, X!stream
  <2>2. Assembling' <=> Assembling
    BY <2>1 DEF Assembling, X!BlockOf
  <2>3. X!Reassembled' <=> X!Reassembled
    BY <2>1 DEF X!Reassembled
  <2> QED
    BY <2>1, <2>2, <2>3 DEF AnswerInv
<1>2. CASE X!Request
  BY <1>2, NoAnswerYet DEF X!Request, X!stream
<1>3. CASE X!Translate
  BY <1>3, NoAnswerYet DEF X!Translate, X!SkipSystem, X!AssistantBlock, X!UserBlock, X!MessageEnds,
                           X!BodyEnds, X!stream
<1>4. CASE X!UpstreamFails
  BY <1>4, NoAnswerYet DEF X!UpstreamFails, X!stream
<1>5. CASE X!TextDelta
  BY <1>5, TextAnswers
<1>6. CASE X!StreamEnds
  BY <1>6, EndAnswers
<1>7. CASE \E b \in BOOLEAN : X!UpstreamAnswers(b)
  BY <1>7, NoAnswerYet DEF X!UpstreamAnswers, X!stream
<1>8. CASE \E oi \in ToolIndex : X!ToolDelta(oi)
  BY <1>8, ToolAnswers
<1>9. CASE \E b \in BOOLEAN, calls \in X!BoundedSeq(ToolIndex, 2) :
             X!IsInjective(calls) /\ X!FromOpenAI(b, calls)
  <2>1. PICK b \in BOOLEAN, calls \in X!BoundedSeq(ToolIndex, 2) : X!FromOpenAI(b, calls)
    BY <1>9
  <2>2. calls \in Seq(ToolIndex)
    <3>1. PICK m \in 0..2 : calls \in [1..m -> ToolIndex]
      BY DEF X!BoundedSeq, X!SeqOf
    <3> QED BY <3>1
  <2> QED BY <2>1, <2>2, WholeAnswers
<1> QED
  BY <1>1, <1>2, <1>3, <1>4, <1>5, <1>6, <1>7, <1>8, <1>9 DEF X!Next

LEMMA ProxyInit == X!Init => TranslationInv /\ AnswerInv
<1> SUFFICES ASSUME X!Init PROVE TranslationInv /\ AnswerInv
  OBVIOUS
<1>1. /\ asked = <<>> /\ phase = "idle" /\ nextIndex = 0 /\ open = X!Closed /\ text = X!Closed
      /\ heard = <<>> /\ told = [p \in X!Parts |-> <<>>] /\ turns = <<>> /\ blocks = <<>>
  BY DEF X!Init
<1>2. TranslationInv
  BY <1>1 DEF TranslationInv, X!ToolsAnswered
<1>3. X!Closed \in Int /\ <<>> \in Seq(X!Parts) /\ <<>> \in Seq([oi : ToolIndex, ai : Nat])
  BY DEF X!Closed
<1>4. AnswerInv
  BY <1>1, <1>3 DEF AnswerInv, X!Reassembled
<1> QED BY <1>2, <1>4

\* For any conversations of the Messages API and whatever the upstream answers,
\* in one piece or as a stream of any length: the results of all calls stand
\* right behind the message that makes them, and the client has every part of
\* the answer, whole and in order, if the upstream finishes a part before the
\* next.
THEOREM ProxyTranslates == X!Spec => []TranslatesWhole
<1>1. TranslationInv /\ AnswerInv => TranslatesWhole
  BY DEF TranslationInv, AnswerInv, TranslatesWhole, X!TranslatesWhole
<1> QED
  BY ProxyInit, Translates, Answers, <1>1, PTL DEF X!Spec

---------------------------------------------------------------------------
(* Reports: what a report that calls itself complete holds                 *)

AsGiven == report \in {"schedule", "record"}
Looking == step \in {"resolve", "together", "each"}

RangeInv ==
    /\ report \in R!AllScripts
    /\ from \in R!Instant /\ to \in R!Instant /\ R!Leq(from, to)
    /\ step \in {"resolve", "together", "each", "slice", "query", "done"}

\* Nobody is in the list twice, unless the ids were taken as given.
UsersInv ==
    /\ ids \in Seq(UserIds) /\ named \in Seq(UserIds) /\ users \in Seq(UserIds)
    /\ step \notin {"together", "each"} => named = <<>>
    /\ ~AsGiven => \A x, y \in 1..Len(users) : users[x] = users[y] => x = y

Moment == [day : Nat, time : 0..2]

\* The slices follow each other without a gap or a day in two of them.
Contiguous(sl) ==
    /\ sl \in Seq([from : Moment, to : Moment])
    /\ sl # <<>> => sl[1].from.day = from.day
    /\ \A i \in 1..Len(sl) : /\ from.day <= sl[i].from.day /\ sl[i].from.day <= sl[i].to.day
                             /\ sl[i].to.day <= to.day
    /\ \A i \in 1..Len(sl) - 1 : sl[i + 1].from.day = sl[i].to.day + 1

\* A range that does not end with a day is cut for ever.
Endless ==
    /\ report \in {"detail", "monthly", "daily"} /\ to.time # 2
    /\ cur = [day |-> to.day, time |-> 0]

SliceInv ==
    /\ cur \in Moment
    /\ Looking => slices = <<>> /\ cur = from
    /\ step = "slice" =>
         \/ Endless
         \/ /\ Contiguous(slices)
            /\ IF slices = <<>> THEN cur = from
               ELSE cur.time = 0 /\ cur.day = slices[Len(slices)].to.day + 1
    /\ step \in {"query", "done"} =>
         Contiguous(slices) /\ slices # <<>> /\ slices[Len(slices)].to.day = to.day

\* Where the three loops of the script may be.
PlaceInv ==
    /\ source \in Nat \ {0} /\ first \in Nat \ {0} /\ slice \in Nat \ {0}
    /\ step \notin {"query", "done"} => source = 1 /\ first = 1 /\ slice = 1
    /\ step \in {"query", "done"} =>
         CASE report = "detail" -> source <= Len(R!Sources) /\ slice <= Len(slices)
           [] report = "vacation" -> source = 1 /\ (first <= Len(users) \/ users = <<>>)
           [] OTHER -> slice <= Len(slices) /\ (first <= Len(users) \/ users = <<>>)

FirstDay(i) == IF i <= Len(slices) THEN slices[i].from.day ELSE to.day + 1
Key(s, x, d) == <<R!Sources[s], users[x], d>>
Exists(s, x, d) == s \in 1..Len(R!Sources) /\ x \in 1..Len(users) /\ d \in from.day..to.day

\* The call for the s-th source, the x-th user and day d was made before the
\* one that is under way, or is this one.
Earlier(so, f, s, x, d, a, b) ==
    CASE report = "detail" -> x < f \/ (x < f + BatchSize /\ (d < a \/ (d < b /\ s < so)))
      [] report = "vacation" -> d < a \/ (d < b /\ x < f)
      [] OTHER -> s < so \/ (s = so /\ (x < f \/ (x < f + BatchSize /\ d < a)))
Before(s, x, d) == Earlier(source, first, s, x, d, FirstDay(slice), FirstDay(slice + 1))
Current(s, x, d) ==
    /\ s = source /\ first <= x /\ x < first + BatchSize
    /\ FirstDay(slice) <= d /\ d < FirstDay(slice + 1)

\* The calls that were made, those for single users among them.
Made(s, x, d) == Before(s, x, d) \/ (single # {} /\ Current(s, x, d) /\ users[x] \notin single)

\* What was answered is of calls that were made, once of each, and of all of
\* them if none failed.
GotInv ==
    /\ failed \in Nat
    /\ step \notin {"query", "done"} => got = <<>> /\ single = {} /\ failed = 0
    /\ single # {} => report = "vacation" /\ ~R!CallsOver /\ single \subseteq R!Batch
    /\ \A k \in DOMAIN got : \E s, x, d : Exists(s, x, d) /\ k = Key(s, x, d)
    /\ ~AsGiven => /\ \A k \in DOMAIN got : got[k] = 1
                   /\ \A s, x, d : Exists(s, x, d) /\ Key(s, x, d) \in DOMAIN got => Made(s, x, d)
    /\ step \in {"query", "done"} /\ failed = 0 =>
         \A s, x, d : Exists(s, x, d) /\ Made(s, x, d) => Key(s, x, d) \in DOMAIN got

SaidInv ==
    /\ said = "complete" => step = "done" /\ failed = 0 /\ R!CallsOver
    /\ said = "success" => step = "done" /\ R!CallsOver

ReportInv == RangeInv /\ UsersInv /\ SliceInv /\ PlaceInv /\ GotInv /\ SaidInv

\* Only an external leave type has a line that its balance is not to be had.
UnknownInv == \A k \in unknown : k[3] \in External

\* An id given is still to be looked at, or who it stands for is taken or about
\* to be.
AskedInv ==
    /\ step = "resolve" => ids = raw
    /\ step = "together" => R!Mixed
    /\ AsGiven => step \notin {"together", "each"} /\ (step = "resolve" \/ users = raw)
    /\ ~AsGiven =>
         /\ \A id \in R!ToSet(raw) :
              id \in R!ToSet(ids) \/ R!CoveredBy(R!ToSet(users) \cup R!ToSet(named), id)
         /\ ~Looking => ids = <<>> /\ named = <<>>

LEMMA SourcesAre ==
    ASSUME RangeInv
    PROVE  /\ Len(R!Sources) \in {1, 2}
           /\ report \notin {"detail", "monthly", "daily"} => Len(R!Sources) = 1
           /\ report \in {"detail", "monthly", "daily"} => Len(R!Sources) = 2
           /\ \A s, t \in 1..Len(R!Sources) : R!Sources[s] = R!Sources[t] => s = t
           /\ report = "detail" => R!Sources = <<"result", "record">>
           /\ report \in {"monthly", "daily"} => R!Sources = <<"data", "leave">>
           /\ report \notin {"detail", "monthly", "daily"} => R!Sources = <<"data">>
<1>1. CASE report = "detail"
  <2>1. R!Sources = <<"result", "record">>
    BY <1>1 DEF R!Sources
  <2> QED BY <1>1, <2>1
<1>2. CASE report \in {"monthly", "daily"}
  <2>1. R!Sources = <<"data", "leave">>
    BY <1>2 DEF R!Sources
  <2> QED BY <1>2, <2>1
<1>3. CASE report \notin {"detail", "monthly", "daily"}
  <2>1. R!Sources = <<"data">>
    BY <1>3 DEF R!Sources
  <2> QED BY <1>3, <2>1
<1> QED BY <1>1, <1>2, <1>3

LEMMA RangeIs ==
    ASSUME RangeInv
    PROVE  /\ from.day \in Nat /\ to.day \in Nat /\ from.time \in 0..2 /\ to.time \in 0..2
           /\ from.day <= to.day /\ from \in Moment /\ to \in Moment
           /\ to.day <= LastDay /\ LastDay \in Nat /\ 1 <= from.day
           /\ BatchSize \in Nat /\ 1 <= BatchSize /\ SliceDays \in Nat /\ 1 <= SliceDays
BY ReportAssumption DEF RangeInv, R!Instant, R!Leq, Moment

---------------------------------------------------------------------------

\* A slice that follows the others.
LEMMA OneMore ==
    ASSUME RangeInv, NEW sl, Contiguous(sl), NEW f \in Moment, NEW e \in Moment,
           f.day <= e.day, e.day <= to.day,
           f.day = IF sl = <<>> THEN from.day ELSE sl[Len(sl)].to.day + 1
    PROVE  Contiguous(Append(sl, [from |-> f, to |-> e]))
<1> DEFINE Slice == [from : Moment, to : Moment]
           c == [from |-> f, to |-> e]
           r == Append(sl, c)
           n == Len(sl)
<1>1. sl \in Seq(Slice) /\ n \in Nat /\ c \in Slice
  BY LenProperties DEF Contiguous
<1>2. r \in Seq(Slice) /\ Len(r) = n + 1 /\ r[n + 1] = c /\ (\A i \in 1..n : r[i] = sl[i]) /\ r # <<>>
  <2> HIDE DEF Slice, c
  <2> QED BY <1>1, AppendProperties
<1>3. \A i \in 1..n : sl[i].from.day \in Nat /\ sl[i].to.day \in Nat
  <2>1. \A i \in 1..n : sl[i] \in Slice
    BY <1>1, ElementOfSeq
  <2> QED BY <2>1 DEF Moment
<1>4. sl # <<>> => n \in 1..n
  BY <1>1, EmptySeq
<1>5. sl = <<>> => n = 0
  BY EmptySeq
<1>6. /\ from.day \in Nat /\ to.day \in Nat /\ f.day \in Nat /\ e.day \in Nat
      /\ c.from.day = f.day /\ c.to.day = e.day
  BY RangeIs DEF Moment
<1>7. /\ sl # <<>> => sl[1].from.day = from.day
      /\ \A i \in 1..n : /\ from.day <= sl[i].from.day /\ sl[i].from.day <= sl[i].to.day
                         /\ sl[i].to.day <= to.day
      /\ \A i \in 1..n - 1 : sl[i + 1].from.day = sl[i].to.day + 1
  BY DEF Contiguous
<1> HIDE DEF r, n, c, Slice
<1>8. from.day <= f.day
  <2>1. CASE sl = <<>>
    BY <1>6, <2>1
  <2>2. CASE sl # <<>>
    BY <1>3, <1>4, <1>6, <1>7, <2>2 DEF n
  <2> QED BY <2>1, <2>2
<1>9. r[1].from.day = from.day
  <2>1. CASE sl = <<>>
    BY <1>2, <1>5, <1>6, <2>1
  <2>2. CASE sl # <<>>
    <3>1. 1 \in 1..n
      BY <1>1, <1>4, <2>2
    <3> QED BY <1>2, <1>7, <2>2, <3>1
  <2> QED BY <2>1, <2>2
<1>10. \A i \in 1..n + 1 : from.day <= r[i].from.day /\ r[i].from.day <= r[i].to.day /\ r[i].to.day <= to.day
  <2> SUFFICES ASSUME NEW i \in 1..n + 1
               PROVE  from.day <= r[i].from.day /\ r[i].from.day <= r[i].to.day /\ r[i].to.day <= to.day
    OBVIOUS
  <2>1. CASE i = n + 1
    BY <1>2, <1>6, <1>8, <2>1
  <2>2. CASE i # n + 1
    <3>1. i \in 1..n
      BY <1>1, <2>2
    <3> QED BY <1>2, <1>7, <3>1
  <2> QED BY <2>1, <2>2
<1>11. \A i \in 1..n : r[i + 1].from.day = r[i].to.day + 1
  <2> SUFFICES ASSUME NEW i \in 1..n PROVE r[i + 1].from.day = r[i].to.day + 1
    OBVIOUS
  <2>1. CASE i = n
    <3>1. sl # <<>>
      BY <1>1, <1>5
    <3> QED BY <1>2, <1>6, <2>1, <3>1 DEF n
  <2>2. CASE i # n
    <3>1. i \in 1..n - 1 /\ i + 1 \in 1..n
      BY <1>1, <2>2
    <3> QED BY <1>2, <1>7, <3>1
  <2> QED BY <2>1, <2>2
<1>12. Len(r) - 1 = n /\ Len(r) = n + 1
  BY <1>1, <1>2
<1> QED BY <1>2, <1>9, <1>10, <1>11, <1>12 DEF Contiguous, r, c, Slice

LEMMA CutInv ==
    ASSUME ReportInv, R!Cut
    PROVE  SliceInv'
<1>1. /\ step = "slice" /\ step' = "slice" /\ R!Leq(cur, to)
      /\ UNCHANGED <<report, from, to>>
  BY DEF R!Cut, R!range
<1>2. /\ from.day \in Nat /\ to.day \in Nat /\ to.time \in 0..2 /\ from.day <= to.day
      /\ to \in Moment /\ to.day <= LastDay /\ LastDay \in Nat /\ 1 <= from.day
      /\ SliceDays \in Nat /\ 1 <= SliceDays
  BY RangeIs DEF ReportInv
<1>3. cur \in Moment /\ cur.day \in Nat /\ cur.time \in 0..2 /\ cur.day <= to.day
  BY <1>1, <1>2 DEF ReportInv, SliceInv, R!Leq, Moment
<1> DEFINE days == CASE report \in {"schedule", "record"} -> LastDay
                     [] report = "vacation" -> 1
                     [] OTHER -> SliceDays
           last == [day |-> cur.day + days - 1, time |-> 2]
           end == R!Earlier(last, to)
<1>4. days \in Nat /\ 1 <= days
  BY <1>2
<1>5. /\ slices' = Append(slices, [from |-> cur, to |-> end])
      /\ cur' = IF report \in {"detail", "monthly", "daily"} THEN R!NextStart(end) ELSE R!CheckinNextStart(end)
  BY DEF R!Cut
<1> HIDE DEF days
<1>6. last \in Moment /\ last.time = 2 /\ last.day = cur.day + days - 1 /\ cur.day <= last.day
  BY <1>3, <1>4 DEF Moment
<1> HIDE DEF last
<1>7. /\ end \in Moment /\ end.day \in Nat /\ cur.day <= end.day /\ end.day <= to.day
      /\ end = to \/ end.time = 2
  <2>1. CASE R!Leq(last, to)
    BY <1>2, <1>3, <1>6, <2>1 DEF R!Earlier, R!Leq, Moment
  <2>2. CASE ~R!Leq(last, to)
    BY <1>2, <1>3, <2>2 DEF R!Earlier, Moment
  <2> QED BY <2>1, <2>2
<1> HIDE DEF end
<1>8. cur' \in Moment /\ cur'.time = 0
  BY <1>5, <1>7 DEF R!NextStart, R!CheckinNextStart, Moment
<1>9. CASE Endless
  <2>1. report \in {"detail", "monthly", "daily"} /\ to.time # 2 /\ cur.day = to.day
    BY <1>9 DEF Endless
  <2>2. end = to
    <3>1. last.day >= to.day /\ last.time = 2
      BY <1>6, <2>1
    <3>2. ~R!Leq(last, to)
      BY <1>2, <1>6, <2>1, <3>1 DEF R!Leq, Moment
    <3> QED BY <3>2 DEF end, R!Earlier
  <2>3. cur' = [day |-> to.day, time |-> 0]
    BY <1>5, <2>1, <2>2 DEF R!NextStart
  <2> QED BY <1>1, <1>8, <2>1, <2>3 DEF SliceInv, Endless, Looking
<1>10. CASE ~Endless
  <2>1. /\ Contiguous(slices)
        /\ IF slices = <<>> THEN cur = from
           ELSE cur.time = 0 /\ cur.day = slices[Len(slices)].to.day + 1
    BY <1>1, <1>10 DEF ReportInv, SliceInv
  <2>2. Contiguous(slices')
    BY <1>3, <1>5, <1>7, <2>1, OneMore DEF ReportInv
  <2>3. slices' # <<>> /\ slices'[Len(slices')] = [from |-> cur, to |-> end]
    <3> DEFINE Slice == [from : Moment, to : Moment]
               c == [from |-> cur, to |-> end]
    <3>1. c \in Slice /\ slices \in Seq(Slice) /\ slices' = Append(slices, c)
      BY <1>3, <1>5, <1>7, <2>1 DEF Contiguous
    <3> HIDE DEF Slice, c
    <3>2. slices' # <<>> /\ slices'[Len(slices')] = c
      BY <3>1, AppendProperties
    <3> QED BY <3>2 DEF c
  <2>4. CASE report \in {"detail", "monthly", "daily"} /\ end.time # 2
    <3>1. cur' = [day |-> to.day, time |-> 0] /\ to.time # 2
      BY <1>5, <1>7, <2>4 DEF R!NextStart
    <3> QED BY <1>1, <1>8, <2>4, <3>1 DEF SliceInv, Endless, Looking
  <2>5. CASE ~(report \in {"detail", "monthly", "daily"} /\ end.time # 2)
    <3>1. cur'.day = end.day + 1
      BY <1>5, <2>5 DEF R!NextStart, R!CheckinNextStart
    <3>2. slices'[Len(slices')].to.day = end.day
      BY <2>3
    <3>3. Contiguous(slices)'
      BY <1>1, <2>2 DEF Contiguous
    <3> QED BY <1>1, <1>8, <2>3, <3>1, <3>2, <3>3 DEF SliceInv, Looking
  <2> QED BY <2>4, <2>5
<1> QED BY <1>9, <1>10

\* The cutting ends behind the last day only.
LEMMA CutEndsInv ==
    ASSUME ReportInv, R!CutEnds
    PROVE  SliceInv'
<1>1. /\ step = "slice" /\ step' = "query" /\ ~R!Leq(cur, to)
      /\ UNCHANGED <<report, from, to, cur, slices>>
  BY DEF R!CutEnds, R!QueryFrame, R!range
<1>2. ~Endless
  <2>1. to.day \in Nat /\ to.time \in 0..2
    BY RangeIs DEF ReportInv
  <2> QED BY <1>1, <2>1 DEF Endless, R!Leq
<1>3. /\ Contiguous(slices) /\ cur \in Moment
      /\ IF slices = <<>> THEN cur = from
         ELSE cur.time = 0 /\ cur.day = slices[Len(slices)].to.day + 1
  BY <1>1, <1>2 DEF ReportInv, SliceInv
<1>4. slices # <<>>
  BY <1>1, <1>3 DEF ReportInv, RangeInv
<1>5. slices[Len(slices)].to.day = to.day
  <2>1. slices \in Seq([from : Moment, to : Moment]) /\ Len(slices) \in 1..Len(slices)
    BY <1>3, <1>4, EmptySeq, LenProperties DEF Contiguous
  <2>2. slices[Len(slices)].to.day \in Nat /\ slices[Len(slices)].to.day <= to.day
    <3>1. slices[Len(slices)] \in [from : Moment, to : Moment]
      BY <2>1, ElementOfSeq
    <3> QED BY <1>3, <2>1, <3>1 DEF Contiguous, Moment
  <2>3. to.day \in Nat /\ to.time \in 0..2
    BY RangeIs DEF ReportInv
  <2>4. ~(cur.day < to.day) /\ ~(cur.day = to.day)
    BY <1>1, <1>3, <1>4, <2>3 DEF R!Leq, Moment
  <2> QED BY <1>3, <1>4, <2>2, <2>3, <2>4 DEF Moment
<1>6. Contiguous(slices)'
  BY <1>1, <1>3 DEF Contiguous
<1> QED BY <1>1, <1>3, <1>4, <1>5, <1>6 DEF SliceInv, Looking

---------------------------------------------------------------------------

\* Before the first call nothing was answered.
LEMMA NothingYet ==
    ASSUME ReportInv, step \notin {"query", "done"}, step' \notin {"query", "done"},
           R!call' = R!call, single' = single, got' = got, failed' = failed, said' = said
    PROVE  PlaceInv' /\ GotInv' /\ SaidInv'
<1>1. source' = 1 /\ first' = 1 /\ slice' = 1
  BY DEF ReportInv, PlaceInv, R!call
<1>2. got' = <<>> /\ single' = {} /\ failed' = 0
  BY DEF ReportInv, GotInv
<1>3. said' \notin {"complete", "success"}
  BY DEF ReportInv, SaidInv
<1>4. DOMAIN got' = {}
  BY <1>2
<1> QED BY <1>1, <1>2, <1>3, <1>4 DEF PlaceInv, GotInv, SaidInv

LEMMA CutsInv == ASSUME ReportInv, R!Cut PROVE ReportInv'
<1>1. step = "slice" /\ step' = "slice" /\ UNCHANGED <<report, from, to, users, ids, named>>
  BY DEF R!Cut, R!range
<1>2. PlaceInv' /\ GotInv' /\ SaidInv'
  BY <1>1, NothingYet DEF R!Cut
<1>3. RangeInv' /\ UsersInv'
  BY <1>1 DEF ReportInv, RangeInv, UsersInv, AsGiven
<1> QED BY <1>2, <1>3, CutInv DEF ReportInv

\* A user is taken once.
LEMMA TakesOnce ==
    ASSUME UsersInv, NEW u \in UserIds,
           users' = IF u \in R!ToSet(users) THEN users ELSE Append(users, u)
    PROVE  /\ users' \in Seq(UserIds)
           /\ ~AsGiven => \A x, y \in 1..Len(users') : users'[x] = users'[y] => x = y
<1>1. users \in Seq(UserIds) /\ DOMAIN users = 1..Len(users) /\ Len(users) \in Nat
  BY LenProperties DEF UsersInv
<1>2. CASE u \in R!ToSet(users)
  BY <1>2 DEF UsersInv
<1>3. CASE u \notin R!ToSet(users)
  <2>1. /\ users' = Append(users, u) /\ users' \in Seq(UserIds)
        /\ Len(users') = Len(users) + 1 /\ users'[Len(users) + 1] = u
        /\ \A i \in 1..Len(users) : users'[i] = users[i]
    BY <1>1, <1>3, AppendProperties
  <2>2. \A i \in 1..Len(users) : users[i] # u
    BY <1>1, <1>3 DEF R!ToSet
  <2>3. ASSUME ~AsGiven, NEW x \in 1..Len(users'), NEW y \in 1..Len(users'), users'[x] = users'[y]
        PROVE  x = y
    <3>1. \A z \in 1..Len(users') : z \in 1..Len(users) \/ z = Len(users) + 1
      BY <1>1, <2>1
    <3>2. CASE x \in 1..Len(users) /\ y \in 1..Len(users)
      BY <2>1, <2>3, <3>2 DEF UsersInv
    <3>3. CASE x = Len(users) + 1 /\ y = Len(users) + 1
      BY <3>3
    <3>4. CASE x = Len(users) + 1 /\ y \in 1..Len(users)
      BY <2>1, <2>2, <2>3, <3>4
    <3>5. CASE y = Len(users) + 1 /\ x \in 1..Len(users)
      BY <2>1, <2>2, <2>3, <3>5
    <3> QED BY <3>1, <3>2, <3>3, <3>4, <3>5
  <2> QED BY <2>1, <2>3
<1> QED BY <1>2, <1>3

LEMMA UsersStep ==
    ASSUME ReportInv, R!TakeIds \/ R!ResolveUsers \/ R!NextId \/ R!TakeUser \/ R!UsersResolved
    PROVE  ReportInv'
<1>1. /\ UNCHANGED <<report, from, to, cur, slices, source, first, slice, single, got, failed, said>>
      /\ R!call' = R!call
  BY DEF R!TakeIds, R!ResolveUsers, R!NextId, R!TakeUser, R!UsersResolved, R!QueryFrame, R!range, R!call
<1>2. Looking /\ step' \in {"together", "each", "slice"}
  BY DEF R!TakeIds, R!ResolveUsers, R!NextId, R!TakeUser, R!UsersResolved, Looking, ReportInv, UsersInv
<1>3. PlaceInv' /\ GotInv' /\ SaidInv'
  BY <1>1, <1>2, NothingYet DEF Looking
<1>4. RangeInv'
  BY <1>1, <1>2 DEF ReportInv, RangeInv
<1>5. SliceInv'
  <2>1. slices = <<>> /\ cur = from /\ cur \in Moment
    BY <1>2 DEF ReportInv, SliceInv
  <2>2. Contiguous(slices)'
    BY <1>1, <2>1, EmptySeq DEF Contiguous
  <2> QED BY <1>1, <1>2, <2>1, <2>2 DEF SliceInv, Looking
<1>6. UsersInv'
  <2>1. UsersInv
    BY DEF ReportInv
  <2>2. CASE R!TakeIds
    BY <1>1, <2>1, <2>2 DEF R!TakeIds, UsersInv, AsGiven
  <2>3. CASE R!ResolveUsers
    BY <1>1, <2>1, <2>3 DEF R!ResolveUsers, UsersInv, AsGiven
  <2>4. CASE R!NextId
    <3>1. ids # <<>> /\ ids' = Tail(ids) /\ users' = users /\ step' = step /\ step \in {"together", "each"}
      BY <2>4 DEF R!NextId
    <3>2. Tail(ids) \in Seq(UserIds) /\ Head(ids) \in UserIds
      BY <2>1, <3>1 DEF UsersInv
    <3>3. R!Expanded(Head(ids)) \in Seq(UserIds)
      BY ReportAssumption DEF R!Expanded
    <3>4. named' \in Seq(UserIds)
      <4>1. named' \in {<<>>, R!Expanded(Head(ids)), <<Head(ids)>>}
        BY <2>4 DEF R!NextId
      <4>2. <<>> \in Seq(UserIds) /\ <<Head(ids)>> \in Seq(UserIds)
        BY <3>2
      <4> QED BY <3>3, <4>1, <4>2
    <3> QED BY <1>1, <2>1, <3>1, <3>2, <3>4 DEF UsersInv, AsGiven
  <2>5. CASE R!TakeUser
    <3>1. /\ named # <<>> /\ named' = Tail(named) /\ ids' = ids /\ step' = step
          /\ users' = IF Head(named) \in R!ToSet(users) THEN users ELSE Append(users, Head(named))
      BY <2>5 DEF R!TakeUser
    <3>2. Tail(named) \in Seq(UserIds) /\ Head(named) \in UserIds
      BY <2>1, <3>1 DEF UsersInv
    <3>3. users' \in Seq(UserIds) /\ (~AsGiven => \A x, y \in 1..Len(users') : users'[x] = users'[y] => x = y)
      BY <2>1, <3>1, <3>2, TakesOnce
    <3> QED BY <1>1, <2>1, <3>1, <3>2, <3>3 DEF UsersInv, AsGiven
  <2>6. CASE R!UsersResolved
    BY <1>1, <2>1, <2>6 DEF R!UsersResolved, UsersInv, AsGiven
  <2> QED BY <2>2, <2>3, <2>4, <2>5, <2>6
<1> QED BY <1>3, <1>4, <1>5, <1>6 DEF ReportInv

---------------------------------------------------------------------------

\* The slices part the range: the next begins where one ends.
LEMMA DaysFollow ==
    ASSUME RangeInv, Contiguous(slices), slices # <<>>, slices[Len(slices)].to.day = to.day
    PROVE  /\ Len(slices) \in Nat /\ 1 <= Len(slices)
           /\ \A i \in 1..Len(slices) + 1 : FirstDay(i) \in Nat
           /\ FirstDay(1) = from.day /\ FirstDay(Len(slices) + 1) = to.day + 1
           /\ \A i \in 1..Len(slices) :
                /\ R!Days(slices[i]) = FirstDay(i)..FirstDay(i + 1) - 1
                /\ from.day <= FirstDay(i) /\ FirstDay(i) < FirstDay(i + 1)
                /\ FirstDay(i + 1) <= to.day + 1
<1> DEFINE n == Len(slices)
<1>1. n \in Nat /\ 1 <= n /\ n \in 1..n
  BY EmptySeq, LenProperties DEF Contiguous
<1>2. from.day \in Nat /\ to.day \in Nat
  BY RangeIs
<1>3. \A i \in 1..n : slices[i].from.day \in Nat /\ slices[i].to.day \in Nat
  <2>1. \A i \in 1..n : slices[i] \in [from : Moment, to : Moment]
    BY ElementOfSeq DEF Contiguous
  <2> QED BY <2>1 DEF Moment
<1>4. /\ slices[1].from.day = from.day /\ slices[n].to.day = to.day
      /\ \A i \in 1..n : /\ from.day <= slices[i].from.day /\ slices[i].from.day <= slices[i].to.day
                         /\ slices[i].to.day <= to.day
      /\ \A i \in 1..n - 1 : slices[i + 1].from.day = slices[i].to.day + 1
  BY DEF Contiguous
<1> HIDE DEF n
<1>5. (\A i \in 1..n : FirstDay(i) = slices[i].from.day) /\ FirstDay(n + 1) = to.day + 1
  BY <1>1 DEF FirstDay, n
<1>6. \A i \in 1..n : FirstDay(i + 1) = slices[i].to.day + 1
  <2> SUFFICES ASSUME NEW i \in 1..n PROVE FirstDay(i + 1) = slices[i].to.day + 1
    OBVIOUS
  <2>1. CASE i = n
    BY <1>4, <1>5, <2>1
  <2>2. CASE i # n
    <3>1. i \in 1..n - 1 /\ i + 1 \in 1..n
      BY <1>1, <2>2
    <3> QED BY <1>4, <1>5, <3>1
  <2> QED BY <2>1, <2>2
<1>7. \A i \in 1..n + 1 : FirstDay(i) \in Nat
  <2> SUFFICES ASSUME NEW i \in 1..n + 1 PROVE FirstDay(i) \in Nat
    OBVIOUS
  <2>1. i \in 1..n \/ i = n + 1
    BY <1>1
  <2> QED BY <1>2, <1>3, <1>5, <2>1
<1>8. \A i \in 1..n : /\ R!Days(slices[i]) = FirstDay(i)..FirstDay(i + 1) - 1
                      /\ from.day <= FirstDay(i) /\ FirstDay(i) < FirstDay(i + 1)
                      /\ FirstDay(i + 1) <= to.day + 1
  <2> SUFFICES ASSUME NEW i \in 1..n
               PROVE  /\ R!Days(slices[i]) = FirstDay(i)..FirstDay(i + 1) - 1
                      /\ from.day <= FirstDay(i) /\ FirstDay(i) < FirstDay(i + 1)
                      /\ FirstDay(i + 1) <= to.day + 1
    OBVIOUS
  <2>1. /\ FirstDay(i) = slices[i].from.day /\ FirstDay(i + 1) = slices[i].to.day + 1
        /\ slices[i].from.day \in Nat /\ slices[i].to.day \in Nat
        /\ from.day <= slices[i].from.day /\ slices[i].from.day <= slices[i].to.day
        /\ slices[i].to.day <= to.day
    BY <1>3, <1>4, <1>5, <1>6
  <2>2. FirstDay(i + 1) - 1 = slices[i].to.day
    BY <2>1
  <2> QED BY <1>2, <2>1, <2>2 DEF R!Days
<1>9. FirstDay(1) = from.day
  BY <1>1, <1>4, <1>5
<1> QED BY <1>1, <1>5, <1>7, <1>8, <1>9 DEF n

\* Where a call is made, and the next one.
Calling ==
    /\ step = "query" /\ ~R!CallsOver
    /\ R!NextCall
    /\ UNCHANGED <<report, from, to, users, slices>> /\ step' = "query"

LEMMA CallIs ==
    ASSUME ReportInv, step = "query", ~R!CallsOver
    PROVE  /\ source \in Nat /\ first \in Nat /\ slice \in Nat /\ 1 <= source /\ 1 <= first /\ 1 <= slice
           /\ Len(users) \in Nat /\ Len(R!Sources) \in Nat /\ Len(slices) \in Nat
           /\ source <= Len(R!Sources) /\ first <= Len(users) /\ slice <= Len(slices)
           /\ FirstDay(slice) \in Nat /\ FirstDay(slice + 1) \in Nat
           /\ from.day <= FirstDay(slice) /\ FirstDay(slice) < FirstDay(slice + 1)
           /\ FirstDay(slice + 1) <= to.day + 1
           /\ R!Days(slices[slice]) = FirstDay(slice)..FirstDay(slice + 1) - 1
           /\ FirstDay(1) = from.day /\ FirstDay(Len(slices) + 1) = to.day + 1
<1>1. Contiguous(slices) /\ slices # <<>> /\ slices[Len(slices)].to.day = to.day
  BY DEF ReportInv, SliceInv
<1>2. source \in Nat /\ first \in Nat /\ slice \in Nat /\ 1 <= source /\ 1 <= first /\ 1 <= slice
  BY DEF ReportInv, PlaceInv
<1>3. Len(users) \in Nat /\ Len(R!Sources) \in Nat
  BY SourcesAre, LenProperties DEF ReportInv, UsersInv
<1>4. source <= Len(R!Sources) /\ first <= Len(users) /\ slice <= Len(slices) /\ Len(slices) \in Nat
  BY <1>1, <1>2, <1>3, DaysFollow DEF R!CallsOver, ReportInv
<1>5. slice \in 1..Len(slices) /\ slice \in 1..Len(slices) + 1 /\ slice + 1 \in 1..Len(slices) + 1
  BY <1>2, <1>4
<1> QED BY <1>1, <1>2, <1>3, <1>4, <1>5, DaysFollow DEF ReportInv

LEMMA PositionIs ==
    ASSUME ReportInv, Calling, NEW s, NEW x, NEW d, Exists(s, x, d)
    PROVE  /\ s \in Nat /\ x \in Nat /\ d \in Nat /\ 1 <= s /\ 1 <= x /\ from.day <= d
           /\ s <= Len(R!Sources) /\ x <= Len(users) /\ d <= to.day
           /\ (Before(s, x, d))' <=> Earlier(source', first', s, x, d, FirstDay(slice'), FirstDay(slice' + 1))
<1>1. Len(R!Sources) \in Nat /\ Len(users) \in Nat /\ from.day \in Nat /\ to.day \in Nat
  BY CallIs, RangeIs DEF Calling, ReportInv
<1>2. (Before(s, x, d))' <=> Earlier(source', first', s, x, d, FirstDay(slice'), FirstDay(slice' + 1))
  BY DEF Before, Earlier, FirstDay, Calling
<1> QED BY <1>1, <1>2 DEF Exists

\* One call later, the calls made are those made before and the last one.
LEMMA NextDetail ==
    ASSUME ReportInv, Calling, report = "detail"
    PROVE  /\ source' \in Nat \ {0} /\ first' \in Nat \ {0} /\ slice' \in Nat \ {0}
           /\ source' <= Len(R!Sources) /\ slice' <= Len(slices)
           /\ \A s, x, d : Exists(s, x, d) => (Before(s, x, d)' <=> Before(s, x, d) \/ Current(s, x, d))
<1> DEFINE a == FirstDay(slice)
           b == FirstDay(slice + 1)
           c == FirstDay(slice + 2)
           z == FirstDay(1)
           y == FirstDay(2)
           m == Len(R!Sources)
           n == Len(slices)
<1>1. /\ source \in Nat /\ first \in Nat /\ slice \in Nat /\ 1 <= source /\ 1 <= first /\ 1 <= slice
      /\ m \in Nat /\ n \in Nat /\ a \in Nat /\ b \in Nat /\ a < b /\ z = from.day
      /\ source <= m /\ slice <= n /\ BatchSize \in Nat /\ 1 <= BatchSize
      /\ from.day \in Nat /\ to.day \in Nat
      /\ (slice = n => b = to.day + 1)
  BY CallIs, RangeIs DEF Calling, ReportInv
<1>2. \/ source # m /\ source' = source + 1 /\ first' = first /\ slice' = slice
      \/ source = m /\ slice # n /\ source' = 1 /\ first' = first /\ slice' = slice + 1
      \/ source = m /\ slice = n /\ source' = 1 /\ first' = first + BatchSize /\ slice' = 1
  BY DEF Calling, R!NextCall, R!DetailNext, R!LastSource, R!LastSlice, R!Moves
<1>3. ASSUME NEW s, NEW x, NEW d, Exists(s, x, d)
      PROVE  Before(s, x, d)' <=> Before(s, x, d) \/ Current(s, x, d)
  <2>1. /\ s \in Nat /\ x \in Nat /\ d \in Nat /\ 1 <= s /\ s <= m /\ from.day <= d /\ d <= to.day
    BY <1>3, PositionIs
  <2>2. Before(s, x, d) <=> x < first \/ (x < first + BatchSize /\ (d < a \/ (d < b /\ s < source)))
    BY DEF Before, Earlier
  <2>3. Current(s, x, d) <=> s = source /\ first <= x /\ x < first + BatchSize /\ a <= d /\ d < b
    BY DEF Current
  <2>4. Before(s, x, d)' <=>
          \/ x < first'
          \/ x < first' + BatchSize /\ (d < FirstDay(slice') \/ (d < FirstDay(slice' + 1) /\ s < source'))
    BY <1>3, PositionIs DEF Earlier
  <2>5. CASE source # m /\ source' = source + 1 /\ first' = first /\ slice' = slice
    <3>1. Before(s, x, d)' <=> x < first \/ (x < first + BatchSize /\ (d < a \/ (d < b /\ s < source + 1)))
      BY <2>4, <2>5
    <3> HIDE DEF a, b, c, z, y, m, n
    <3> QED BY <1>1, <2>1, <2>2, <2>3, <3>1
  <2>6. CASE source = m /\ slice # n /\ source' = 1 /\ first' = first /\ slice' = slice + 1
    <3>1. slice + 1 + 1 = slice + 2
      BY <1>1
    <3>2. Before(s, x, d)' <=> x < first \/ (x < first + BatchSize /\ (d < b \/ (d < c /\ s < 1)))
      BY <2>4, <2>6, <3>1
    <3> HIDE DEF a, b, c, z, y, m, n
    <3> QED BY <1>1, <2>1, <2>2, <2>3, <2>6, <3>2
  <2>7. CASE source = m /\ slice = n /\ source' = 1 /\ first' = first + BatchSize /\ slice' = 1
    <3>1. 1 + 1 = 2
      OBVIOUS
    <3>2. Before(s, x, d)' <=>
            x < first + BatchSize \/ (x < first + BatchSize + BatchSize /\ (d < z \/ (d < y /\ s < 1)))
      BY <2>4, <2>7, <3>1
    <3> HIDE DEF a, b, c, z, y, m, n
    <3> QED BY <1>1, <2>1, <2>2, <2>3, <2>7, <3>2
  <2> QED BY <1>2, <2>5, <2>6, <2>7
<1> HIDE DEF m, n
<1>4. /\ source' \in Nat \ {0} /\ first' \in Nat \ {0} /\ slice' \in Nat \ {0}
      /\ source' <= m /\ slice' <= n
  BY <1>1, <1>2
<1> QED BY <1>3, <1>4 DEF m, n

LEMMA NextVacation ==
    ASSUME ReportInv, Calling, report = "vacation"
    PROVE  /\ source' = 1 /\ first' \in Nat \ {0} /\ slice' \in Nat \ {0}
           /\ first' <= Len(users)
           /\ \A s, x, d : Exists(s, x, d) => (Before(s, x, d)' <=> Before(s, x, d) \/ Current(s, x, d))
<1> DEFINE a == FirstDay(slice)
           b == FirstDay(slice + 1)
           c == FirstDay(slice + 2)
           l == Len(users)
<1>1. /\ source = 1 /\ first \in Nat /\ slice \in Nat /\ 1 <= first /\ 1 <= slice
      /\ l \in Nat /\ a \in Nat /\ b \in Nat /\ a < b
      /\ first <= l /\ BatchSize \in Nat /\ 1 <= BatchSize /\ to.day \in Nat
      /\ Len(R!Sources) = 1
  BY CallIs, RangeIs, SourcesAre DEF Calling, ReportInv, PlaceInv
<1>2. \/ first + BatchSize <= l /\ source' = source /\ first' = first + BatchSize /\ slice' = slice
      \/ first + BatchSize > l /\ source' = source /\ first' = 1 /\ slice' = slice + 1
  <2>1. \/ ~(first + BatchSize > l) /\ source' = source /\ first' = first + BatchSize /\ slice' = slice
        \/ first + BatchSize > l /\ source' = source /\ first' = 1 /\ slice' = slice + 1
    BY DEF Calling, R!NextCall, R!VacationNext, R!LastBatch, R!Moves
  <2> HIDE DEF l
  <2> QED BY <1>1, <2>1
<1>3. ASSUME NEW s, NEW x, NEW d, Exists(s, x, d)
      PROVE  Before(s, x, d)' <=> Before(s, x, d) \/ Current(s, x, d)
  <2>1. s \in Nat /\ x \in Nat /\ d \in Nat /\ s = 1 /\ 1 <= x /\ x <= l
    <3>1. s \in Nat /\ x \in Nat /\ d \in Nat /\ 1 <= s /\ s <= Len(R!Sources) /\ 1 <= x /\ x <= l
      BY <1>3, PositionIs
    <3> QED BY <1>1, <3>1
  <2>2. Before(s, x, d) <=> d < a \/ (d < b /\ x < first)
    BY DEF Before, Earlier
  <2>3. Current(s, x, d) <=> s = source /\ first <= x /\ x < first + BatchSize /\ a <= d /\ d < b
    BY DEF Current
  <2>4. Before(s, x, d)' <=> d < FirstDay(slice') \/ (d < FirstDay(slice' + 1) /\ x < first')
    BY <1>3, PositionIs DEF Earlier
  <2>5. CASE first + BatchSize <= l /\ source' = source /\ first' = first + BatchSize /\ slice' = slice
    <3>1. Before(s, x, d)' <=> d < a \/ (d < b /\ x < first + BatchSize)
      BY <2>4, <2>5
    <3> HIDE DEF a, b, c, l
    <3> QED BY <1>1, <2>1, <2>2, <2>3, <3>1
  <2>6. CASE first + BatchSize > l /\ source' = source /\ first' = 1 /\ slice' = slice + 1
    <3>1. slice + 1 + 1 = slice + 2
      BY <1>1
    <3>2. Before(s, x, d)' <=> d < b \/ (d < c /\ x < 1)
      BY <2>4, <2>6, <3>1
    <3> HIDE DEF a, b, c, l
    <3> QED BY <1>1, <2>1, <2>2, <2>3, <2>6, <3>2
  <2> QED BY <1>2, <2>5, <2>6
<1> HIDE DEF l
<1>4. source' = 1 /\ first' \in Nat \ {0} /\ slice' \in Nat \ {0} /\ first' <= l
  BY <1>1, <1>2
<1> QED BY <1>3, <1>4 DEF l

LEMMA NextOther ==
    ASSUME ReportInv, Calling, report \notin {"detail", "vacation"}
    PROVE  /\ source' \in Nat \ {0} /\ first' \in Nat \ {0} /\ slice' \in Nat \ {0}
           /\ first' <= Len(users) /\ slice' <= Len(slices)
           /\ \A s, x, d : Exists(s, x, d) => (Before(s, x, d)' <=> Before(s, x, d) \/ Current(s, x, d))
<1> DEFINE a == FirstDay(slice)
           b == FirstDay(slice + 1)
           z == FirstDay(1)
           n == Len(slices)
           l == Len(users)
<1>1. /\ source \in Nat /\ first \in Nat /\ slice \in Nat /\ 1 <= source /\ 1 <= first /\ 1 <= slice
      /\ n \in Nat /\ l \in Nat /\ a \in Nat /\ b \in Nat /\ a < b /\ z = from.day
      /\ first <= l /\ slice <= n /\ BatchSize \in Nat /\ 1 <= BatchSize
      /\ from.day \in Nat /\ to.day \in Nat
      /\ (slice = n => b = to.day + 1)
  BY CallIs, RangeIs DEF Calling, ReportInv
<1>2. \/ slice # n /\ source' = source /\ first' = first /\ slice' = slice + 1
      \/ slice = n /\ first + BatchSize <= l /\ source' = source /\ first' = first + BatchSize /\ slice' = 1
      \/ slice = n /\ first + BatchSize > l /\ source' = source + 1 /\ first' = 1 /\ slice' = 1
  <2>1. R!MonthlyNext
    BY DEF Calling, R!NextCall, R!DailyNext, R!CheckinNext, R!ScheduleNext, R!RecordNext,
           ReportInv, RangeInv, R!AllScripts
  <2>2. \/ slice # n /\ source' = source /\ first' = first /\ slice' = slice + 1
        \/ slice = n /\ ~(first + BatchSize > l) /\ source' = source /\ first' = first + BatchSize /\ slice' = 1
        \/ slice = n /\ first + BatchSize > l /\ source' = source + 1 /\ first' = 1 /\ slice' = 1
    BY <2>1 DEF R!MonthlyNext, R!LastSlice, R!LastBatch, R!Moves
  <2> HIDE DEF l, n
  <2> QED BY <1>1, <2>2
<1>3. ASSUME NEW s, NEW x, NEW d, Exists(s, x, d)
      PROVE  Before(s, x, d)' <=> Before(s, x, d) \/ Current(s, x, d)
  <2>1. /\ s \in Nat /\ x \in Nat /\ d \in Nat /\ 1 <= x /\ x <= l /\ from.day <= d /\ d <= to.day
    BY <1>3, PositionIs
  <2>2. Before(s, x, d) <=> s < source \/ (s = source /\ (x < first \/ (x < first + BatchSize /\ d < a)))
    BY DEF Before, Earlier
  <2>3. Current(s, x, d) <=> s = source /\ first <= x /\ x < first + BatchSize /\ a <= d /\ d < b
    BY DEF Current
  <2>4. Before(s, x, d)' <=>
          \/ s < source'
          \/ s = source' /\ (x < first' \/ (x < first' + BatchSize /\ d < FirstDay(slice')))
    BY <1>3, PositionIs DEF Earlier
  <2>5. CASE slice # n /\ source' = source /\ first' = first /\ slice' = slice + 1
    <3>1. Before(s, x, d)' <=> s < source \/ (s = source /\ (x < first \/ (x < first + BatchSize /\ d < b)))
      BY <2>4, <2>5
    <3> HIDE DEF a, b, z, l, n
    <3> QED BY <1>1, <2>1, <2>2, <2>3, <3>1
  <2>6. CASE slice = n /\ first + BatchSize <= l /\ source' = source /\ first' = first + BatchSize /\ slice' = 1
    <3>1. Before(s, x, d)' <=>
            s < source \/ (s = source /\ (x < first + BatchSize \/ (x < first + BatchSize + BatchSize /\ d < z)))
      BY <2>4, <2>6
    <3> HIDE DEF a, b, z, l, n
    <3> QED BY <1>1, <2>1, <2>2, <2>3, <2>6, <3>1
  <2>7. CASE slice = n /\ first + BatchSize > l /\ source' = source + 1 /\ first' = 1 /\ slice' = 1
    <3>1. Before(s, x, d)' <=>
            s < source + 1 \/ (s = source + 1 /\ (x < 1 \/ (x < 1 + BatchSize /\ d < z)))
      BY <2>4, <2>7
    <3> HIDE DEF a, b, z, l, n
    <3> QED BY <1>1, <2>1, <2>2, <2>3, <2>7, <3>1
  <2> QED BY <1>2, <2>5, <2>6, <2>7
<1> HIDE DEF l, n
<1>4. /\ source' \in Nat \ {0} /\ first' \in Nat \ {0} /\ slice' \in Nat \ {0}
      /\ first' <= l /\ slice' <= n
  BY <1>1, <1>2
<1> QED BY <1>3, <1>4 DEF l, n

LEMMA NextCalled ==
    ASSUME ReportInv, Calling
    PROVE  /\ PlaceInv'
           /\ \A s, x, d : Exists(s, x, d) => (Before(s, x, d)' <=> Before(s, x, d) \/ Current(s, x, d))
<1>1. step' = "query" /\ report' = report /\ users' = users /\ slices' = slices
  BY DEF Calling
<1>2. R!Sources' = R!Sources
  BY <1>1 DEF R!Sources
<1>3. CASE report = "detail"
  BY <1>1, <1>2, <1>3, NextDetail DEF PlaceInv
<1>4. CASE report = "vacation"
  BY <1>1, <1>4, NextVacation DEF PlaceInv
<1>5. CASE report \notin {"detail", "vacation"}
  BY <1>1, <1>5, NextOther DEF PlaceInv
<1> QED BY <1>3, <1>4, <1>5

---------------------------------------------------------------------------

\* The call under way is none of those made before.
LEMMA CurrentIs ==
    ASSUME ReportInv, step = "query", ~R!CallsOver, NEW s, NEW x, NEW d, Exists(s, x, d), Current(s, x, d)
    PROVE  users[x] \in R!Batch /\ d \in R!Days(slices[slice]) /\ ~Before(s, x, d)
<1>1. /\ s \in Nat /\ x \in Nat /\ d \in Nat /\ x <= Len(users) /\ Len(users) \in Nat
      /\ first \in Nat /\ BatchSize \in Nat /\ source \in Nat
      /\ FirstDay(slice) \in Nat /\ FirstDay(slice + 1) \in Nat
      /\ R!Days(slices[slice]) = FirstDay(slice)..FirstDay(slice + 1) - 1
  <2>1. Len(R!Sources) \in Nat /\ from.day \in Nat /\ to.day \in Nat /\ BatchSize \in Nat
    BY CallIs, RangeIs DEF ReportInv
  <2>2. /\ first \in Nat /\ source \in Nat /\ Len(users) \in Nat
        /\ FirstDay(slice) \in Nat /\ FirstDay(slice + 1) \in Nat
        /\ R!Days(slices[slice]) = FirstDay(slice)..FirstDay(slice + 1) - 1
    BY CallIs
  <2>3. s \in 1..Len(R!Sources) /\ x \in 1..Len(users) /\ d \in from.day..to.day
    BY DEF Exists
  <2>4. s \in Nat /\ x \in Nat /\ d \in Nat /\ x <= Len(users)
    BY <2>1, <2>2, <2>3
  <2> QED BY <2>1, <2>2, <2>4
<1>2. s = source /\ first <= x /\ x < first + BatchSize /\ FirstDay(slice) <= d /\ d < FirstDay(slice + 1)
  BY DEF Current
<1>3. d \in R!Days(slices[slice])
  BY <1>1, <1>2
<1>4. x \in first..R!BatchEnd
  BY <1>1, <1>2 DEF R!BatchEnd
<1>5. users[x] \in R!Batch
  BY <1>4 DEF R!Batch
<1>6. ~Before(s, x, d)
  <2> DEFINE a == FirstDay(slice)
             b == FirstDay(slice + 1)
  <2>1. Before(s, x, d) <=>
          CASE report = "detail" -> x < first \/ (x < first + BatchSize /\ (d < a \/ (d < b /\ s < source)))
            [] report = "vacation" -> d < a \/ (d < b /\ x < first)
            [] OTHER -> s < source \/ (s = source /\ (x < first \/ (x < first + BatchSize /\ d < a)))
    BY DEF Before, Earlier
  <2> HIDE DEF a, b
  <2>2. ~(x < first) /\ ~(s < source) /\ ~(d < a)
    BY <1>1, <1>2 DEF a
  <2> QED BY <2>1, <2>2
<1> QED BY <1>3, <1>5, <1>6

LEMMA KeysAre ==
    ASSUME ReportInv, step = "query", ~R!CallsOver, NEW us \in SUBSET R!Batch, NEW k \in R!Keys(us)
    PROVE  \E s, x, d : Exists(s, x, d) /\ Current(s, x, d) /\ users[x] \in us /\ k = Key(s, x, d)
<1>1. PICK u \in us, d \in R!Days(slices[slice]) : k = <<R!Sources[source], u, d>>
  BY DEF R!Keys
<1>2. PICK x \in first..R!BatchEnd : u = users[x]
  BY <1>1 DEF R!Batch
<1>3. /\ first \in Nat /\ 1 <= first /\ BatchSize \in Nat /\ Len(users) \in Nat
      /\ source \in Nat /\ 1 <= source /\ source <= Len(R!Sources) /\ Len(R!Sources) \in Nat
      /\ FirstDay(slice) \in Nat /\ FirstDay(slice + 1) \in Nat /\ from.day \in Nat /\ to.day \in Nat
      /\ from.day <= FirstDay(slice) /\ FirstDay(slice + 1) <= to.day + 1
      /\ R!Days(slices[slice]) = FirstDay(slice)..FirstDay(slice + 1) - 1
  BY CallIs, RangeIs DEF ReportInv
<1>4. x \in 1..Len(users) /\ first <= x /\ x < first + BatchSize
  BY <1>2, <1>3 DEF R!BatchEnd
<1>5. d \in from.day..to.day /\ FirstDay(slice) <= d /\ d < FirstDay(slice + 1)
  BY <1>1, <1>3
<1>6. source \in 1..Len(R!Sources)
  BY <1>3
<1>7. Exists(source, x, d) /\ Current(source, x, d) /\ users[x] \in us /\ k = Key(source, x, d)
  BY <1>1, <1>2, <1>4, <1>5, <1>6 DEF Exists, Current, Key
<1> QED BY <1>7

\* Nobody and no day stands for another, unless the ids were taken as given.
LEMMA KeysDiffer ==
    ASSUME ReportInv, ~AsGiven, NEW s, NEW x, NEW d, Exists(s, x, d),
           NEW t, NEW y, NEW e, Exists(t, y, e), Key(s, x, d) = Key(t, y, e)
    PROVE  s = t /\ x = y /\ d = e
<1>1. R!Sources[s] = R!Sources[t] /\ users[x] = users[y] /\ d = e
  BY DEF Key
<1>2. s = t
  BY <1>1, SourcesAre DEF Exists, ReportInv
<1>3. x = y
  BY <1>1 DEF Exists, ReportInv, UsersInv
<1> QED BY <1>1, <1>2, <1>3

\* An answer about some users of the batch.
LEMMA ReceivedInv ==
    ASSUME ReportInv, step = "query", ~R!CallsOver, NEW us \in SUBSET R!Batch, R!Received(us),
           UNCHANGED <<report, from, to, users, slices, failed>>,
           \A s, x, d : Exists(s, x, d) =>
               (Made(s, x, d)' <=> Made(s, x, d) \/ (Current(s, x, d) /\ users[x] \in us)),
           \A s, x, d : Exists(s, x, d) /\ Current(s, x, d) /\ users[x] \in us => ~Made(s, x, d)
    PROVE  /\ \A k \in DOMAIN got' : \E s, x, d : Exists(s, x, d) /\ k = Key(s, x, d)
           /\ ~AsGiven => /\ \A k \in DOMAIN got' : got'[k] = 1
                          /\ \A s, x, d : Exists(s, x, d) /\ Key(s, x, d) \in DOMAIN got' => Made(s, x, d)'
           /\ failed = 0 => \A s, x, d : Exists(s, x, d) /\ Made(s, x, d)' => Key(s, x, d) \in DOMAIN got'
<1>1. /\ DOMAIN got' = DOMAIN got \cup R!Keys(us)
      /\ \A k \in DOMAIN got' :
           got'[k] = (IF k \in DOMAIN got THEN got[k] ELSE 0) + (IF k \in R!Keys(us) THEN 1 ELSE 0)
  BY DEF R!Received
<1>2. /\ \A k \in DOMAIN got : \E s, x, d : Exists(s, x, d) /\ k = Key(s, x, d)
      /\ ~AsGiven => /\ \A k \in DOMAIN got : got[k] = 1
                     /\ \A s, x, d : Exists(s, x, d) /\ Key(s, x, d) \in DOMAIN got => Made(s, x, d)
      /\ failed = 0 => \A s, x, d : Exists(s, x, d) /\ Made(s, x, d) => Key(s, x, d) \in DOMAIN got
  BY DEF ReportInv, GotInv
<1>3. \A k \in R!Keys(us) : \E s, x, d : Exists(s, x, d) /\ Current(s, x, d) /\ users[x] \in us /\ k = Key(s, x, d)
  BY KeysAre
<1>4. \A k \in DOMAIN got' : \E s, x, d : Exists(s, x, d) /\ k = Key(s, x, d)
  BY <1>1, <1>2, <1>3
<1>5. ASSUME ~AsGiven, NEW k \in DOMAIN got' PROVE got'[k] = 1
  <2>1. k \in R!Keys(us) => k \notin DOMAIN got
    <3> SUFFICES ASSUME k \in R!Keys(us), k \in DOMAIN got PROVE FALSE
      OBVIOUS
    <3>1. PICK s, x, d : Exists(s, x, d) /\ Current(s, x, d) /\ users[x] \in us /\ k = Key(s, x, d)
      BY <1>3
    <3>2. Made(s, x, d)
      BY <1>2, <1>5, <3>1
    <3> QED BY <3>1, <3>2
  <2>2. k \in DOMAIN got => got[k] = 1
    BY <1>2, <1>5
  <2>3. got'[k] = (IF k \in DOMAIN got THEN got[k] ELSE 0) + (IF k \in R!Keys(us) THEN 1 ELSE 0)
    BY <1>1
  <2>4. k \in DOMAIN got \/ k \in R!Keys(us)
    BY <1>1
  <2> QED BY <2>1, <2>2, <2>3, <2>4
<1>6. ASSUME ~AsGiven, NEW s, NEW x, NEW d, Exists(s, x, d), Key(s, x, d) \in DOMAIN got'
      PROVE  Made(s, x, d)'
  <2>1. CASE Key(s, x, d) \in DOMAIN got
    <3>1. Made(s, x, d)
      BY <1>2, <1>6, <2>1
    <3> QED BY <1>6, <3>1
  <2>2. CASE Key(s, x, d) \in R!Keys(us)
    <3>1. PICK t, y, e : Exists(t, y, e) /\ Current(t, y, e) /\ users[y] \in us /\ Key(s, x, d) = Key(t, y, e)
      BY <1>3, <2>2
    <3>2. s = t /\ x = y /\ d = e
      BY <1>6, <3>1, KeysDiffer
    <3>3. Current(s, x, d) /\ users[x] \in us
      BY <3>1, <3>2
    <3> QED BY <1>6, <3>3
  <2> QED BY <1>1, <1>6, <2>1, <2>2
<1>7. ASSUME failed = 0, NEW s, NEW x, NEW d, Exists(s, x, d), Made(s, x, d)'
      PROVE  Key(s, x, d) \in DOMAIN got'
  <2>1. CASE Made(s, x, d)
    BY <1>1, <1>2, <1>7, <2>1
  <2>2. CASE Current(s, x, d) /\ users[x] \in us
    <3>1. d \in R!Days(slices[slice]) /\ s = source
      BY <1>7, <2>2, CurrentIs DEF Current
    <3>2. Key(s, x, d) \in R!Keys(us)
      BY <2>2, <3>1 DEF R!Keys, Key
    <3> QED BY <1>1, <3>2
  <2> QED BY <1>7, <2>1, <2>2
<1> QED BY <1>4, <1>5, <1>6, <1>7

---------------------------------------------------------------------------

\* A call changes neither the users nor the slices.
LEMMA CallsKeep ==
    ASSUME ReportInv, step = "query", step' \in {"query", "done"}, R!Kept
    PROVE  /\ RangeInv' /\ UsersInv' /\ SliceInv'
           /\ R!Sources' = R!Sources
           /\ \A s, x, d : Exists(s, x, d)' <=> Exists(s, x, d)
           /\ \A s, x, d : Key(s, x, d)' = Key(s, x, d)
           /\ UNCHANGED <<report, from, to, users, slices>>
<1>1. UNCHANGED <<report, from, to, users, ids, named, cur, slices>>
  BY DEF R!Kept, R!range
<1>2. R!Sources' = R!Sources
  BY <1>1 DEF R!Sources
<1>3. RangeInv' /\ UsersInv'
  BY <1>1 DEF ReportInv, RangeInv, UsersInv, AsGiven
<1>4. SliceInv'
  BY <1>1 DEF ReportInv, SliceInv, Looking, Contiguous
<1> QED BY <1>1, <1>2, <1>3, <1>4 DEF Exists, Key

\* While calls are made, nothing is said.
LEMMA SilentInv ==
    ASSUME ReportInv, step = "query", said' = said \/ said' \notin {"complete", "success"}
    PROVE  SaidInv'
BY DEF ReportInv, SaidInv

LEMMA AnsweredInv == ASSUME ReportInv, R!AnswersBatch PROVE ReportInv'
<1>1. /\ step = "query" /\ ~R!CallsOver /\ single = {} /\ R!Received(R!Batch) /\ R!NextCall
      /\ step' = step /\ single' = single /\ failed' = failed /\ said' = said /\ R!Kept
  BY DEF R!AnswersBatch, R!Querying
<1>2. /\ RangeInv' /\ UsersInv' /\ SliceInv' /\ R!Sources' = R!Sources
      /\ \A s, x, d : Exists(s, x, d)' <=> Exists(s, x, d)
      /\ \A s, x, d : Key(s, x, d)' = Key(s, x, d)
      /\ UNCHANGED <<report, from, to, users, slices>>
  BY <1>1, CallsKeep
<1>3. Calling
  BY <1>1, <1>2 DEF Calling
<1>4. /\ PlaceInv'
      /\ \A s, x, d : Exists(s, x, d) => (Before(s, x, d)' <=> Before(s, x, d) \/ Current(s, x, d))
  BY <1>3, NextCalled
<1>5. ASSUME NEW s, NEW x, NEW d, Exists(s, x, d)
      PROVE  /\ Made(s, x, d)' <=> Made(s, x, d) \/ (Current(s, x, d) /\ users[x] \in R!Batch)
             /\ Current(s, x, d) => ~Made(s, x, d)
  <2>1. Current(s, x, d) => users[x] \in R!Batch /\ ~Before(s, x, d)
    BY <1>1, <1>5, CurrentIs
  <2>2. Made(s, x, d) <=> Before(s, x, d)
    BY <1>1 DEF Made
  <2>3. Made(s, x, d)' <=> Before(s, x, d)'
    BY <1>1 DEF Made
  <2> QED BY <1>4, <1>5, <2>1, <2>2, <2>3
<1>6. /\ \A k \in DOMAIN got' : \E s, x, d : Exists(s, x, d) /\ k = Key(s, x, d)
      /\ ~AsGiven => /\ \A k \in DOMAIN got' : got'[k] = 1
                     /\ \A s, x, d : Exists(s, x, d) /\ Key(s, x, d) \in DOMAIN got' => Made(s, x, d)'
      /\ failed = 0 => \A s, x, d : Exists(s, x, d) /\ Made(s, x, d)' => Key(s, x, d) \in DOMAIN got'
  BY <1>1, <1>2, <1>5, ReceivedInv
<1>7. GotInv'
  BY <1>1, <1>2, <1>6 DEF ReportInv, GotInv, AsGiven
<1>8. SaidInv'
  BY <1>1, SilentInv
<1> QED BY <1>2, <1>4, <1>7, <1>8 DEF ReportInv

LEMMA AnsweredOneInv == ASSUME ReportInv, NEW u \in single, R!AnsweredOne(u) PROVE ReportInv'
<1>1. /\ step = "query" /\ ~R!CallsOver /\ R!Received({u}) /\ single' = single \ {u}
      /\ IF single' = {} THEN R!NextCall ELSE UNCHANGED R!call
      /\ step' = step /\ failed' = failed /\ said' = said /\ R!Kept
  BY DEF R!AnsweredOne, R!Querying, R!Frame
<1>2. /\ RangeInv' /\ UsersInv' /\ SliceInv' /\ R!Sources' = R!Sources
      /\ \A s, x, d : Exists(s, x, d)' <=> Exists(s, x, d)
      /\ \A s, x, d : Key(s, x, d)' = Key(s, x, d)
      /\ UNCHANGED <<report, from, to, users, slices>>
  BY <1>1, CallsKeep
<1>3. /\ report = "vacation" /\ single \subseteq R!Batch /\ {u} \in SUBSET R!Batch
  BY DEF ReportInv, GotInv
<1>4. /\ PlaceInv'
      /\ single' # {} => report' = "vacation" /\ ~R!CallsOver' /\ single' \subseteq R!Batch'
      /\ \A s, x, d : Exists(s, x, d) =>
           (Made(s, x, d)' <=> Made(s, x, d) \/ (Current(s, x, d) /\ users[x] \in {u}))
  <2>1. CASE single' = {}
    <3>1. Calling
      BY <1>1, <1>2, <2>1 DEF Calling
    <3>2. /\ PlaceInv'
          /\ \A s, x, d : Exists(s, x, d) => (Before(s, x, d)' <=> Before(s, x, d) \/ Current(s, x, d))
      BY <3>1, NextCalled
    <3>3. single = {u}
      BY <1>1, <2>1
    <3>4. \A s, x, d : Made(s, x, d)' <=> Before(s, x, d)'
      BY <2>1 DEF Made
    <3>5. \A s, x, d : Made(s, x, d) <=> Before(s, x, d) \/ (Current(s, x, d) /\ users[x] # u)
      BY <3>3 DEF Made
    <3> QED BY <2>1, <3>2, <3>4, <3>5
  <2>2. CASE single' # {}
    <3>1. UNCHANGED <<source, first, slice>>
      BY <1>1, <2>2 DEF R!call
    <3>2. PlaceInv'
      BY <1>1, <1>2, <3>1 DEF ReportInv, PlaceInv
    <3>3. R!CallsOver' <=> R!CallsOver
      BY <1>2, <3>1 DEF R!CallsOver
    <3>4. R!Batch' = R!Batch
      BY <1>2, <3>1 DEF R!Batch, R!BatchEnd
    <3>5. \A s, x, d : /\ Before(s, x, d)' <=> Before(s, x, d)
                       /\ Current(s, x, d)' <=> Current(s, x, d)
      BY <1>2, <3>1 DEF Before, Earlier, Current, FirstDay
    <3>6. \A s, x, d : Made(s, x, d)' <=> Before(s, x, d) \/ (Current(s, x, d) /\ users[x] \notin single')
      BY <1>2, <2>2, <3>5 DEF Made
    <3>7. \A s, x, d : Made(s, x, d) <=> Before(s, x, d) \/ (Current(s, x, d) /\ users[x] \notin single)
      BY DEF Made
    <3> QED BY <1>1, <1>2, <1>3, <3>2, <3>3, <3>4, <3>6, <3>7
  <2> QED BY <2>1, <2>2
<1>5. \A s, x, d : Exists(s, x, d) /\ Current(s, x, d) /\ users[x] \in {u} => ~Made(s, x, d)
  BY <1>1, CurrentIs DEF Made
<1>6. /\ \A k \in DOMAIN got' : \E s, x, d : Exists(s, x, d) /\ k = Key(s, x, d)
      /\ ~AsGiven => /\ \A k \in DOMAIN got' : got'[k] = 1
                     /\ \A s, x, d : Exists(s, x, d) /\ Key(s, x, d) \in DOMAIN got' => Made(s, x, d)'
      /\ failed = 0 => \A s, x, d : Exists(s, x, d) /\ Made(s, x, d)' => Key(s, x, d) \in DOMAIN got'
  BY <1>1, <1>2, <1>3, <1>4, <1>5, ReceivedInv
<1>7. GotInv'
  BY <1>1, <1>2, <1>4, <1>6 DEF ReportInv, GotInv, AsGiven
<1>8. SaidInv'
  BY <1>1, SilentInv
<1> QED BY <1>2, <1>4, <1>7, <1>8 DEF ReportInv

\* What leaves answers and place alone, the end of the run among it.
LEMMA StaysInv ==
    ASSUME ReportInv, step = "query", step' \in {"query", "done"}, R!Kept,
           UNCHANGED <<source, first, slice, got, failed>>,
           \/ single' = single
           \/ single = {} /\ single' = R!Batch /\ report = "vacation" /\ ~R!CallsOver
    PROVE  RangeInv' /\ UsersInv' /\ SliceInv' /\ PlaceInv' /\ GotInv'
<1>1. /\ RangeInv' /\ UsersInv' /\ SliceInv' /\ R!Sources' = R!Sources
      /\ \A s, x, d : Exists(s, x, d)' <=> Exists(s, x, d)
      /\ \A s, x, d : Key(s, x, d)' = Key(s, x, d)
      /\ UNCHANGED <<report, from, to, users, slices>>
  BY CallsKeep
<1>2. PlaceInv'
  BY <1>1 DEF ReportInv, PlaceInv
<1>3. /\ R!CallsOver' <=> R!CallsOver
      /\ R!Batch' = R!Batch
  BY <1>1 DEF R!CallsOver, R!Batch, R!BatchEnd
<1>4. \A s, x, d : /\ Before(s, x, d)' <=> Before(s, x, d)
                   /\ Current(s, x, d)' <=> Current(s, x, d)
  BY <1>1 DEF Before, Earlier, Current, FirstDay
<1>5. \A s, x, d : Exists(s, x, d) => (Made(s, x, d)' <=> Made(s, x, d))
  <2>1. CASE single' = single
    BY <1>1, <1>4, <2>1 DEF Made
  <2>2. CASE single = {} /\ single' = R!Batch /\ report = "vacation" /\ ~R!CallsOver
    <3>1. \A s, x, d : Exists(s, x, d) /\ Current(s, x, d) => users[x] \in R!Batch
      BY <2>2, CurrentIs
    <3>2. \A s, x, d : Made(s, x, d) <=> Before(s, x, d)
      BY <2>2 DEF Made
    <3>3. \A s, x, d : Made(s, x, d)' <=>
            Before(s, x, d) \/ (R!Batch # {} /\ Current(s, x, d) /\ users[x] \notin R!Batch)
      BY <1>1, <1>4, <2>2 DEF Made
    <3> QED BY <3>1, <3>2, <3>3
  <2> QED BY <2>1, <2>2
<1>6. single' # {} => report' = "vacation" /\ ~R!CallsOver' /\ single' \subseteq R!Batch'
  BY <1>1, <1>3 DEF ReportInv, GotInv
<1>7. GotInv'
  BY <1>1, <1>5, <1>6 DEF ReportInv, GotInv, AsGiven
<1> QED BY <1>1, <1>2, <1>7

LEMMA FailedInv == ASSUME ReportInv, R!Failed PROVE ReportInv'
<1>1. /\ step = "query" /\ ~R!CallsOver /\ R!Kept /\ single' = single /\ got' = got
  BY DEF R!Failed, R!Querying, R!Frame
<1>2. CASE R!GivesUp
  BY <1>1, <1>2, StaysInv, SilentInv DEF R!GivesUp, R!Done, R!call, ReportInv
<1>3. CASE R!GoesOn \/ R!GoesOnCounted
  <2>1. report # "vacation" /\ R!NextCall /\ failed' = failed + 1 /\ step' = step /\ said' = said
    BY <1>3 DEF R!GoesOn, R!GoesOnCounted
  <2>2. /\ RangeInv' /\ UsersInv' /\ SliceInv' /\ R!Sources' = R!Sources
        /\ \A s, x, d : Exists(s, x, d)' <=> Exists(s, x, d)
        /\ \A s, x, d : Key(s, x, d)' = Key(s, x, d)
        /\ UNCHANGED <<report, from, to, users, slices>>
    BY <1>1, <2>1, CallsKeep
  <2>3. Calling
    BY <1>1, <2>1, <2>2 DEF Calling
  <2>4. /\ PlaceInv'
        /\ \A s, x, d : Exists(s, x, d) => (Before(s, x, d)' <=> Before(s, x, d) \/ Current(s, x, d))
    BY <2>3, NextCalled
  <2>5. single = {} /\ single' = {}
    BY <1>1, <2>1 DEF ReportInv, GotInv
  <2>6. \A s, x, d : Exists(s, x, d) /\ Made(s, x, d) => Made(s, x, d)'
    BY <2>4, <2>5 DEF Made
  <2>7. failed' \in Nat /\ failed' # 0
    BY <2>1 DEF ReportInv, GotInv
  <2>8. GotInv'
    BY <1>1, <2>1, <2>2, <2>5, <2>6, <2>7 DEF ReportInv, GotInv, AsGiven
  <2>9. SaidInv'
    BY <1>1, <2>1, SilentInv
  <2> QED BY <2>2, <2>4, <2>8, <2>9 DEF ReportInv
<1> QED BY <1>2, <1>3 DEF R!Failed

LEMMA StopsInv ==
    ASSUME ReportInv,
           \/ R!FullPage \/ R!Refused \/ R!AskOneByOne
           \/ \E b \in BOOLEAN : R!WriteCounted(b) \/ R!WriteUncounted(b)
    PROVE  ReportInv'
<1>1. CASE R!FullPage \/ R!Refused \/ R!AskOneByOne
  <2>1. /\ step = "query" /\ step' \in {"query", "done"} /\ R!Kept
        /\ UNCHANGED <<source, first, slice, got, failed>>
        /\ \/ single' = single
           \/ single = {} /\ single' = R!Batch /\ report = "vacation" /\ ~R!CallsOver
        /\ said' = said \/ said' \notin {"complete", "success"}
    BY <1>1 DEF R!FullPage, R!Refused, R!AskOneByOne, R!Querying, R!Done, R!call, R!Frame
  <2> QED BY <2>1, StaysInv, SilentInv DEF ReportInv
<1>2. ASSUME NEW b \in BOOLEAN, R!WriteCounted(b) \/ R!WriteUncounted(b)
      PROVE  ReportInv'
  <2>1. /\ step = "query" /\ step' = "done" /\ R!Kept /\ R!CallsOver
        /\ UNCHANGED <<source, first, slice, got, failed, single>>
        /\ said' = "complete" => failed = 0
    BY <1>2 DEF R!WriteCounted, R!WriteUncounted, R!Report, R!Done, R!call, R!Frame
  <2>2. RangeInv' /\ UsersInv' /\ SliceInv' /\ PlaceInv' /\ GotInv'
    BY <2>1, StaysInv
  <2>3. R!CallsOver'
    <3>1. R!Sources' = R!Sources /\ UNCHANGED <<users, slices>>
      BY <2>1, CallsKeep
    <3> QED BY <2>1, <3>1 DEF R!CallsOver
  <2>4. SaidInv'
    BY <2>1, <2>3 DEF SaidInv
  <2> QED BY <2>2, <2>4 DEF ReportInv
<1> QED BY <1>1, <1>2

\* The first call.
LEMMA BeginsInv == ASSUME ReportInv, R!CutEnds PROVE ReportInv'
<1>1. /\ step = "slice" /\ step' = "query"
      /\ UNCHANGED <<report, from, to, users, ids, named, slices, source, first, slice, single, got, failed, said>>
  BY DEF R!CutEnds, R!QueryFrame, R!range, R!call
<1>2. SliceInv'
  BY CutEndsInv
<1>3. source' = 1 /\ first' = 1 /\ slice' = 1
  BY <1>1 DEF ReportInv, PlaceInv
<1>4. got' = <<>> /\ single' = {} /\ failed' = 0 /\ DOMAIN got' = {}
  BY <1>1 DEF ReportInv, GotInv
<1>5. RangeInv' /\ UsersInv' /\ SaidInv'
  BY <1>1 DEF ReportInv, RangeInv, UsersInv, SaidInv, AsGiven
<1>6. Contiguous(slices') /\ slices' # <<>> /\ Len(slices') \in Nat /\ 1 <= Len(slices') /\ FirstDay(1)' = from.day
  <2>1. /\ Contiguous(slices) /\ slices # <<>> /\ slices[Len(slices)].to.day = to.day
    BY <1>1, <1>2 DEF SliceInv, Contiguous
  <2>2. Len(slices) \in Nat /\ 1 <= Len(slices) /\ FirstDay(1) = from.day
    BY <2>1, DaysFollow DEF ReportInv
  <2> QED BY <1>1, <2>1, <2>2 DEF FirstDay
<1>7. PlaceInv'
  <2>1. 1 <= Len(R!Sources) /\ R!Sources' = R!Sources
    BY <1>1, SourcesAre DEF ReportInv, R!Sources
  <2>2. 1 <= Len(users) \/ users = <<>>
    BY EmptySeq, LenProperties DEF ReportInv, UsersInv
  <2> QED BY <1>1, <1>3, <1>6, <2>1, <2>2 DEF PlaceInv
<1>8. ASSUME NEW s, NEW x, NEW d, Exists(s, x, d)' PROVE ~Made(s, x, d)'
  <2>1. /\ from.day \in Nat /\ to.day \in Nat /\ Len(R!Sources') \in Nat /\ Len(users') \in Nat
        /\ BatchSize \in Nat
    <3>1. from.day \in Nat /\ to.day \in Nat /\ BatchSize \in Nat /\ Len(R!Sources') \in Nat
      BY <1>5, RangeIs, SourcesAre DEF ReportInv, R!Sources
    <3>2. Len(users') \in Nat
      BY <1>5, LenProperties DEF UsersInv
    <3> QED BY <3>1, <3>2
  <2>2. /\ s \in Nat /\ x \in Nat /\ d \in Nat /\ 1 <= s /\ 1 <= x /\ from.day <= d
    BY <1>1, <1>8, <2>1 DEF Exists
  <2>3. Made(s, x, d)' <=> Before(s, x, d)'
    BY <1>4 DEF Made
  <2> DEFINE b == FirstDay(slice + 1)'
  <2>4. Before(s, x, d)' <=>
          CASE report = "detail" -> x < 1 \/ (x < 1 + BatchSize /\ (d < from.day \/ (d < b /\ s < 1)))
            [] report = "vacation" -> d < from.day \/ (d < b /\ x < 1)
            [] OTHER -> s < 1 \/ (s = 1 /\ (x < 1 \/ (x < 1 + BatchSize /\ d < from.day)))
    <3>1. FirstDay(slice)' = from.day
      BY <1>3, <1>6 DEF FirstDay
    <3>2. report' = report
      BY <1>1
    <3> QED BY <1>3, <3>1, <3>2 DEF Before, Earlier
  <2> HIDE DEF b
  <2>5. ~(x < 1) /\ ~(s < 1) /\ ~(d < from.day)
    BY <2>1, <2>2
  <2> QED BY <2>3, <2>4, <2>5
<1>9. GotInv'
  BY <1>4, <1>8 DEF GotInv
<1> QED BY <1>2, <1>5, <1>7, <1>9 DEF ReportInv

LEMMA ReportInit == R!Init => ReportInv
<1> SUFFICES ASSUME R!Init PROVE ReportInv
  OBVIOUS
<1>1. /\ report \in R!AllScripts /\ ids \in Seq(UserIds) /\ named = <<>> /\ users = <<>>
      /\ from \in R!Instant /\ to \in R!Instant /\ R!Leq(from, to)
      /\ step = "resolve" /\ cur = from /\ slices = <<>>
      /\ source = 1 /\ first = 1 /\ slice = 1 /\ single = {} /\ got = <<>> /\ failed = 0 /\ said = "none"
  BY ReportAssumption DEF R!Init
<1>2. RangeInv
  BY <1>1 DEF RangeInv
<1>3. from \in Moment
  BY <1>2, RangeIs
<1>4. UsersInv
  BY <1>1 DEF UsersInv
<1>5. SliceInv
  BY <1>1, <1>3 DEF SliceInv
<1>6. PlaceInv /\ SaidInv
  BY <1>1 DEF PlaceInv, SaidInv
<1>7. GotInv
  <2>1. DOMAIN got = {}
    BY <1>1
  <2> QED BY <1>1, <2>1 DEF GotInv
<1> QED BY <1>2, <1>4, <1>5, <1>6, <1>7 DEF ReportInv

LEMMA ReportStep == ASSUME ReportInv, [R!Next]_(R!vars) PROVE ReportInv'
<1>1. CASE UNCHANGED R!vars
  <2>1. UNCHANGED <<report, users, from, to, step, ids, named, cur, slices, source, first, slice,
                    single, got, failed, said>>
    BY <1>1 DEF R!vars, R!range, R!call
  <2>2. R!Sources' = R!Sources /\ (R!CallsOver' <=> R!CallsOver) /\ R!Batch' = R!Batch
    BY <2>1 DEF R!Sources, R!CallsOver, R!Batch, R!BatchEnd
  <2>3. \A s, x, d : /\ Exists(s, x, d)' <=> Exists(s, x, d)
                     /\ Key(s, x, d)' = Key(s, x, d)
                     /\ Made(s, x, d)' <=> Made(s, x, d)
    BY <2>1, <2>2 DEF Exists, Key, Made, Before, Earlier, Current, FirstDay
  <2>4. GotInv'
    BY <2>1, <2>2, <2>3 DEF ReportInv, GotInv, AsGiven
  <2>5. RangeInv' /\ UsersInv' /\ SliceInv'
    BY <2>1 DEF ReportInv, RangeInv, UsersInv, SliceInv, AsGiven, Looking, Endless, Contiguous
  <2>6. PlaceInv' /\ SaidInv'
    BY <2>1, <2>2 DEF ReportInv, PlaceInv, SaidInv
  <2> QED BY <2>4, <2>5, <2>6 DEF ReportInv
<1>2. CASE R!TakeIds \/ R!ResolveUsers \/ R!NextId \/ R!TakeUser \/ R!UsersResolved
  BY <1>2, UsersStep
<1>3. CASE R!Cut \/ R!CutEnds
  BY <1>3, CutsInv, BeginsInv
<1>4. CASE R!Answered \/ R!Unavailable \/ R!Failed
  BY <1>4, AnsweredInv, FailedInv DEF R!Answered, R!Unavailable
<1>5. CASE \E u \in single : R!AnsweredOne(u)
  BY <1>5, AnsweredOneInv
<1>6. CASE \/ R!FullPage \/ R!Refused \/ R!AskOneByOne
           \/ \E b \in BOOLEAN : R!WriteCounted(b) \/ R!WriteUncounted(b)
  BY <1>6, StopsInv
<1> QED BY <1>1, <1>2, <1>3, <1>4, <1>5, <1>6 DEF R!Next

---------------------------------------------------------------------------

LEMMA ReportCardinality == \A Q : R!Cardinality(Q) = Cardinality(Q)
BY DEF R!Cardinality, Cardinality, R!IsFiniteSet, IsFiniteSet

\* One for each is as many.
LEMMA OneForEach ==
    ASSUME NEW D, IsFiniteSet(D), NEW f, f = [x \in D |-> f[x]],
           \A x, y \in D : f[x] = f[y] => x = y
    PROVE  IsFiniteSet({f[x] : x \in D}) /\ Cardinality({f[x] : x \in D}) = Cardinality(D)
<1> DEFINE T == {f[x] : x \in D}
<1>1. f \in [D -> T] /\ DOMAIN f = D
  OBVIOUS
<1>2. f \in Injection(D, T)
  BY <1>1 DEF Injection, IsInjective
<1>3. f \in Surjection(D, T)
  BY <1>1 DEF Surjection
<1>4. ExistsBijection(D, T)
  BY <1>2, <1>3 DEF ExistsBijection, Bijection
<1> HIDE DEF T
<1>5. IsFiniteSet(T) /\ Cardinality(T) = Cardinality(D)
  BY <1>4, FS_Bijection
<1> QED BY <1>5 DEF T

AllDays(src, u, a, b) == {<<src, u, d>> : d \in a..b}

LEMMA DaysCount ==
    ASSUME NEW a \in Nat, NEW b \in Nat, a <= b, NEW src, NEW u
    PROVE  IsFiniteSet(AllDays(src, u, a, b)) /\ Cardinality(AllDays(src, u, a, b)) = b - a + 1
<1> DEFINE f == [d \in a..b |-> <<src, u, d>>]
<1>1. a \in Int /\ b \in Int
  OBVIOUS
<1>2. IsFiniteSet(a..b) /\ Cardinality(a..b) = b - a + 1
  <2>1. IsFiniteSet(a..b) /\ Cardinality(a..b) = IF a > b THEN 0 ELSE b - a + 1
    BY <1>1, FS_Interval
  <2>2. ~(a > b)
    BY <1>1
  <2> QED BY <2>1, <2>2
<1>3. (\A d \in a..b : f[d] = <<src, u, d>>) /\ f = [d \in a..b |-> f[d]]
  OBVIOUS
<1>4. \A d, e \in a..b : f[d] = f[e] => d = e
  BY <1>3
<1>5. {f[d] : d \in a..b} = AllDays(src, u, a, b)
  BY <1>3 DEF AllDays
<1> HIDE DEF f
<1>6. IsFiniteSet({f[d] : d \in a..b}) /\ Cardinality({f[d] : d \in a..b}) = Cardinality(a..b)
  <2> DEFINE D == a..b
  <2>1. IsFiniteSet(D) /\ f = [d \in D |-> f[d]] /\ \A d, e \in D : f[d] = f[e] => d = e
    BY <1>2, <1>3, <1>4
  <2> HIDE DEF D
  <2>2. IsFiniteSet({f[d] : d \in D}) /\ Cardinality({f[d] : d \in D}) = Cardinality(D)
    BY <2>1, OneForEach
  <2> QED BY <2>2 DEF D
<1> QED BY <1>2, <1>5, <1>6

\* What was answered once is counted once.
LEMMA SumCounts ==
    ASSUME NEW src, NEW u, IsFiniteSet(R!Of(src, u)), \A k \in R!Of(src, u) : got[k] = 1
    PROVE  R!Sum(src, u) = Cardinality(R!Of(src, u))
<1> DEFINE Q == R!Of(src, u)
           U == UNION {{k} \X (1..got[k]) : k \in Q}
           f == [k \in Q |-> <<k, 1>>]
<1>1. 1..1 = {1}
  OBVIOUS
<1> HIDE DEF Q
<1>2. U = {<<k, 1>> : k \in Q}
  <2>1. \A k \in Q : {k} \X (1..got[k]) = {<<k, 1>>}
    <3> SUFFICES ASSUME NEW k \in Q PROVE {k} \X (1..got[k]) = {<<k, 1>>}
      OBVIOUS
    <3>1. 1..got[k] = {1}
      BY <1>1 DEF Q
    <3> QED BY <3>1
  <2> QED BY <2>1
<1>3. (\A k \in Q : f[k] = <<k, 1>>) /\ f = [k \in Q |-> f[k]] /\ \A k, l \in Q : f[k] = f[l] => k = l
  OBVIOUS
<1>4. {f[k] : k \in Q} = {<<k, 1>> : k \in Q}
  BY <1>3
<1> HIDE DEF f
<1>5. Cardinality({f[k] : k \in Q}) = Cardinality(Q)
  BY <1>3, OneForEach DEF Q
<1>6. Cardinality(U) = Cardinality(Q)
  BY <1>2, <1>4, <1>5
<1>7. R!Sum(src, u) = Cardinality(U)
  BY ReportCardinality DEF R!Sum, Q
<1> QED BY <1>6, <1>7 DEF Q

\* When the loops have ended, every call was made.
LEMMA AllMade ==
    ASSUME ReportInv, step = "done", R!CallsOver, failed = 0, NEW s, NEW x, NEW d, Exists(s, x, d)
    PROVE  Key(s, x, d) \in DOMAIN got
<1>1. /\ s \in Nat /\ x \in Nat /\ d \in Nat /\ s <= Len(R!Sources) /\ x <= Len(users) /\ 1 <= x
      /\ d <= to.day /\ to.day \in Nat /\ Len(R!Sources) \in Nat /\ Len(users) \in Nat
  <2>1. Len(R!Sources) \in Nat /\ from.day \in Nat /\ to.day \in Nat /\ Len(users) \in Nat
    BY RangeIs, SourcesAre, LenProperties DEF ReportInv, UsersInv
  <2> QED BY <2>1 DEF Exists
<1>2. source > Len(R!Sources) \/ first > Len(users) \/ slice > Len(slices)
  BY DEF R!CallsOver
<1>3. source \in Nat /\ first \in Nat /\ slice \in Nat /\ Len(slices) \in Nat /\ BatchSize \in Nat
  BY RangeIs, LenProperties DEF ReportInv, PlaceInv, SliceInv, Contiguous
<1>4. users # <<>>
  <2> SUFFICES ASSUME users = <<>> PROVE FALSE
    OBVIOUS
  <2>1. Len(users) = 0
    BY EmptySeq
  <2> QED BY <1>1, <2>1
<1>5. Before(s, x, d)
  <2> DEFINE a == FirstDay(slice)
             b == FirstDay(slice + 1)
             m == Len(R!Sources)
             n == Len(slices)
             l == Len(users)
  <2>1. Before(s, x, d) <=>
          CASE report = "detail" -> x < first \/ (x < first + BatchSize /\ (d < a \/ (d < b /\ s < source)))
            [] report = "vacation" -> d < a \/ (d < b /\ x < first)
            [] OTHER -> s < source \/ (s = source /\ (x < first \/ (x < first + BatchSize /\ d < a)))
    BY DEF Before, Earlier
  <2>2. slice > n => a = to.day + 1
    BY <1>3 DEF FirstDay
  <2>3. CASE report = "detail"
    <3>1. source <= m /\ slice <= n
      BY <2>3 DEF ReportInv, PlaceInv
    <3> HIDE DEF a, b, m, n, l
    <3>2. x < first
      BY <1>1, <1>2, <1>3, <3>1 DEF m, n, l
    <3> QED BY <2>1, <2>3, <3>2
  <2>4. CASE report = "vacation"
    <3>1. source = 1 /\ first <= l /\ m = 1
      BY <1>4, <2>4, SourcesAre DEF ReportInv, PlaceInv
    <3> HIDE DEF a, b, m, n, l
    <3>2. slice > n
      BY <1>1, <1>2, <1>3, <3>1 DEF m, n, l
    <3>3. d < a
      BY <1>1, <2>2, <3>2
    <3> QED BY <2>1, <2>4, <3>3
  <2>5. CASE report \notin {"detail", "vacation"}
    <3>1. slice <= n /\ first <= l
      BY <1>4, <2>5 DEF ReportInv, PlaceInv
    <3> HIDE DEF a, b, m, n, l
    <3>2. s < source
      BY <1>1, <1>2, <1>3, <3>1 DEF m, n, l
    <3> QED BY <2>1, <2>5, <3>2
  <2> QED BY <2>3, <2>4, <2>5
<1>6. Made(s, x, d)
  BY <1>5 DEF Made
<1> QED BY <1>6 DEF ReportInv, GotInv

\* Of a user asked for, every source has every day.
LEMMA OfIs ==
    ASSUME ReportInv, step = "done", R!CallsOver, failed = 0,
           NEW u \in R!ToSet(users), NEW s \in 1..Len(R!Sources)
    PROVE  R!Of(R!Sources[s], u) = {<<R!Sources[s], u, d>> : d \in from.day..to.day}
<1>1. PICK x \in 1..Len(users) : users[x] = u
  <2>1. DOMAIN users = 1..Len(users)
    BY LenProperties DEF ReportInv, UsersInv
  <2> QED BY <2>1 DEF R!ToSet
<1>2. ASSUME NEW d \in from.day..to.day PROVE <<R!Sources[s], u, d>> \in R!Of(R!Sources[s], u)
  <2>1. Exists(s, x, d) /\ Key(s, x, d) = <<R!Sources[s], u, d>>
    BY <1>1 DEF Exists, Key
  <2>2. <<R!Sources[s], u, d>> \in DOMAIN got
    BY <2>1, AllMade
  <2> QED BY <2>2 DEF R!Of
<1>3. ASSUME NEW k \in R!Of(R!Sources[s], u) PROVE k \in {<<R!Sources[s], u, d>> : d \in from.day..to.day}
  <2>1. k \in DOMAIN got /\ k[1] = R!Sources[s] /\ k[2] = u
    BY DEF R!Of
  <2>2. PICK t, y, e : Exists(t, y, e) /\ k = Key(t, y, e)
    BY <2>1 DEF ReportInv, GotInv
  <2>3. k = <<R!Sources[s], u, e>> /\ e \in from.day..to.day
    BY <2>1, <2>2 DEF Key, Exists
  <2> QED BY <2>3
<1> QED BY <1>2, <1>3

\* The cells of a user, source by source.
LEMMA CellsAre ==
    ASSUME ReportInv, step = "done", R!CallsOver, failed = 0,
           NEW u \in R!ToSet(users), NEW s \in 1..Len(R!Sources)
    PROVE  /\ R!Of(R!Sources[s], u) = {<<R!Sources[s], u, d>> : d \in from.day..to.day}
           /\ R!Cardinality(R!Of(R!Sources[s], u)) = to.day - from.day + 1
           /\ ~AsGiven => R!Sum(R!Sources[s], u) = to.day - from.day + 1
<1> DEFINE Q == R!Of(R!Sources[s], u)
<1>1. Q = {<<R!Sources[s], u, d>> : d \in from.day..to.day}
  BY OfIs
<1>2. from.day \in Nat /\ to.day \in Nat /\ from.day <= to.day
  BY RangeIs DEF ReportInv
<1>3. IsFiniteSet(Q) /\ Cardinality(Q) = to.day - from.day + 1
  <2>1. Q = AllDays(R!Sources[s], u, from.day, to.day)
    BY <1>1 DEF AllDays
  <2> HIDE DEF Q
  <2> QED BY <1>2, <2>1, DaysCount
<1>4. R!Cardinality(Q) = to.day - from.day + 1
  BY <1>3, ReportCardinality
<1>5. ASSUME ~AsGiven PROVE R!Sum(R!Sources[s], u) = to.day - from.day + 1
  <2>1. \A k \in Q : got[k] = 1
    BY <1>5 DEF ReportInv, GotInv, R!Of
  <2> QED BY <1>3, <2>1, SumCounts
<1> QED BY <1>1, <1>4, <1>5

---------------------------------------------------------------------------

LEMMA UnknownInit == R!Init => UnknownInv
BY DEF R!Init, UnknownInv

LEMMA UnknownStep == ASSUME UnknownInv, [R!Next]_(R!vars) PROVE UnknownInv'
<1>1. CASE R!Unavailable
  <2> SUFFICES ASSUME NEW k \in R!Keys(R!Batch) PROVE k[3] \in External
    BY <1>1 DEF R!Unavailable, UnknownInv
  <2>1. PICK u \in R!Batch, d \in R!Days(slices[slice]) : k = <<R!Sources[source], u, d>>
    BY DEF R!Keys
  <2>2. k[3] = d
    BY <2>1
  <2> QED BY <1>1, <2>1, <2>2 DEF R!Unavailable, R!ExternalType
<1>2. CASE ~R!Unavailable
  <2>1. CASE UNCHANGED R!vars
    BY <2>1 DEF R!vars, UnknownInv
  <2>2. CASE \/ R!TakeIds \/ R!ResolveUsers \/ R!NextId \/ R!TakeUser \/ R!UsersResolved
             \/ R!Cut \/ R!CutEnds
    BY <2>2 DEF R!TakeIds, R!ResolveUsers, R!NextId, R!TakeUser, R!UsersResolved, R!Cut, R!CutEnds,
                R!QueryFrame, UnknownInv
  <2>3. CASE R!Answered \/ R!FullPage \/ R!Failed \/ R!Refused \/ R!AskOneByOne
    BY <2>3 DEF R!Answered, R!FullPage, R!Failed, R!Refused, R!AskOneByOne, R!Frame, UnknownInv
  <2>4. CASE \E u \in single : R!AnsweredOne(u)
    BY <2>4 DEF R!AnsweredOne, R!Frame, UnknownInv
  <2>5. CASE \E b \in BOOLEAN : R!WriteCounted(b) \/ R!WriteUncounted(b)
    BY <2>5 DEF R!WriteCounted, R!WriteUncounted, R!Report, R!Frame, UnknownInv
  <2> QED BY <1>2, <2>1, <2>2, <2>3, <2>4, <2>5 DEF R!Next
<1> QED BY <1>1, <1>2

LEMMA FirstAndRest ==
    ASSUME NEW s \in Seq(UserIds), s # <<>>
    PROVE  R!ToSet(s) \subseteq {Head(s)} \cup R!ToSet(Tail(s))
<1>1. /\ Len(s) \in Nat /\ DOMAIN s = 1..Len(s) /\ Head(s) = s[1]
      /\ Tail(s) \in Seq(UserIds) /\ Len(Tail(s)) = Len(s) - 1
      /\ \A i \in 1..Len(s) - 1 : Tail(s)[i] = s[i + 1]
  BY LenProperties, EmptySeq
<1>2. DOMAIN Tail(s) = 1..Len(s) - 1
  BY <1>1, LenProperties
<1> SUFFICES ASSUME NEW i \in 1..Len(s), s[i] # Head(s) PROVE s[i] \in R!ToSet(Tail(s))
  BY <1>1 DEF R!ToSet
<1>3. i # 1 /\ i - 1 \in 1..Len(s) - 1 /\ (i - 1) + 1 = i
  BY <1>1
<1> QED BY <1>1, <1>2, <1>3 DEF R!ToSet

LEMMA OneAdded ==
    ASSUME NEW s \in Seq(UserIds), NEW u \in UserIds
    PROVE  R!ToSet(s) \cup {u} \subseteq R!ToSet(Append(s, u))
<1>1. /\ Len(s) \in Nat /\ DOMAIN s = 1..Len(s)
      /\ DOMAIN Append(s, u) = 1..Len(s) + 1
      /\ Append(s, u)[Len(s) + 1] = u /\ \A i \in 1..Len(s) : Append(s, u)[i] = s[i]
  BY LenProperties, AppendProperties
<1> QED BY <1>1 DEF R!ToSet

LEMMA AskedInit == R!Init => AskedInv
<1> SUFFICES ASSUME R!Init PROVE AskedInv
  OBVIOUS
<1>1. step = "resolve" /\ ids = raw
  BY DEF R!Init
<1> QED BY <1>1 DEF AskedInv, Looking

\* Who is covered stays it when users are added.
LEMMA CoverGrows ==
    ASSUME NEW us, NEW vs, us \subseteq vs, NEW id, R!CoveredBy(us, id)
    PROVE  R!CoveredBy(vs, id)
BY DEF R!CoveredBy

\* One look at the ids.
LEMMA AskedAgain ==
    ASSUME raw' = raw, report' = report, step' = step, AskedInv, ~AsGiven, Looking, step # "resolve",
           \A id \in R!ToSet(raw) : id \in R!ToSet(ids') \/ R!CoveredBy(R!ToSet(users') \cup R!ToSet(named'), id)
    PROVE  AskedInv'
<1>1. R!Mixed' <=> R!Mixed
  BY DEF R!Mixed
<1>2. \A us, id : R!CoveredBy(us, id)' <=> R!CoveredBy(us, id)
  BY <1>1 DEF R!CoveredBy
<1> QED BY <1>1, <1>2 DEF AskedInv, AsGiven, Looking

\* Nothing after the users are known touches them.
LEMMA AskedStays ==
    ASSUME AskedInv, UNCHANGED <<report, raw, users, ids, named>>,
           step' = step \/ (~Looking /\ step' \in {"query", "done"})
    PROVE  AskedInv'
<1>1. (R!Mixed' <=> R!Mixed) /\ (\A us, id : R!CoveredBy(us, id)' <=> R!CoveredBy(us, id))
  BY DEF R!CoveredBy, R!Mixed
<1>2. Looking' => step' = step
  BY DEF Looking
<1> QED BY <1>1, <1>2 DEF AskedInv, AsGiven, Looking

LEMMA UsersAsked ==
    ASSUME ReportInv, AskedInv, R!TakeIds \/ R!ResolveUsers \/ R!NextId \/ R!TakeUser \/ R!UsersResolved
    PROVE  AskedInv'
<1>1. report' = report /\ raw' = raw /\ (R!Mixed' <=> R!Mixed)
  BY DEF R!TakeIds, R!ResolveUsers, R!NextId, R!TakeUser, R!UsersResolved, R!QueryFrame, R!range, R!Mixed
<1>2. ids \in Seq(UserIds) /\ named \in Seq(UserIds) /\ users \in Seq(UserIds)
  BY DEF ReportInv, UsersInv
<1>3. CASE R!TakeIds
  <2>1. step = "resolve" /\ AsGiven /\ AsGiven' /\ users' = ids /\ ids = raw /\ step' = "slice"
    BY <1>1, <1>3 DEF R!TakeIds, AsGiven, AskedInv
  <2> QED BY <1>1, <2>1 DEF AskedInv
<1>4. CASE R!ResolveUsers
  <2>1. /\ step = "resolve" /\ ~AsGiven /\ ~AsGiven' /\ ids = raw
        /\ UNCHANGED <<users, ids, named>> /\ step' \in {"together", "each"}
        /\ step' = "together" => R!Mixed
    BY <1>1, <1>4 DEF R!ResolveUsers, AsGiven, AskedInv, R!Mixed
  <2> QED BY <1>1, <2>1 DEF AskedInv, Looking
<1>5. CASE R!NextId
  <2>1. /\ step \in {"together", "each"} /\ step' = step /\ named = <<>> /\ ids # <<>>
        /\ ids' = Tail(ids) /\ users' = users /\ ~AsGiven /\ ~AsGiven' /\ Looking'
    BY <1>1, <1>5 DEF R!NextId, AsGiven, AskedInv, Looking
  <2> DEFINE id == Head(ids)
             us == R!ToSet(users) \cup R!ToSet(named)
             vs == R!ToSet(users') \cup R!ToSet(named')
  <2>2. us \subseteq vs
    BY <2>1 DEF R!ToSet
  <2>3. R!CoveredBy(vs, id)
    <3>1. CASE step = "together" /\ named' = R!Expanded(id)
      <4>1. R!Mixed
        BY <3>1 DEF AskedInv
      <4> QED BY <3>1, <4>1 DEF R!CoveredBy
    <3>2. CASE id \in R!ToSet(users)
      BY <2>1, <3>2 DEF R!CoveredBy
    <3>3. CASE named' = R!Expanded(id) /\ R!Expanded(id) # <<>>
      BY <3>3 DEF R!CoveredBy
    <3>4. CASE named' = <<id>>
      <4>1. id \in R!ToSet(named')
        <5>1. 1 \in DOMAIN <<id>> /\ <<id>>[1] = id
          OBVIOUS
        <5> QED BY <3>4, <5>1 DEF R!ToSet
      <4> QED BY <4>1 DEF R!CoveredBy
    <3> QED BY <1>5, <3>1, <3>2, <3>3, <3>4 DEF R!NextId
  <2>4. ASSUME NEW i \in R!ToSet(raw)
        PROVE  i \in R!ToSet(ids') \/ R!CoveredBy(vs, i)
    <3>1. i \in R!ToSet(ids) \/ R!CoveredBy(us, i)
      BY <2>1, <2>4 DEF AskedInv
    <3>2. R!ToSet(ids) \subseteq {id} \cup R!ToSet(ids')
      BY <1>2, <2>1, FirstAndRest
    <3>3. R!CoveredBy(us, i) => R!CoveredBy(vs, i)
      BY <2>2, CoverGrows
    <3> HIDE DEF us, vs, id
    <3>4. CASE i = id
      BY <2>3, <3>4
    <3> QED BY <3>1, <3>2, <3>3, <3>4
  <2> QED BY <1>1, <2>1, <2>4, AskedAgain DEF AskedInv, Looking
<1>6. CASE R!TakeUser
  <2>1. /\ named # <<>> /\ named' = Tail(named) /\ UNCHANGED <<step, ids>>
        /\ users' = IF Head(named) \in R!ToSet(users) THEN users ELSE Append(users, Head(named))
        /\ step \in {"together", "each"} /\ ~AsGiven /\ ~AsGiven' /\ Looking'
    BY <1>1, <1>6 DEF R!TakeUser, AsGiven, AskedInv, Looking, ReportInv, UsersInv
  <2> DEFINE us == R!ToSet(users) \cup R!ToSet(named)
             vs == R!ToSet(users') \cup R!ToSet(named')
  <2>2. us \subseteq vs
    <3>1. R!ToSet(named) \subseteq {Head(named)} \cup R!ToSet(named')
      BY <1>2, <2>1, FirstAndRest
    <3>2. R!ToSet(users) \cup {Head(named)} \subseteq R!ToSet(users')
      <4>1. Head(named) \in UserIds
        BY <1>2, <2>1
      <4> QED BY <1>2, <2>1, <4>1, OneAdded
    <3> QED BY <3>1, <3>2
  <2>3. \A i \in R!ToSet(raw) : i \in R!ToSet(ids') \/ R!CoveredBy(vs, i)
    <3> SUFFICES ASSUME NEW i \in R!ToSet(raw) PROVE i \in R!ToSet(ids') \/ R!CoveredBy(vs, i)
      OBVIOUS
    <3>1. i \in R!ToSet(ids) \/ R!CoveredBy(us, i)
      BY <2>1 DEF AskedInv
    <3>2. R!CoveredBy(us, i) => R!CoveredBy(vs, i)
      BY <2>2, CoverGrows
    <3> QED BY <2>1, <3>1, <3>2
  <2> QED BY <1>1, <2>1, <2>3, AskedAgain DEF AskedInv, Looking
<1>7. CASE R!UsersResolved
  <2>1. /\ UNCHANGED <<users, ids, named>> /\ step' = "slice" /\ ids = <<>> /\ named = <<>>
        /\ step \in {"together", "each"} /\ ~AsGiven /\ ~AsGiven'
    BY <1>1, <1>7 DEF R!UsersResolved, AsGiven, AskedInv
  <2>2. \A us, id : R!CoveredBy(us, id)' <=> R!CoveredBy(us, id)
    BY <1>1 DEF R!CoveredBy
  <2> QED BY <1>1, <2>1, <2>2 DEF AskedInv
<1> QED BY <1>3, <1>4, <1>5, <1>6, <1>7

LEMMA AskedStep == ASSUME ReportInv, AskedInv, [R!Next]_(R!vars) PROVE AskedInv'
<1>1. CASE UNCHANGED R!vars
  BY <1>1, AskedStays DEF R!vars, R!range
<1>2. CASE R!TakeIds \/ R!ResolveUsers \/ R!NextId \/ R!TakeUser \/ R!UsersResolved
  BY <1>2, UsersAsked
<1>3. CASE R!Cut \/ R!CutEnds
  BY <1>3, AskedStays DEF R!Cut, R!CutEnds, R!QueryFrame, R!range, Looking
<1>4. CASE R!Answered \/ R!Unavailable \/ R!FullPage \/ R!Failed \/ R!Refused \/ R!AskOneByOne
  <2>1. step = "query" /\ R!Kept /\ step' \in {"query", "done"}
    BY <1>4 DEF R!Answered, R!Unavailable, R!AnswersBatch, R!FullPage, R!Failed, R!Refused, R!AskOneByOne,
                R!GoesOnCounted, R!GoesOn, R!GivesUp, R!Done, R!Frame, R!Querying
  <2> QED BY <2>1, AskedStays DEF R!Kept, R!range, Looking
<1>5. CASE \E u \in single : R!AnsweredOne(u)
  <2>1. step = "query" /\ R!Kept /\ step' = step
    BY <1>5 DEF R!AnsweredOne, R!Frame, R!Querying
  <2> QED BY <2>1, AskedStays DEF R!Kept, R!range, Looking
<1>6. CASE \E b \in BOOLEAN : R!WriteCounted(b) \/ R!WriteUncounted(b)
  <2>1. step = "query" /\ R!Kept /\ step' = "done"
    BY <1>6 DEF R!WriteCounted, R!WriteUncounted, R!Report, R!Done, R!Frame
  <2> QED BY <2>1, AskedStays DEF R!Kept, R!range, Looking
<1> QED BY <1>1, <1>2, <1>3, <1>4, <1>5, <1>6 DEF R!Next

LEMMA AskedFromInv == ASSUME ReportInv, AskedInv PROVE R!EveryoneAsked
<1> SUFFICES ASSUME said \in {"complete", "success"}, NEW id \in R!ToSet(raw)
             PROVE  R!CoveredBy(R!ToSet(users), id)
  BY DEF R!EveryoneAsked
<1>1. step = "done"
  BY DEF ReportInv, SaidInv
<1>2. CASE AsGiven
  <2>1. id \in R!ToSet(users)
    BY <1>1, <1>2 DEF AskedInv
  <2> QED BY <2>1 DEF R!CoveredBy
<1>3. CASE ~AsGiven
  <2>1. ids = <<>> /\ named = <<>>
    BY <1>1, <1>3 DEF AskedInv, Looking
  <2>2. R!ToSet(ids) = {} /\ R!ToSet(named) = {}
    BY <2>1 DEF R!ToSet
  <2>3. R!CoveredBy(R!ToSet(users) \cup R!ToSet(named), id)
    BY <1>3, <2>2 DEF AskedInv
  <2>4. R!ToSet(users) \cup R!ToSet(named) = R!ToSet(users)
    BY <2>2
  <2> QED BY <2>3, <2>4
<1> QED BY <1>2, <1>3

LEMMA WholeFromInv == ASSUME ReportInv, UnknownInv, AskedInv PROVE R!ReportIsWhole
<1>1. R!FetchedOnce
  BY DEF ReportInv, GotInv, AsGiven, R!FetchedOnce
<1>2. R!ScheduleFull
  <2> SUFFICES ASSUME report = "schedule", said = "success", failed = 0, NEW u \in R!ToSet(users)
               PROVE  R!ScheduleCells(u) = to.day - from.day + 1
    BY DEF R!ScheduleFull
  <2>1. step = "done" /\ R!CallsOver
    BY DEF ReportInv, SaidInv
  <2>2. R!Sources = <<"data">> /\ 1 \in 1..Len(R!Sources) /\ R!Sources[1] = "data"
    BY SourcesAre DEF ReportInv
  <2>3. R!Cardinality(R!Of("data", u)) = to.day - from.day + 1
    BY <2>1, <2>2, CellsAre
  <2> QED BY <2>3 DEF R!ScheduleCells
<1>3. R!CompleteMeansAll
  <2> DEFINE n == to.day - from.day + 1
  <2> SUFFICES ASSUME said = "complete", NEW u \in R!ToSet(users)
               PROVE  /\ report = "monthly" => R!MonthlyCell(u) = n /\ R!LeaveCell(u) = n /\ R!CalendarCells(u) = n
                      /\ report = "daily" => R!DailyRows(u) = from.day..to.day /\ R!LeaveCell(u) = n
                      /\ report = "detail" => R!DetailRows(u) = [all |-> n, matched |-> n]
                      /\ report = "checkin" => R!CheckinRows(u) = n
                      /\ report = "vacation" => R!VacationCells(u) = n
    BY DEF R!CompleteMeansAll, UnknownInv
  <2>1. step = "done" /\ R!CallsOver /\ failed = 0
    BY DEF ReportInv, SaidInv
  <2>2. \A s \in 1..Len(R!Sources) :
          /\ R!Of(R!Sources[s], u) = {<<R!Sources[s], u, d>> : d \in from.day..to.day}
          /\ R!Cardinality(R!Of(R!Sources[s], u)) = n
          /\ ~AsGiven => R!Sum(R!Sources[s], u) = n
    BY <2>1, CellsAre
  <2>3. CASE report \in {"monthly", "daily"}
    <3>1. R!Sources = <<"data", "leave">> /\ 1 \in 1..Len(R!Sources) /\ 2 \in 1..Len(R!Sources)
          /\ R!Sources[1] = "data" /\ R!Sources[2] = "leave"
      BY <2>3, SourcesAre DEF ReportInv
    <3>2. /\ R!Of("data", u) = {<<"data", u, d>> : d \in from.day..to.day}
          /\ R!Cardinality(R!Of("data", u)) = n /\ R!Sum("data", u) = n /\ R!Sum("leave", u) = n
      BY <2>2, <2>3, <3>1 DEF AsGiven
    <3>3. {k[3] : k \in R!Of("data", u)} = from.day..to.day
      <4>1. \A d : <<"data", u, d>>[3] = d
        OBVIOUS
      <4>2. \A d \in from.day..to.day : <<"data", u, d>> \in R!Of("data", u)
        BY <3>2
      <4>3. \A k \in R!Of("data", u) : k[3] \in from.day..to.day
        BY <3>2, <4>1
      <4> QED BY <4>1, <4>2, <4>3
    <3> QED BY <2>3, <3>2, <3>3 DEF R!MonthlyCell, R!LeaveCell, R!CalendarCells, R!DailyRows
  <2>4. CASE report = "detail"
    <3>1. R!Sources = <<"result", "record">> /\ 1 \in 1..Len(R!Sources) /\ 2 \in 1..Len(R!Sources)
          /\ R!Sources[1] = "result" /\ R!Sources[2] = "record"
      BY <2>4, SourcesAre DEF ReportInv
    <3>2. /\ R!Of("result", u) = {<<"result", u, d>> : d \in from.day..to.day}
          /\ R!Of("record", u) = {<<"record", u, d>> : d \in from.day..to.day}
          /\ R!Cardinality(R!Of("record", u)) = n /\ R!Sum("record", u) = n
      BY <2>2, <2>4, <3>1 DEF AsGiven
    <3>3. {k \in R!Of("record", u) : <<"result", u, k[3]>> \in DOMAIN got} = R!Of("record", u)
      <4>1. \A d : <<"record", u, d>>[3] = d
        OBVIOUS
      <4>2. \A k \in R!Of("record", u) : <<"result", u, k[3]>> \in R!Of("result", u)
        BY <3>2, <4>1
      <4>3. \A k \in R!Of("record", u) : <<"result", u, k[3]>> \in DOMAIN got
        BY <4>2 DEF R!Of
      <4> QED BY <4>3
    <3> QED BY <2>4, <3>2, <3>3 DEF R!DetailRows
  <2>5. CASE report \notin {"monthly", "daily", "detail"}
    <3>1. R!Sources = <<"data">> /\ 1 \in 1..Len(R!Sources) /\ R!Sources[1] = "data"
      BY <2>5, SourcesAre DEF ReportInv
    <3>2. /\ R!Cardinality(R!Of("data", u)) = n
          /\ ~AsGiven => R!Sum("data", u) = n
      BY <2>2, <3>1
    <3> QED BY <2>5, <3>2 DEF AsGiven, R!CheckinRows, R!VacationCells
  <2> QED BY <2>3, <2>4, <2>5
<1> QED BY <1>1, <1>2, <1>3, AskedFromInv DEF R!ReportIsWhole

\* For any ids, departments, ranges, batch and slice lengths, pages and external
\* leave types: a report that shows no failure has every day of every user from
\* every source, once, and a line instead of a balance only for an external
\* type; no run fetches a record twice; and each id given is in the report, by
\* itself or by its members, except a user's whose list names a department too.
THEOREM ReportsAreWhole == R!Spec => []ReportIsWhole
<1>1. R!Init => ReportInv /\ UnknownInv /\ AskedInv
  BY ReportInit, UnknownInit, AskedInit
<1>2. ASSUME ReportInv, UnknownInv, AskedInv, [R!Next]_(R!vars)
      PROVE  ReportInv' /\ UnknownInv' /\ AskedInv'
  BY <1>2, ReportStep, UnknownStep, AskedStep
<1>3. ReportInv /\ UnknownInv /\ AskedInv => ReportIsWhole
  BY WholeFromInv DEF ReportIsWhole
<1> QED BY <1>1, <1>2, <1>3, PTL DEF R!Spec
---------------------------------------------------------------------------
(* ProcessUpdate: what is published is what was given                      *)

\* Flows and views are lists, of whatever.
IsList(q) == q \in Seq({q[i] : i \in DOMAIN q})

LEMMA ListDomain ==
    ASSUME NEW q, IsList(q)
    PROVE  Len(q) \in Nat /\ DOMAIN q = 1..Len(q)
BY LenProperties DEF IsList

LEMMA ListMade ==
    ASSUME NEW n \in Nat, NEW q, q = [i \in 1..n |-> q[i]]
    PROVE  IsList(q) /\ Len(q) = n
<1> DEFINE T == {q[i] : i \in DOMAIN q}
<1>1. q \in [1..n -> T]
  OBVIOUS
<1>2. q \in Seq(T)
  BY <1>1, SeqDef
<1>3. IsList(q)
  BY <1>2 DEF IsList
<1>4. Len(q) \in Nat /\ 1..Len(q) = 1..n
  BY <1>1, <1>3, ListDomain
<1>5. Len(q) = n
  BY <1>4
<1> QED BY <1>3, <1>5

LEMMA ListAppend ==
    ASSUME NEW q, IsList(q), NEW e
    PROVE  /\ IsList(Append(q, e))
           /\ Len(Append(q, e)) = Len(q) + 1
           /\ Append(q, e)[Len(q) + 1] = e
           /\ \A i \in 1..Len(q) : Append(q, e)[i] = q[i]
<1> DEFINE T == {q[i] : i \in DOMAIN q} \cup {e}
<1>1. q \in Seq(T) /\ e \in T
  <2>1. Len(q) \in Nat /\ DOMAIN q = 1..Len(q) /\ q = [i \in 1..Len(q) |-> q[i]]
    BY ListDomain DEF IsList
  <2>2. q \in [1..Len(q) -> T]
    BY <2>1
  <2> QED BY <2>1, <2>2, SeqDef
<1> HIDE DEF T
<1>2. /\ Append(q, e) \in Seq(T)
      /\ Len(Append(q, e)) = Len(q) + 1
      /\ \A i \in 1..Len(q) : Append(q, e)[i] = q[i]
      /\ Append(q, e)[Len(q) + 1] = e
  BY <1>1, AppendProperties
<1>3. Len(q) + 1 \in Nat /\ Append(q, e) = [i \in 1..(Len(q) + 1) |-> Append(q, e)[i]]
  <2>1. Len(q) \in Nat
    BY <1>1, LenProperties
  <2>2. Append(q, e) \in [1..Len(Append(q, e)) -> T]
    BY <1>2, LenProperties
  <2> DEFINE m == Len(q) + 1
             w == Append(q, e)
  <2>3. m \in Nat /\ w \in [1..m -> T]
    BY <1>2, <2>1, <2>2
  <2> HIDE DEF m, w
  <2>4. w = [i \in 1..m |-> w[i]]
    BY <2>3
  <2> QED BY <2>3, <2>4 DEF m, w
<1>4. IsList(Append(q, e))
  BY <1>3, ListMade
<1> QED BY <1>2, <1>4

LEMMA ListOfNothing == IsList(<<>>) /\ Len(<<>>) = 0
BY DEF IsList

---------------------------------------------------------------------------
(* The shape of a view that grows by an item                               *)

Steps(v) == F!Place(v, Len(v))
LookOf(c) == F!Look(c, F!Shaped[c.kids])

LEMMA FlowCardinality == \A Q : F!Cardinality(Q) = Cardinality(Q)
BY DEF F!Cardinality, Cardinality, F!IsFiniteSet, IsFiniteSet

LEMMA PlaceIsNumber == ASSUME NEW v, NEW n \in Nat PROVE F!Place(v, n) \in Nat
<1>1. IsFiniteSet(1..n)
  BY FS_Interval, 1 \in Int, n \in Int
<1>2. IsFiniteSet({j \in 1..n : F!IsStep(v[j])})
  BY <1>1, FS_Subset
<1> QED BY <1>2, FS_CardinalityType, FlowCardinality DEF F!Place

LEMMA PlaceKept ==
    ASSUME NEW v, IsList(v), NEW e, NEW n \in 0..Len(v)
    PROVE  F!Place(Append(v, e), n) = F!Place(v, n)
<1>1. \A j \in 1..n : Append(v, e)[j] = v[j]
  BY ListAppend, ListDomain
<1>2. {j \in 1..n : F!IsStep(Append(v, e)[j])} = {j \in 1..n : F!IsStep(v[j])}
  BY <1>1
<1> QED BY <1>2 DEF F!Place

LEMMA PlaceNext ==
    ASSUME NEW v, IsList(v), NEW e
    PROVE  Steps(Append(v, e)) = IF F!IsStep(e) THEN Steps(v) + 1 ELSE Steps(v)
<1> DEFINE w == Append(v, e)
           n == Len(v)
           A == {j \in 1..n : F!IsStep(v[j])}
           B == {j \in 1..(n + 1) : F!IsStep(w[j])}
<1>1. n \in Nat /\ Len(w) = n + 1 /\ w[n + 1] = e /\ \A j \in 1..n : w[j] = v[j]
  BY ListAppend, ListDomain
<1>2. B = IF F!IsStep(e) THEN A \cup {n + 1} ELSE A
  <2>1. \A j : j \in 1..(n + 1) <=> j \in 1..n \/ j = n + 1
    BY <1>1
  <2>2. \A j : j \in B <=> (j \in 1..n /\ F!IsStep(v[j])) \/ (j = n + 1 /\ F!IsStep(e))
    BY <1>1, <2>1
  <2> QED BY <2>2
<1>3. n + 1 \notin A /\ IsFiniteSet(A) /\ Cardinality(A) \in Nat
  <2>1. IsFiniteSet(1..n)
    BY <1>1, FS_Interval, 1 \in Int, n \in Int
  <2>2. IsFiniteSet(A)
    BY <2>1, FS_Subset
  <2>3. n + 1 \notin A
    BY <1>1
  <2> QED BY <2>2, <2>3, FS_CardinalityType
<1>4. Cardinality(A \cup {n + 1}) = Cardinality(A) + 1
  <2> HIDE DEF A, n
  <2> QED BY <1>3, FS_AddElement
<1>5. Steps(v) = Cardinality(A) /\ Steps(w) = Cardinality(B)
  BY <1>1, FlowCardinality DEF Steps, F!Place
<1> HIDE DEF A, B, w, n
<1> QED BY <1>2, <1>4, <1>5 DEF w

LEMMA ShapeAppend ==
    ASSUME NEW v, IsList(v), NEW e
    PROVE  F!Shape(Append(v, e))
             = IF F!IsStep(e) THEN F!Shape(v) \cup {<<Steps(v) + 1, LookOf(e)>>} ELSE F!Shape(v)
<1> DEFINE w == Append(v, e)
           n == Len(v)
           Of(u, i) == <<F!Place(u, i), F!Look(u[i], F!Shaped[u[i].kids])>>
<1>1. /\ n \in Nat /\ Len(w) = n + 1 /\ w[n + 1] = e /\ \A j \in 1..n : w[j] = v[j]
      /\ DOMAIN v = 1..n /\ DOMAIN w = 1..(n + 1)
  BY ListAppend, ListDomain
<1>2. \A i \in 1..n : Of(w, i) = Of(v, i)
  <2> TAKE i \in 1..n
  <2>1. F!Place(w, i) = F!Place(v, i) /\ w[i] = v[i]
    BY <1>1, PlaceKept, i \in 0..n
  <2> QED BY <2>1
<1>3. F!IsStep(e) => Of(w, n + 1) = <<Steps(v) + 1, LookOf(e)>>
  <2> HAVE F!IsStep(e)
  <2>1. F!Place(w, n + 1) = Steps(v) + 1
    BY <1>1, PlaceNext DEF Steps
  <2> QED BY <1>1, <2>1 DEF LookOf
<1>4. \A j : j \in 1..(n + 1) <=> j \in 1..n \/ j = n + 1
  BY <1>1
<1>5. F!Shape(w) = {Of(w, i) : i \in {k \in 1..(n + 1) : F!IsStep(w[k])}}
  BY <1>1 DEF F!Shape
<1>6. F!Shape(v) = {Of(v, i) : i \in {k \in 1..n : F!IsStep(v[k])}}
  BY <1>1 DEF F!Shape
<1> HIDE DEF Of
<1>7. \A x : x \in F!Shape(w) <=> x \in F!Shape(v) \/ (F!IsStep(e) /\ x = Of(w, n + 1))
  BY <1>1, <1>2, <1>4, <1>5, <1>6
<1> HIDE DEF w, n
<1>8. F!Shape(w) = IF F!IsStep(e) THEN F!Shape(v) \cup {<<Steps(v) + 1, LookOf(e)>>} ELSE F!Shape(v)
  BY <1>3, <1>7
<1> QED BY <1>8 DEF w

LEMMA ShapeOfNothing == F!Shape(<<>>) = {} /\ Steps(<<>>) = 0
<1>1. Len(<<>>) = 0 /\ DOMAIN <<>> = {} /\ 1..0 = {}
  OBVIOUS
<1>2. F!Place(<<>>, 0) = 0
  BY <1>1, FS_EmptySet, FlowCardinality DEF F!Place
<1> QED BY <1>1, <1>2 DEF F!Shape, Steps

\* The same steps in the same places.
Alike(v, w) == F!Shape(v) = F!Shape(w) /\ Steps(v) = Steps(w)

\* Two views that are alike remain so when each takes an item of the same look.
LEMMA AlikeNext ==
    ASSUME NEW v, IsList(v), NEW w, IsList(w), Alike(v, w), NEW c, NEW d,
           F!IsStep(c) <=> F!IsStep(d), F!IsStep(c) => LookOf(c) = LookOf(d)
    PROVE  Alike(Append(v, c), Append(w, d))
BY ShapeAppend, PlaceNext DEF Alike

\* ... or one of them takes a start node.
LEMMA AlikeStart ==
    ASSUME NEW v, IsList(v), NEW w, IsList(w), Alike(v, w), NEW d, ~F!IsStep(d)
    PROVE  Alike(v, Append(w, d)) /\ Alike(Append(v, d), w)
BY ShapeAppend, PlaceNext DEF Alike

---------------------------------------------------------------------------
(* What a flow, a view and the merge of the two are                        *)

Fields == {"id", "comp", "cfg", "kids"}
Card(c) == DOMAIN c = Fields
Cards(v) == IsList(v) /\ \A i \in DOMAIN v : Card(v[i])

\* A flow that was accepted: every node is found under its own id.
Accepted(flow) ==
    /\ IsList(flow)
    /\ \A i \in DOMAIN flow : flow[i].id \in F!Ids(flow) /\ F!NodeOf(flow, flow[i].id) = flow[i]

LEMMA FlowAccepted ==
    ASSUME NEW spec \in FlowSpecs, F!Valid(F!Flow(spec))
    PROVE  Accepted(F!Flow(spec))
<1> DEFINE flow == F!Flow(spec)
           W == F!Walk(flow)
<1>1. spec \in Seq(FlowNodes) /\ Len(spec) \in Nat /\ DOMAIN spec = 1..Len(spec)
  BY FlowAssumption, LenProperties
<1>2. DOMAIN flow = 1..Len(spec) /\ IsList(flow)
  <2>1. flow = [i \in 1..Len(spec) |-> flow[i]]
    BY <1>1 DEF F!Flow
  <2> HIDE DEF flow
  <2> QED BY <1>1, <2>1, ListMade, ListDomain
<1>3. ASSUME NEW i \in DOMAIN flow
      PROVE  flow[i].id \in F!Ids(flow) /\ F!NodeOf(flow, flow[i].id) = flow[i]
  <2> HIDE DEF flow
  <2>1. <<<<i>>, flow[i]>> \in W
    BY DEF F!Walk, F!Within
  <2>2. \A v, w \in W : v[2].id = w[2].id => v = w
    BY DEF F!Valid, flow
  <2> DEFINE N == {w[2] : w \in W}
  <2>3. flow[i] \in N /\ flow[i].id \in F!Ids(flow)
    BY <2>1 DEF F!Ids
  <2>4. \A n \in N : n.id = flow[i].id => n = flow[i]
    BY <2>1, <2>2
  <2>5. F!NodeOf(flow, flow[i].id) = CHOOSE n \in N : n.id = flow[i].id
    BY DEF F!NodeOf
  <2> HIDE DEF N
  <2> QED BY <2>3, <2>4, <2>5
<1> HIDE DEF flow, W
<1>4. Accepted(flow)
  BY <1>2, <1>3 DEF Accepted
<1> QED BY <1>4 DEF flow

\* The first k items of the view that is built anew.
Built(flow, k) == [i \in 1..k |-> F!ViewChild(flow[i])]

LEMMA BuiltList ==
    ASSUME NEW flow, NEW k \in Nat
    PROVE  IsList(Built(flow, k)) /\ Len(Built(flow, k)) = k
<1> DEFINE v == Built(flow, k)
<1>1. v = [i \in 1..k |-> v[i]]
  BY DEF Built
<1> HIDE DEF v
<1>2. IsList(v) /\ Len(v) = k
  BY <1>1, ListMade
<1> QED BY <1>2 DEF v

LEMMA BuiltNext ==
    ASSUME NEW flow, NEW k \in Nat
    PROVE  Built(flow, k + 1) = Append(Built(flow, k), F!ViewChild(flow[k + 1]))
<1> DEFINE v == Built(flow, k)
           w == Append(v, F!ViewChild(flow[k + 1]))
           u == Built(flow, k + 1)
<1>1. IsList(v) /\ Len(v) = k /\ IsList(u) /\ Len(u) = k + 1
  BY BuiltList, k + 1 \in Nat
<1>2. /\ IsList(w) /\ Len(w) = k + 1
      /\ w[k + 1] = F!ViewChild(flow[k + 1])
      /\ \A i \in 1..k : w[i] = v[i]
  BY <1>1, ListAppend
<1>3. u = [i \in 1..(k + 1) |-> F!ViewChild(flow[i])] /\ \A i \in 1..k : v[i] = F!ViewChild(flow[i])
  BY DEF Built
<1>4. \A i : i \in 1..(k + 1) <=> i \in 1..k \/ i = k + 1
  OBVIOUS
<1> HIDE DEF w, u, v
<1>5. \A i \in 1..(k + 1) : w[i] = F!ViewChild(flow[i])
  BY <1>2, <1>3, <1>4
<1>6. DOMAIN w = 1..(k + 1) /\ w = [i \in 1..(k + 1) |-> w[i]]
  <2>1. DOMAIN w = 1..(k + 1)
    BY <1>2, ListDomain
  <2>2. w \in Seq({w[i] : i \in DOMAIN w})
    BY <1>2 DEF IsList
  <2>3. w \in [1..(k + 1) -> {w[i] : i \in DOMAIN w}]
    BY <1>2, <2>2, LenProperties
  <2> QED BY <2>1, <2>3
<1>7. w = u
  BY <1>3, <1>5, <1>6
<1> QED BY <1>7 DEF w, u, v

LEMMA CardBuilt ==
    ASSUME NEW n
    PROVE  Card(F!ViewChild(n)) /\ F!ViewChild(n).comp = F!Component(n) /\ F!ViewChild(n).id = n.id
BY DEF Card, Fields, F!ViewChild, F!View

LEMMA ViewBuilt ==
    ASSUME NEW flow, Accepted(flow)
    PROVE  Cards(F!BuildView(flow)) /\ F!BuildView(flow) = Built(flow, Len(flow))
<1>1. Len(flow) \in Nat /\ DOMAIN flow = 1..Len(flow)
  BY ListDomain DEF Accepted
<1>2. F!BuildView(flow) = Built(flow, Len(flow))
  BY <1>1 DEF F!BuildView, Built
<1>3. IsList(Built(flow, Len(flow))) /\ DOMAIN Built(flow, Len(flow)) = 1..Len(flow)
  BY <1>1, BuiltList DEF Built
<1>4. \A i \in 1..Len(flow) : Built(flow, Len(flow))[i] = F!ViewChild(flow[i])
  BY DEF Built
<1>5. \A i \in 1..Len(flow) : Card(F!ViewChild(flow[i]))
  BY CardBuilt
<1> QED BY <1>2, <1>3, <1>4, <1>5 DEF Cards

\* A view item looks like another.
SameLook(c, d) == (F!IsStep(c) <=> F!IsStep(d)) /\ (F!IsStep(c) => LookOf(c) = LookOf(d))

\* In a synchronised view what the flow knows looks as the flow has it.
Synced(view, flow) ==
    /\ IsList(view)
    /\ \A i \in DOMAIN view :
          /\ DOMAIN view[i] = Fields
          /\ \A k \in DOMAIN flow :
                view[i].id = flow[k].id => Card(view[i]) /\ SameLook(view[i], F!ViewChild(flow[k]))

LEMMA RefreshedFits ==
    ASSUME NEW c, Card(c), NEW n, c.id = n.id
    PROVE  /\ Card(F!Refreshed(c, n)) /\ F!Refreshed(c, n).id = c.id
           /\ SameLook(F!Refreshed(c, n), F!ViewChild(n))
<1> DEFINE r == F!Refreshed(c, n)
           d == F!ViewChild(n)
<1>1. Card(d) /\ d.comp = F!Component(n) /\ d.id = n.id
  BY CardBuilt
<1>2. CASE c.comp = F!Component(n) /\ n.type \in {"apply", "finish"}
  <2>1. r = c /\ c.comp = d.comp /\ c.id = d.id
    BY <1>1, <1>2 DEF F!Refreshed
  <2>2. F!IsStep(c) => F!Component(n) = "EndNode"
    BY <1>2 DEF F!IsStep, F!Component
  <2>3. F!IsStep(c) => c.comp = "EndNode" /\ d.comp = "EndNode"
    BY <1>1, <1>2, <2>1, <2>2
  <2>4. F!IsStep(c) => LookOf(c) = LookOf(d)
    BY <2>1, <2>3 DEF LookOf, F!Look
  <2>5. F!IsStep(c) <=> F!IsStep(d)
    BY <2>1 DEF F!IsStep
  <2> HIDE DEF r, d
  <2> QED BY <2>1, <2>4, <2>5 DEF r, d, SameLook
<1>3. CASE ~(c.comp = F!Component(n) /\ n.type \in {"apply", "finish"})
  <2>1. r = [d EXCEPT !.id = c.id]
    BY <1>3 DEF F!Refreshed
  <2>2. d = [id |-> n.id, comp |-> d.comp, cfg |-> d.cfg, kids |-> d.kids]
    BY DEF F!ViewChild, F!View
  <2> HIDE DEF d, r
  <2>3. r = d
    BY <2>1, <2>2
  <2> QED BY <1>1, <2>3 DEF r, d, SameLook
<1> QED BY <1>2, <1>3

LEMMA SyncSynced ==
    ASSUME NEW v, Cards(v), NEW flow, Accepted(flow)
    PROVE  Synced(F!Sync(v, flow), flow)
<1> DEFINE s == F!Sync(v, flow)
           B(i) == F!SyncBelow(v[i].kids, flow)
<1>1. Len(v) \in Nat /\ DOMAIN v = 1..Len(v) /\ \A i \in DOMAIN v : Card(v[i])
  BY ListDomain DEF Cards
<1>2. DOMAIN s = DOMAIN v /\ \A i \in DOMAIN v : s[i] = F!InSync(v[i], B(i), flow)
  BY DEF F!Sync
<1>3. IsList(s)
  <2>1. s = [i \in 1..Len(v) |-> s[i]]
    BY <1>1 DEF F!Sync
  <2> HIDE DEF s
  <2> QED BY <1>1, <2>1, ListMade
<1>4. ASSUME NEW i \in DOMAIN v, v[i].id \notin F!Ids(flow)
      PROVE  DOMAIN s[i] = Fields /\ s[i].id = v[i].id
  <2>1. s[i] = [v[i] EXCEPT !.kids = B(i)]
    BY <1>2, <1>4 DEF F!InSync
  <2>2. DOMAIN v[i] = Fields
    BY <1>1 DEF Card
  <2> HIDE DEF s, B
  <2> QED BY <2>1, <2>2 DEF Fields
<1>5. ASSUME NEW i \in DOMAIN v, v[i].id \in F!Ids(flow)
      PROVE  s[i] = F!Refreshed(v[i], F!NodeOf(flow, v[i].id))
  BY <1>2, <1>5 DEF F!InSync
<1>6. ASSUME NEW i \in DOMAIN v
      PROVE  DOMAIN s[i] = Fields /\ s[i].id = v[i].id
  <2>1. CASE v[i].id \notin F!Ids(flow)
    BY <1>4, <2>1
  <2>2. CASE v[i].id \in F!Ids(flow)
    <3> DEFINE n == F!NodeOf(flow, v[i].id)
               d == F!ViewChild(n)
    <3>1. s[i] = v[i] \/ s[i] = [d EXCEPT !.id = v[i].id]
      BY <1>5, <2>2 DEF F!Refreshed
    <3>2. DOMAIN v[i] = Fields
      BY <1>1 DEF Card
    <3>3. DOMAIN d = Fields
      BY DEF F!ViewChild, F!View, Fields
    <3> HIDE DEF s, d
    <3> QED BY <3>1, <3>2, <3>3 DEF Fields
  <2> QED BY <2>1, <2>2
<1>7. ASSUME NEW i \in DOMAIN v, NEW k \in DOMAIN flow, s[i].id = flow[k].id
      PROVE  Card(s[i]) /\ SameLook(s[i], F!ViewChild(flow[k]))
  <2>1. v[i].id = flow[k].id
    BY <1>6, <1>7
  <2>2. v[i].id \in F!Ids(flow) /\ F!NodeOf(flow, v[i].id) = flow[k]
    BY <2>1 DEF Accepted
  <2>3. s[i] = F!Refreshed(v[i], flow[k])
    BY <1>5, <2>2
  <2>4. Card(v[i])
    BY <1>1
  <2> HIDE DEF s
  <2> QED BY <2>1, <2>3, <2>4, RefreshedFits
<1> HIDE DEF s
<1>8. Synced(s, flow)
  BY <1>2, <1>3, <1>6, <1>7 DEF Synced
<1> QED BY <1>8 DEF s

---------------------------------------------------------------------------
(* The invariant                                                           *)

RunFields == {"pc", "flow", "view", "ordered", "turn", "draft", "reuse", "publish", "given", "declined",
              "report", "n"}

\* Every version is one of the engine with a view of the designer.
VersionsInv ==
    /\ IsList(versions) /\ Len(versions) >= 1
    /\ \A v \in DOMAIN versions : DOMAIN versions[v] = {"flow", "view"} /\ Cards(versions[v].view)

\* A run has a flow that was accepted, and a draft that exists or none.
RunInv ==
    /\ DOMAIN update = RunFields
    /\ update.draft \in {0} \cup 2..Len(versions)
    /\ update.pc # "idle" => Accepted(update.flow) /\ update.report = "none"
    /\ update.pc = "view" => update.ordered = <<>> /\ update.turn = 0
    /\ update.pc = "view" /\ update.reuse => update.draft # 0

\* What the merge has placed is the beginning of what would be built.
Turned(t, a) == IF t <= a THEN 0 ELSE t - a
OrderedInv ==
    update.pc = "merge" =>
        /\ Synced(update.view, update.flow) /\ Cards(update.ordered)
        /\ update.turn \in 0..Len(update.view) + Len(update.flow)
        /\ Alike(update.ordered, Built(update.flow, Turned(update.turn, Len(update.view))))

\* What is published has been saved, unless that was declined.
SavedInv ==
    /\ update.pc \in {"create", "save", "publish"} => Cards(update.view)
    /\ update.pc = "publish" /\ ~update.declined =>
          update.draft # 0 /\ (update.draft \in edited \/ versions[update.draft].flow = update.flow)

FlowInv == VersionsInv /\ RunInv /\ OrderedInv /\ SavedInv /\ F!PublishedAsGiven

LEMMA SourceCards == ASSUME NEW s \in SourceViews PROVE Cards(s)
<1>1. \A q \in SourceViews :
        q \in Seq(ViewNodes) /\ \A i \in DOMAIN q : DOMAIN q[i] = {"id", "comp", "cfg", "kids"}
  BY FlowAssumption
<1>2. s \in Seq(ViewNodes) /\ \A i \in DOMAIN s : Card(s[i])
  BY <1>1 DEF Card, Fields
<1>3. Len(s) \in Nat /\ s \in [1..Len(s) -> ViewNodes]
  BY <1>2, LenProperties
<1>4. s = [i \in 1..Len(s) |-> s[i]]
  BY <1>3
<1>5. IsList(s)
  BY <1>3, <1>4, ListMade
<1> QED BY <1>2, <1>5 DEF Cards

LEMMA FlowStarts == F!Init => FlowInv
<1> SUFFICES ASSUME F!Init PROVE FlowInv
  OBVIOUS
<1>1. PICK s \in SourceViews : versions = <<[flow |-> <<>>, view |-> s]>>
  BY DEF F!Init
<1>2. Len(versions) = 1 /\ DOMAIN versions = {1} /\ versions[1] = [flow |-> <<>>, view |-> s]
  BY <1>1
<1>3. Cards(s)
  BY SourceCards
<1>4. VersionsInv
  <2>1. versions = [i \in 1..1 |-> versions[i]]
    BY <1>1
  <2>2. IsList(versions)
    BY <2>1, ListMade
  <2>3. DOMAIN versions[1] = {"flow", "view"} /\ Cards(versions[1].view)
    BY <1>2, <1>3
  <2> QED BY <1>2, <2>2, <2>3 DEF VersionsInv
<1>5. /\ DOMAIN update = RunFields /\ update.pc = "idle" /\ update.draft = 0 /\ ~update.reuse
      /\ update.report = "none"
  BY DEF F!Init, F!Idle, RunFields
<1>6. RunInv /\ OrderedInv /\ SavedInv /\ F!PublishedAsGiven
  BY <1>5 DEF RunInv, OrderedInv, SavedInv, F!PublishedAsGiven, F!ViewShowsFlow, F!ReportedIsLive
<1> QED BY <1>4, <1>6 DEF FlowInv

\* A run that ends without a report of success promises nothing.
LEMMA FlowEnds ==
    ASSUME FlowInv, VersionsInv', DOMAIN update' = RunFields, update'.pc = "idle",
           update'.draft \in {0} \cup 2..Len(versions)',
           update'.report \in {"failed", "none"}
    PROVE  FlowInv'
BY DEF FlowInv, RunInv, OrderedInv, SavedInv, F!PublishedAsGiven, F!ViewShowsFlow, F!ReportedIsLive

LEMMA FailEnds ==
    ASSUME FlowInv, VersionsInv', Len(versions') >= Len(versions), Len(versions') \in Nat, F!Fail
    PROVE  FlowInv'
<1>1. /\ DOMAIN update' = RunFields /\ update'.pc = "idle" /\ update'.report = "failed"
      /\ update'.draft = update.draft
  BY DEF F!Fail, FlowInv, RunInv, RunFields
<1>2. update.draft \in {0} \cup 2..Len(versions) /\ Len(versions) \in Nat
  BY ListDomain DEF FlowInv, RunInv, VersionsInv
<1>3. update'.draft \in {0} \cup 2..Len(versions')
  BY <1>1, <1>2
<1> QED BY <1>1, <1>3, FlowEnds

LEMMA FlowBegins ==
    ASSUME FlowInv, F!Begin
    PROVE  FlowInv'
<1>1. PICK spec \in FlowSpecs, publish \in BOOLEAN, d \in {0} \cup (2..Len(versions)) :
        update' = IF F!Valid(F!Flow(spec))
                  THEN [F!Idle EXCEPT !.pc = "view", !.flow = F!Flow(spec), !.draft = d,
                                      !.reuse = d # 0, !.publish = publish, !.n = update.n + 1]
                  ELSE [F!Idle EXCEPT !.report = "failed", !.n = update.n + 1]
  BY DEF F!Begin
<1>2. UNCHANGED <<versions, live, edited>>
  BY DEF F!Begin
<1>3. VersionsInv'
  BY <1>2 DEF FlowInv, VersionsInv, Cards
<1>4. CASE F!Valid(F!Flow(spec))
  <2>1. /\ DOMAIN update' = RunFields /\ update'.pc = "view" /\ update'.flow = F!Flow(spec)
        /\ update'.draft = d /\ update'.reuse = (d # 0) /\ update'.report = "none"
        /\ update'.ordered = <<>> /\ update'.turn = 0
    BY <1>1, <1>4 DEF F!Idle, RunFields
  <2>2. Accepted(update'.flow)
    BY <1>4, <2>1, FlowAccepted
  <2>3. RunInv'
    BY <1>2, <2>1, <2>2 DEF RunInv
  <2>4. OrderedInv' /\ SavedInv' /\ F!PublishedAsGiven'
    BY <2>1 DEF OrderedInv, SavedInv, F!PublishedAsGiven, F!ViewShowsFlow, F!ReportedIsLive
  <2> QED BY <1>3, <2>3, <2>4 DEF FlowInv
<1>5. CASE ~F!Valid(F!Flow(spec))
  <2>1. /\ DOMAIN update' = RunFields /\ update'.pc = "idle" /\ update'.draft = 0
        /\ update'.reuse = FALSE /\ update'.report = "failed"
    BY <1>1, <1>5 DEF F!Idle, RunFields
  <2> QED BY <1>3, <2>1, FlowEnds
<1> QED BY <1>4, <1>5

\* The run goes on with a view that shows the flow, or need not.
LEMMA ViewKept ==
    ASSUME FlowInv, UNCHANGED <<versions, live, edited>>, update.pc # "idle",
           DOMAIN update' = RunFields, update'.pc \in {"create", "save"}, Cards(update'.view),
           update'.flow = update.flow, update'.draft = update.draft,
           update'.reuse = update.reuse, update'.report = update.report,
           ~update'.given /\ F!HasStep(update.flow) =>
               F!Shape(update'.view) = F!Shape(F!BuildView(update.flow))
    PROVE  FlowInv'
<1>1. VersionsInv'
  BY DEF FlowInv, VersionsInv, Cards
<1>2. RunInv'
  BY DEF FlowInv, RunInv, Accepted
<1>3. update.report = "none"
  BY DEF FlowInv, RunInv
<1>4. OrderedInv'
  BY DEF OrderedInv
<1>5. SavedInv'
  BY DEF SavedInv
<1>6. F!ViewShowsFlow'
  BY DEF F!ViewShowsFlow, F!HasStep
<1>7. F!ReportedIsLive'
  BY <1>3 DEF F!ReportedIsLive
<1> QED BY <1>1, <1>2, <1>4, <1>5, <1>6, <1>7 DEF FlowInv, F!PublishedAsGiven

LEMMA ViewingKeeps ==
    ASSUME FlowInv, UNCHANGED <<versions, live, edited>>, update.pc # "idle",
           NEW v, Cards(v), F!HasStep(update.flow) => F!Shape(v) = F!Shape(F!BuildView(update.flow)),
           F!Viewing(v)
    PROVE  FlowInv'
<1>1. /\ DOMAIN update' = RunFields /\ update'.pc \in {"create", "save"} /\ update'.view = v
      /\ update'.flow = update.flow /\ update'.draft = update.draft
      /\ update'.reuse = update.reuse /\ update'.report = update.report
  BY DEF F!Viewing, FlowInv, RunInv, RunFields
<1> QED BY <1>1, ViewKept

LEMMA ViewTaken ==
    ASSUME FlowInv, F!TakeView
    PROVE  FlowInv'
<1>1. PICK v \in SourceViews :
        update' = [update EXCEPT !.pc = IF update.reuse THEN "save" ELSE "create", !.view = v, !.given = TRUE]
  BY DEF F!TakeView
<1>2. update.pc # "idle" /\ UNCHANGED <<versions, live, edited>>
  BY DEF F!TakeView
<1>3. Cards(v)
  BY SourceCards
<1>4. /\ DOMAIN update' = RunFields /\ update'.pc \in {"create", "save"} /\ update'.view = v
      /\ update'.flow = update.flow /\ update'.draft = update.draft
      /\ update'.reuse = update.reuse /\ update'.report = update.report /\ update'.given
  BY <1>1 DEF FlowInv, RunInv, RunFields
<1> QED BY <1>2, <1>3, <1>4, ViewKept

LEMMA ViewLoads ==
    ASSUME FlowInv, F!LoadView
    PROVE  FlowInv'
<1>1. update.pc = "view" /\ UNCHANGED <<versions, live, edited>> /\ Accepted(update.flow)
  BY DEF F!LoadView, FlowInv, RunInv
<1>2. CASE F!Viewing(F!BuildView(update.flow))
  <2>1. Cards(F!BuildView(update.flow))
    BY <1>1, ViewBuilt
  <2> QED BY <1>1, <1>2, <2>1, ViewingKeeps
<1>3. CASE \E v \in {1} \cup IF update.reuse THEN {update.draft} ELSE {} :
             update' = [update EXCEPT !.pc = "merge", !.view = F!Sync(versions[v].view, update.flow)]
  <2>1. PICK v \in {1} \cup IF update.reuse THEN {update.draft} ELSE {} :
             update' = [update EXCEPT !.pc = "merge", !.view = F!Sync(versions[v].view, update.flow)]
    BY <1>3
  <2> DEFINE view == F!Sync(versions[v].view, update.flow)
  <2>2. v \in DOMAIN versions
    <3>1. Len(versions) \in Nat /\ Len(versions) >= 1 /\ DOMAIN versions = 1..Len(versions)
      BY ListDomain DEF FlowInv, VersionsInv
    <3>2. v = 1 \/ v \in 2..Len(versions)
      BY <1>1 DEF FlowInv, RunInv
    <3> QED BY <3>1, <3>2
  <2>3. Synced(view, update.flow)
    BY <1>1, <2>2, SyncSynced DEF FlowInv, VersionsInv
  <2>4. update.ordered = <<>> /\ update.turn = 0
    BY <1>1 DEF FlowInv, RunInv
  <2>5. /\ DOMAIN update' = RunFields /\ update'.pc = "merge" /\ update'.view = view
        /\ update'.flow = update.flow /\ update'.draft = update.draft
        /\ update'.reuse = update.reuse /\ update'.report = update.report
        /\ update'.ordered = <<>> /\ update'.turn = 0
    BY <2>1, <2>4 DEF FlowInv, RunInv, RunFields
  <2>6. VersionsInv'
    BY <1>1 DEF FlowInv, VersionsInv, Cards
  <2>7. RunInv'
    BY <1>1, <2>5 DEF FlowInv, RunInv, Accepted
  <2>8. OrderedInv'
    <3>1. Synced(update'.view, update'.flow)
      BY <2>3, <2>5
    <3>2. Cards(update'.ordered)
      BY <2>5, ListOfNothing DEF Cards
    <3>3. Len(view) \in Nat /\ Len(update.flow) \in Nat
      BY <1>1, <2>3, ListDomain DEF Synced, Accepted
    <3> HIDE DEF view
    <3>4. update'.turn \in 0..Len(update'.view) + Len(update'.flow)
          /\ Turned(update'.turn, Len(update'.view)) = 0
      BY <2>5, <3>3 DEF Turned
    <3>5. Built(update'.flow, 0) = <<>>
      BY DEF Built
    <3>6. Alike(update'.ordered, Built(update'.flow, Turned(update'.turn, Len(update'.view))))
      BY <2>5, <3>4, <3>5 DEF Alike
    <3> QED BY <3>1, <3>2, <3>4, <3>6 DEF OrderedInv
  <2>9. SavedInv' /\ F!PublishedAsGiven'
    <3>1. update.report = "none"
      BY <1>1 DEF FlowInv, RunInv
    <3> QED BY <2>5, <3>1 DEF SavedInv, F!PublishedAsGiven, F!ViewShowsFlow, F!ReportedIsLive
  <2> QED BY <2>6, <2>7, <2>8, <2>9 DEF FlowInv
<1> QED BY <1>1, <1>2, <1>3 DEF F!LoadView

\* A turn of the merge: what stays as it is, and what has to be shown.
LEMMA TurnNumbers ==
    ASSUME NEW a \in Nat, NEW b \in Nat, NEW t \in 0..a + b
    PROVE  /\ t \in Nat /\ t <= a + b
           /\ t < a + b => t + 1 \in 0..a + b
           /\ t < a => t < a + b /\ t + 1 \in 1..a /\ t + 1 <= a /\ t <= a
                    /\ Turned(t, a) = 0 /\ Turned(t + 1, a) = 0
           /\ t <= a => Turned(t, a) = 0
           /\ t = a + b => Turned(t, a) = b
           /\ t \in a .. a + b - 1 =>
                 /\ t < a + b /\ t - a \in Nat /\ t - a + 1 \in 1..b
                 /\ Turned(t, a) = t - a /\ Turned(t + 1, a) = t - a + 1
BY DEF Turned

LEMMA TurnKeeps ==
    ASSUME FlowInv, UNCHANGED <<versions, live, edited>>, update.pc = "merge",
           update.turn < Len(update.view) + Len(update.flow),
           NEW o, Cards(o), update' = [update EXCEPT !.turn = @ + 1, !.ordered = o],
           Alike(o, Built(update.flow, Turned(update.turn + 1, Len(update.view))))
    PROVE  FlowInv'
<1>1. /\ DOMAIN update' = RunFields /\ update'.pc = "merge" /\ update'.view = update.view
      /\ update'.flow = update.flow /\ update'.draft = update.draft
      /\ update'.reuse = update.reuse /\ update'.report = update.report
      /\ update'.ordered = o /\ update'.turn = update.turn + 1
  BY DEF FlowInv, RunInv, RunFields
<1>2. VersionsInv'
  BY DEF FlowInv, VersionsInv, Cards
<1>3. RunInv'
  BY <1>1 DEF FlowInv, RunInv, Accepted
<1>4. OrderedInv'
  <2>1. Synced(update.view, update.flow) /\ update.turn \in 0..Len(update.view) + Len(update.flow)
    BY DEF FlowInv, OrderedInv
  <2>2. Len(update.view) \in Nat /\ Len(update.flow) \in Nat
    BY <2>1, ListDomain DEF Synced, FlowInv, RunInv, Accepted
  <2>3. update.turn + 1 \in 0..Len(update.view) + Len(update.flow)
    BY <2>1, <2>2, TurnNumbers
  <2>5. Alike(update'.ordered, Built(update'.flow, Turned(update'.turn, Len(update'.view))))
    BY <1>1
  <2> QED BY <1>1, <2>1, <2>3, <2>5 DEF OrderedInv
<1>5. SavedInv' /\ F!PublishedAsGiven'
  <2>1. update.report = "none"
    BY DEF FlowInv, RunInv
  <2> QED BY <1>1, <2>1 DEF SavedInv, F!PublishedAsGiven, F!ViewShowsFlow, F!ReportedIsLive
<1> QED BY <1>2, <1>3, <1>4, <1>5 DEF FlowInv

LEMMA MergeFacts ==
    ASSUME FlowInv, update.pc = "merge"
    PROVE  /\ Len(update.view) \in Nat /\ Len(update.flow) \in Nat /\ update.turn \in Nat
           /\ DOMAIN update.view = 1..Len(update.view)
           /\ DOMAIN update.flow = 1..Len(update.flow)
           /\ Synced(update.view, update.flow) /\ Accepted(update.flow)
           /\ Cards(update.ordered) /\ IsList(update.ordered)
           /\ update.turn <= Len(update.view) + Len(update.flow)
           /\ update.turn \in 0..Len(update.view) + Len(update.flow)
           /\ Alike(update.ordered, Built(update.flow, Turned(update.turn, Len(update.view))))
<1>1. /\ Synced(update.view, update.flow) /\ Cards(update.ordered)
      /\ update.turn \in 0..Len(update.view) + Len(update.flow)
      /\ Alike(update.ordered, Built(update.flow, Turned(update.turn, Len(update.view))))
  BY DEF FlowInv, OrderedInv
<1>2. Accepted(update.flow)
  BY DEF FlowInv, RunInv
<1>3. IsList(update.view) /\ IsList(update.flow) /\ IsList(update.ordered)
  BY <1>1, <1>2 DEF Synced, Accepted, Cards
<1>4. /\ Len(update.view) \in Nat /\ DOMAIN update.view = 1..Len(update.view)
      /\ Len(update.flow) \in Nat /\ DOMAIN update.flow = 1..Len(update.flow)
  BY <1>3, ListDomain
<1>5. update.turn \in Nat /\ update.turn <= Len(update.view) + Len(update.flow)
  BY <1>1, <1>4, TurnNumbers
<1> QED BY <1>1, <1>2, <1>3, <1>4, <1>5

LEMMA CardsAppend ==
    ASSUME NEW v, Cards(v), NEW c, Card(c)
    PROVE  Cards(Append(v, c))
<1> DEFINE w == Append(v, c)
<1>1. Len(v) \in Nat /\ DOMAIN v = 1..Len(v) /\ \A i \in 1..Len(v) : Card(v[i])
  BY ListDomain DEF Cards
<1>2. /\ IsList(w) /\ DOMAIN w = 1..(Len(v) + 1)
      /\ w[Len(v) + 1] = c /\ \A i \in 1..Len(v) : w[i] = v[i]
  BY ListAppend, ListDomain DEF Cards
<1>3. \A i : i \in 1..(Len(v) + 1) <=> i \in 1..Len(v) \/ i = Len(v) + 1
  BY <1>1
<1> HIDE DEF w
<1>4. Cards(w)
  BY <1>1, <1>2, <1>3 DEF Cards
<1> QED BY <1>4 DEF w

LEMMA StartKept ==
    ASSUME FlowInv, F!KeepStart
    PROVE  FlowInv'
<1> DEFINE child == update.view[update.turn + 1]
           o == IF child.comp = "ApplyNode" /\ child.id \notin F!Ids(update.flow)
                THEN Append(update.ordered, child) ELSE update.ordered
<1>1. /\ update.pc = "merge" /\ update.turn < Len(update.view)
      /\ UNCHANGED <<versions, live, edited>>
      /\ update' = [update EXCEPT !.turn = @ + 1, !.ordered = o]
  BY DEF F!KeepStart
<1>2. /\ Len(update.view) \in Nat /\ Len(update.flow) \in Nat /\ update.turn \in Nat
      /\ update.turn + 1 \in DOMAIN update.view
      /\ update.turn < Len(update.view) + Len(update.flow)
      /\ Turned(update.turn, Len(update.view)) = 0 /\ Turned(update.turn + 1, Len(update.view)) = 0
  BY <1>1, MergeFacts, TurnNumbers
<1>3. Alike(update.ordered, Built(update.flow, 0)) /\ Cards(update.ordered) /\ IsList(update.ordered)
  BY <1>1, <1>2, MergeFacts
<1>4. Cards(o) /\ Alike(o, Built(update.flow, 0))
  <2>1. CASE child.comp = "ApplyNode" /\ child.id \notin F!Ids(update.flow)
    <3>1. o = Append(update.ordered, child)
      BY <2>1
    <3>2. Card(child) /\ ~F!IsStep(child)
      <4>1. DOMAIN child = Fields
        BY <1>1, <1>2, MergeFacts DEF Synced
      <4> QED BY <2>1, <4>1 DEF Card, F!IsStep
    <3>3. IsList(Built(update.flow, 0))
      BY BuiltList
    <3> HIDE DEF o, child
    <3> QED BY <1>3, <3>1, <3>2, <3>3, CardsAppend, AlikeStart
  <2>2. CASE ~(child.comp = "ApplyNode" /\ child.id \notin F!Ids(update.flow))
    BY <1>3, <2>2
  <2> QED BY <2>1, <2>2
<1> HIDE DEF o
<1>5. Alike(o, Built(update.flow, Turned(update.turn + 1, Len(update.view))))
  BY <1>2, <1>4
<1> QED BY <1>1, <1>2, <1>4, <1>5, TurnKeeps

LEMMA NodePlaced ==
    ASSUME FlowInv, F!PlaceNode
    PROVE  FlowInv'
<1> DEFINE k == update.turn - Len(update.view)
           node == update.flow[k + 1]
           item == F!ViewChild(node)
           existing == {i \in DOMAIN update.view : update.view[i].id = node.id}
           Then(o) == update' = [update EXCEPT !.turn = @ + 1, !.ordered = o]
<1>1. /\ update.pc = "merge" /\ UNCHANGED <<versions, live, edited>>
      /\ update.turn \in Len(update.view) .. Len(update.view) + Len(update.flow) - 1
      /\ \/ \E last \in existing : Then(Append(update.ordered, update.view[last]))
         \/ existing = {} /\ Then(IF node.type = "apply" THEN update.ordered
                                  ELSE Append(update.ordered, item))
  BY DEF F!PlaceNode
<1>2. /\ Len(update.view) \in Nat /\ Len(update.flow) \in Nat /\ update.turn \in Nat
      /\ k \in Nat /\ k + 1 \in DOMAIN update.flow
      /\ update.turn < Len(update.view) + Len(update.flow)
      /\ Turned(update.turn, Len(update.view)) = k /\ Turned(update.turn + 1, Len(update.view)) = k + 1
  BY <1>1, MergeFacts, TurnNumbers
<1>3. Alike(update.ordered, Built(update.flow, k)) /\ Cards(update.ordered) /\ IsList(update.ordered)
  BY <1>1, <1>2, MergeFacts
<1>4. Built(update.flow, k + 1) = Append(Built(update.flow, k), item) /\ IsList(Built(update.flow, k))
  BY <1>2, BuiltNext, BuiltList
<1>5. ASSUME NEW o, Then(o), Cards(o), Alike(o, Built(update.flow, k + 1))
      PROVE  FlowInv'
  <2> HIDE DEF k
  <2>1. Alike(o, Built(update.flow, Turned(update.turn + 1, Len(update.view))))
    BY <1>2, <1>5
  <2> QED BY <1>1, <1>2, <1>5, <2>1, TurnKeeps
<1>6. ASSUME NEW c, Card(c), SameLook(c, item), Then(Append(update.ordered, c))
      PROVE  FlowInv'
  <2> DEFINE o == Append(update.ordered, c)
  <2>1. Cards(o)
    BY <1>3, <1>6, CardsAppend
  <2>2. Alike(o, Built(update.flow, k + 1))
    <3> HIDE DEF k, item
    <3> QED BY <1>3, <1>4, <1>6, AlikeNext DEF SameLook
  <2> HIDE DEF o, k
  <2> QED BY <1>5, <1>6, <2>1, <2>2 DEF o
<1>7. Card(item) /\ SameLook(item, item) /\ item.comp = F!Component(node)
  BY CardBuilt DEF SameLook
<1>8. CASE \E last \in existing : Then(Append(update.ordered, update.view[last]))
  <2>1. PICK last \in existing : Then(Append(update.ordered, update.view[last]))
    BY <1>8
  <2>2. last \in DOMAIN update.view /\ update.view[last].id = node.id
    OBVIOUS
  <2>3. Card(update.view[last]) /\ SameLook(update.view[last], item)
    <3> HIDE DEF k
    <3> QED BY <1>1, <1>2, <2>2, MergeFacts DEF Synced
  <2> HIDE DEF item, existing, Then
  <2> QED BY <1>6, <2>1, <2>3
<1>9. CASE existing = {} /\ Then(IF node.type = "apply" THEN update.ordered
                                 ELSE Append(update.ordered, item))
  <2>1. CASE node.type = "apply"
    <3>1. ~F!IsStep(item)
      BY <1>7, <2>1 DEF F!IsStep, F!Component
    <3>2. Then(update.ordered)
      BY <1>9, <2>1
    <3>3. Alike(update.ordered, Built(update.flow, k + 1))
      <4> HIDE DEF k, item
      <4> QED BY <1>3, <1>4, <3>1, AlikeStart
    <3> HIDE DEF Then
    <3> QED BY <1>3, <1>5, <3>2, <3>3
  <2>2. CASE node.type # "apply"
    <3>1. Then(Append(update.ordered, item))
      BY <1>9, <2>2
    <3> HIDE DEF Then, item
    <3> QED BY <1>6, <1>7, <3>1
  <2> QED BY <2>1, <2>2
<1> HIDE DEF Then, existing
<1> QED BY <1>1, <1>8, <1>9

\* Something has been placed when all is.
LEMMA MergeEnds ==
    ASSUME FlowInv, F!Merged
    PROVE  FlowInv'
<1>1. /\ update.pc = "merge" /\ update.turn = Len(update.view) + Len(update.flow)
      /\ UNCHANGED <<versions, live, edited>>
      /\ F!Viewing(IF update.ordered = <<>> THEN update.view ELSE update.ordered)
  BY DEF F!Merged
<1>2. Alike(update.ordered, F!BuildView(update.flow))
  <2>1. Turned(update.turn, Len(update.view)) = Len(update.flow)
    <3> DEFINE t == update.turn
               a == Len(update.view)
               b == Len(update.flow)
    <3>1. a \in Nat /\ b \in Nat /\ t \in 0..a + b /\ t = a + b
      BY <1>1, MergeFacts
    <3> HIDE DEF t, a, b
    <3>2. Turned(t, a) = b
      BY <3>1, TurnNumbers
    <3> QED BY <3>2 DEF t, a, b
  <2> QED BY <1>1, <2>1, MergeFacts, ViewBuilt
<1>3. F!HasStep(update.flow) => update.ordered # <<>>
  <2> HAVE F!HasStep(update.flow)
  <2>1. PICK i \in DOMAIN update.flow : F!IsStep(F!ViewChild(update.flow[i]))
    BY DEF F!HasStep
  <2>2. F!Shape(F!BuildView(update.flow)) # {}
    <3> DEFINE b == F!BuildView(update.flow)
    <3>1. i \in DOMAIN b /\ F!IsStep(b[i])
      BY <2>1 DEF F!BuildView
    <3> HIDE DEF b
    <3>2. <<F!Place(b, i), F!Look(b[i], F!Shaped[b[i].kids])>> \in F!Shape(b)
      BY <3>1 DEF F!Shape
    <3> QED BY <3>2 DEF b
  <2>3. F!Shape(update.ordered) # {}
    BY <1>2, <2>2 DEF Alike
  <2> QED BY <2>3, ShapeOfNothing
<1>4. CASE update.ordered # <<>>
  <2>1. F!Viewing(update.ordered) /\ Cards(update.ordered)
        /\ F!Shape(update.ordered) = F!Shape(F!BuildView(update.flow))
    BY <1>1, <1>2, <1>4, MergeFacts DEF Alike
  <2> QED BY <1>1, <2>1, ViewingKeeps
<1>5. CASE update.ordered = <<>>
  <2>1. F!Viewing(update.view) /\ ~F!HasStep(update.flow)
    BY <1>1, <1>3, <1>5
  <2>2. Cards(update.view)
    BY <1>1, MergeFacts DEF Synced, Cards, Card
  <2> QED BY <1>1, <2>1, <2>2, ViewingKeeps
<1> QED BY <1>4, <1>5

\* A run goes on with a draft.
LEMMA DraftTaken ==
    ASSUME FlowInv, update.pc = "create", VersionsInv', NEW id \in {0} \cup 2..Len(versions'),
           DOMAIN update' = RunFields, update'.pc = "save", update'.view = update.view,
           update'.flow = update.flow, update'.draft = id, update'.given = update.given,
           update'.report = update.report, update'.reuse = update.reuse
    PROVE  FlowInv'
<1>1. Accepted(update.flow) /\ update.report = "none" /\ Cards(update.view)
      /\ (~update.given /\ F!HasStep(update.flow) =>
             F!Shape(update.view) = F!Shape(F!BuildView(update.flow)))
  BY DEF FlowInv, RunInv, SavedInv, F!PublishedAsGiven, F!ViewShowsFlow
<1>2. RunInv'
  BY <1>1 DEF RunInv, Accepted
<1>3. OrderedInv' /\ SavedInv'
  BY <1>1 DEF OrderedInv, SavedInv
<1>4. F!PublishedAsGiven'
  BY <1>1 DEF F!PublishedAsGiven, F!ViewShowsFlow, F!ReportedIsLive, F!HasStep
<1> QED BY <1>2, <1>3, <1>4 DEF FlowInv

LEMMA DraftCreated ==
    ASSUME FlowInv, F!CreateDraft
    PROVE  FlowInv'
<1>1. /\ update.pc = "create" /\ UNCHANGED <<live, edited>>
      /\ Len(versions) \in Nat /\ Len(versions) >= 1 /\ IsList(versions)
      /\ DOMAIN versions = 1..Len(versions)
      /\ \A v \in DOMAIN versions : DOMAIN versions[v] = {"flow", "view"} /\ Cards(versions[v].view)
  BY ListDomain DEF F!CreateDraft, FlowInv, VersionsInv
<1>2. CASE F!Fail /\ UNCHANGED versions
  <2>1. VersionsInv'
    BY <1>2 DEF FlowInv, VersionsInv, Cards
  <2>2. Len(versions') = Len(versions)
    BY <1>2
  <2> QED BY <1>1, <1>2, <2>1, <2>2, FailEnds
<1>4. CASE update' = [update EXCEPT !.pc = "save", !.draft = 0, !.declined = TRUE] /\ UNCHANGED versions
  <2>1. VersionsInv'
    BY <1>4 DEF FlowInv, VersionsInv, Cards
  <2>2. /\ DOMAIN update' = RunFields /\ update'.pc = "save" /\ update'.view = update.view
        /\ update'.flow = update.flow /\ update'.draft = 0 /\ update'.given = update.given
        /\ update'.report = update.report /\ update'.reuse = update.reuse
    BY <1>4 DEF FlowInv, RunInv, RunFields
  <2> QED BY <1>1, <2>1, <2>2, DraftTaken
<1>3. CASE versions' = Append(versions, versions[1])
  <2> DEFINE n == Len(versions)
  <2>1. /\ IsList(versions') /\ Len(versions') = n + 1
        /\ versions'[n + 1] = versions[1]
        /\ \A v \in 1..n : versions'[v] = versions[v]
    BY <1>1, <1>3, ListAppend
  <2>2. DOMAIN versions' = 1..(n + 1)
    BY <2>1, ListDomain
  <2>3. \A v : v \in 1..(n + 1) <=> v \in 1..n \/ v = n + 1
    BY <1>1
  <2>4. \A v \in 1..n : DOMAIN versions[v] = {"flow", "view"} /\ Cards(versions[v].view)
    BY <1>1
  <2>5. DOMAIN versions[1] = {"flow", "view"} /\ Cards(versions[1].view)
    BY <1>1
  <2>6. ASSUME NEW v \in DOMAIN versions'
        PROVE  DOMAIN versions'[v] = {"flow", "view"} /\ Cards(versions'[v].view)
    <3>1. v \in 1..n \/ v = n + 1
      BY <2>2, <2>3
    <3>2. versions'[v] = versions[1] \/ (v \in 1..n /\ versions'[v] = versions[v])
      BY <2>1, <3>1
    <3> QED BY <2>4, <2>5, <3>2
  <2>7. VersionsInv'
    <3>1. n + 1 >= 1
      BY <1>1
    <3>2. IsList(versions') /\ Len(versions') >= 1
      BY <2>1, <3>1
    <3> QED BY <2>6, <3>2 DEF VersionsInv
  <2>8. CASE F!Fail
    <3>1. Len(versions') >= Len(versions) /\ Len(versions') \in Nat
      BY <1>1, <2>1
    <3> QED BY <2>7, <2>8, <3>1, FailEnds
  <2>9. CASE \E id \in {n + 1, 0} : update' = [update EXCEPT !.pc = "save", !.draft = id]
    <3>1. PICK id \in {n + 1, 0} : update' = [update EXCEPT !.pc = "save", !.draft = id]
      BY <2>9
    <3>2. /\ DOMAIN update' = RunFields /\ update'.pc = "save" /\ update'.view = update.view
          /\ update'.flow = update.flow /\ update'.draft = id /\ update'.given = update.given
          /\ update'.report = update.report /\ update'.reuse = update.reuse
      BY <3>1 DEF FlowInv, RunInv, RunFields
    <3>3. id \in {0} \cup 2..Len(versions')
      BY <1>1, <2>1
    <3> QED BY <1>1, <2>7, <3>2, <3>3, DraftTaken
  <2> QED BY <1>3, <1>4, <2>8, <2>9 DEF F!CreateDraft
<1> QED BY <1>2, <1>3, <1>4 DEF F!CreateDraft

\* A version that is replaced by one of a flow and a view.
LEMMA VersionReplaced ==
    ASSUME VersionsInv, NEW d \in 2..Len(versions), NEW r,
           DOMAIN r = {"flow", "view"}, Cards(r.view), versions' = [versions EXCEPT ![d] = r]
    PROVE  /\ VersionsInv' /\ Len(versions') = Len(versions) /\ versions'[d] = r
           /\ \A v \in DOMAIN versions : v # d => versions'[v] = versions[v]
           /\ d \in DOMAIN versions
<1> DEFINE n == Len(versions)
<1>1. n \in Nat /\ n >= 1 /\ DOMAIN versions = 1..n
  BY ListDomain DEF VersionsInv
<1>2. d \in 1..n
  BY <1>1
<1>3. versions' = [v \in 1..n |-> IF v = d THEN r ELSE versions[v]]
  BY <1>1
<1>4. versions'[d] = r /\ \A v \in 1..n : v # d => versions'[v] = versions[v]
  BY <1>2, <1>3
<1>5. IsList(versions') /\ Len(versions') = n
  <2>1. versions' = [v \in 1..n |-> versions'[v]]
    BY <1>3
  <2> HIDE DEF n
  <2> QED BY <1>1, <2>1, ListMade
<1>6. DOMAIN versions' = 1..n
  BY <1>3
<1>7. ASSUME NEW v \in DOMAIN versions'
      PROVE  DOMAIN versions'[v] = {"flow", "view"} /\ Cards(versions'[v].view)
  <2>1. CASE v = d
    BY <1>4, <2>1
  <2>2. CASE v # d
    BY <1>1, <1>4, <1>6, <2>2 DEF VersionsInv
  <2> QED BY <2>1, <2>2
<1>8. VersionsInv'
  BY <1>1, <1>5, <1>7 DEF VersionsInv
<1> QED BY <1>1, <1>2, <1>4, <1>5, <1>8

\* A run whose save was answered: the draft has its flow, or it was declined.
LEMMA SaveBelieved ==
    ASSUME FlowInv, update.pc = "save", VersionsInv', Len(versions') = Len(versions), NEW declined,
           F!SavedGoes(declined), ~declined => update.draft # 0 /\ versions'[update.draft].flow = update.flow
    PROVE  FlowInv'
<1>1. /\ Cards(update.view) /\ Accepted(update.flow) /\ update.report = "none" /\ DOMAIN update = RunFields
      /\ update.draft \in {0} \cup 2..Len(versions')
      /\ ~update.given /\ F!HasStep(update.flow) => F!Shape(update.view) = F!Shape(F!BuildView(update.flow))
  BY DEF FlowInv, RunInv, SavedInv, F!PublishedAsGiven, F!ViewShowsFlow
<1>2. /\ DOMAIN update' = RunFields /\ update'.pc \in {"publish", "idle"}
      /\ update'.view = update.view /\ update'.flow = update.flow /\ update'.draft = update.draft
      /\ update'.given = update.given /\ (~update'.declined => ~declined)
      /\ update'.report \in {"none", "saved"}
      /\ update'.pc = "publish" => update'.report = "none"
  BY <1>1 DEF F!SavedGoes, F!Goes, RunFields
<1>3. RunInv'
  BY <1>1, <1>2 DEF RunInv, Accepted
<1>4. OrderedInv'
  BY <1>2 DEF OrderedInv
<1>5. SavedInv'
  BY <1>1, <1>2 DEF SavedInv
<1>6. F!ViewShowsFlow'
  BY <1>1, <1>2 DEF F!ViewShowsFlow, F!HasStep
<1>7. F!ReportedIsLive'
  BY <1>2 DEF F!ReportedIsLive
<1> QED BY <1>3, <1>4, <1>5, <1>6, <1>7 DEF FlowInv, F!PublishedAsGiven

LEMMA DraftSaved ==
    ASSUME FlowInv, F!SaveDraft
    PROVE  FlowInv'
<1>1. /\ update.pc = "save" /\ VersionsInv /\ Len(versions) \in Nat /\ Cards(update.view)
  BY ListDomain DEF F!SaveDraft, FlowInv, VersionsInv, SavedInv
<1>2. CASE (F!Fail \/ F!SavedGoes(TRUE)) /\ UNCHANGED <<versions, edited>>
  <2>1. VersionsInv'
    BY <1>1, <1>2 DEF VersionsInv, Cards
  <2>2. Len(versions') = Len(versions)
    BY <1>2
  <2>3. CASE F!Fail
    BY <1>1, <2>1, <2>2, <2>3, FailEnds
  <2>4. CASE F!SavedGoes(TRUE)
    BY <1>1, <2>1, <2>2, <2>4, SaveBelieved
  <2> QED BY <1>2, <2>3, <2>4
<1>3. CASE /\ update.draft # 0 /\ versions' = F!Saved /\ edited' = edited \ {update.draft}
           /\ F!Fail \/ F!SavedGoes(FALSE)
  <2> DEFINE d == update.draft
             r == [flow |-> update.flow, view |-> update.view]
  <2>1. d \in 2..Len(versions)
    BY <1>3 DEF FlowInv, RunInv
  <2>2. DOMAIN r = {"flow", "view"} /\ r.flow = update.flow /\ r.view = update.view
    OBVIOUS
  <2>3. versions' = [versions EXCEPT ![d] = r]
    BY <1>3 DEF F!Saved
  <2> HIDE DEF d, r
  <2>4. /\ VersionsInv' /\ Len(versions') = Len(versions)
        /\ versions'[d].flow = update.flow
    BY <1>1, <2>1, <2>2, <2>3, VersionReplaced
  <2>5. CASE F!Fail
    BY <1>1, <2>4, <2>5, FailEnds
  <2>6. CASE F!SavedGoes(FALSE)
    BY <1>1, <1>3, <2>4, <2>6, SaveBelieved DEF d
  <2> QED BY <1>3, <2>5, <2>6
<1> QED BY <1>2, <1>3 DEF F!SaveDraft

LEMMA FlowPublished ==
    ASSUME FlowInv, F!Publish
    PROVE  FlowInv'
<1>1. /\ update.pc = "publish" /\ UNCHANGED <<versions, edited>> /\ VersionsInv
      /\ Len(versions) \in Nat /\ DOMAIN update = RunFields
      /\ update.draft \in {0} \cup 2..Len(versions)
      /\ ~update.declined =>
            update.draft # 0 /\ (update.draft \in edited \/ versions[update.draft].flow = update.flow)
  BY ListDomain DEF F!Publish, FlowInv, VersionsInv, RunInv, SavedInv
<1>2. VersionsInv' /\ Len(versions') = Len(versions)
  BY <1>1 DEF VersionsInv, Cards
<1>3. CASE F!Fail
  BY <1>1, <1>2, <1>3, FailEnds
<1>4. ASSUME NEW declined, F!Goes("idle", "published", declined), declined \/ live' = update.draft
      PROVE  FlowInv'
  <2>1. /\ DOMAIN update' = RunFields /\ update'.pc = "idle" /\ update'.flow = update.flow
        /\ update'.draft = update.draft /\ update'.report = "published"
        /\ ~update'.declined => ~update.declined /\ ~declined
    BY <1>1, <1>4 DEF F!Goes, RunFields
  <2>2. RunInv'
    BY <1>1, <1>2, <2>1 DEF RunInv
  <2>3. OrderedInv' /\ SavedInv' /\ F!ViewShowsFlow'
    BY <2>1 DEF OrderedInv, SavedInv, F!ViewShowsFlow
  <2>4. F!ReportedIsLive'
    BY <1>1, <1>4, <2>1 DEF F!ReportedIsLive
  <2> QED BY <1>2, <2>2, <2>3, <2>4 DEF FlowInv, F!PublishedAsGiven
<1> QED BY <1>3, <1>4 DEF F!Publish

LEMMA FlowDesigned ==
    ASSUME FlowInv, F!Designer
    PROVE  FlowInv'
<1>1. PICK d \in 2..Len(versions) :
        /\ edited' = edited \cup {d}
        /\ versions' = [versions EXCEPT ![d].flow = <<>>, ![d].view = versions[1].view]
  BY DEF F!Designer
<1>2. UNCHANGED <<live, update>> /\ VersionsInv
  BY DEF F!Designer, FlowInv
<1> DEFINE n == Len(versions)
           r == [[versions[d] EXCEPT !.flow = <<>>] EXCEPT !.view = versions[1].view]
<1>3. n \in Nat /\ n >= 1 /\ DOMAIN versions = 1..n /\ d \in 1..n /\ 1 \in 1..n
  BY <1>2, ListDomain DEF VersionsInv
<1>4. DOMAIN r = {"flow", "view"} /\ Cards(r.view)
  <2>1. DOMAIN versions[d] = {"flow", "view"} /\ Cards(versions[1].view)
    BY <1>2, <1>3 DEF VersionsInv
  <2>2. r.view = versions[1].view
    BY <2>1
  <2> QED BY <2>1, <2>2
<1>5. versions' = [versions EXCEPT ![d] = r]
  BY <1>1, <1>3
<1> HIDE DEF r
<1>6. /\ VersionsInv' /\ Len(versions') = Len(versions)
      /\ \A v \in DOMAIN versions : v # d => versions'[v] = versions[v]
  BY <1>2, <1>4, <1>5, VersionReplaced
<1>7. RunInv'
  BY <1>2, <1>6 DEF FlowInv, RunInv, Accepted
<1>8. OrderedInv'
  BY <1>2 DEF FlowInv, OrderedInv, Synced, Cards, Alike
<1>9. update.draft # 0 => update.draft \in DOMAIN versions
  BY <1>3 DEF FlowInv, RunInv
<1>10. SavedInv'
  BY <1>1, <1>2, <1>6, <1>9 DEF FlowInv, SavedInv, Cards
<1>11. F!ViewShowsFlow'
  BY <1>2 DEF FlowInv, F!PublishedAsGiven, F!ViewShowsFlow, F!HasStep
<1>12. F!ReportedIsLive'
  BY <1>1, <1>2, <1>6, <1>9 DEF FlowInv, F!PublishedAsGiven, F!ReportedIsLive
<1> QED BY <1>6, <1>7, <1>8, <1>10, <1>11, <1>12 DEF FlowInv, F!PublishedAsGiven

LEMMA FlowRests ==
    ASSUME FlowInv, UNCHANGED F!vars
    PROVE  FlowInv'
<1>1. versions' = versions /\ live' = live /\ edited' = edited /\ update' = update
  BY DEF F!vars
<1>2. VersionsInv' /\ RunInv'
  BY <1>1 DEF FlowInv, VersionsInv, RunInv, Cards, Accepted
<1>3. OrderedInv' /\ SavedInv'
  BY <1>1 DEF FlowInv, OrderedInv, SavedInv, Synced, Cards, Alike
<1>4. F!PublishedAsGiven'
  BY <1>1 DEF FlowInv, F!PublishedAsGiven, F!ViewShowsFlow, F!ReportedIsLive, F!HasStep
<1> QED BY <1>2, <1>3, <1>4 DEF FlowInv

\* For any flows, any views of the designer and any number of runs: what a run
\* saves as the view has the flow's steps in their order and nesting, unless the
\* caller gave the view or the flow has no step; and what a run reports as saved
\* or published is the flow it was given, unless somebody has changed that draft
\* in the designer since or the service declined with exit code 0 (main of
\* yida_process_update.py, merge_process_view_schema).
THEOREM FlowsPublished == F!Spec => []PublishedAsGiven
<1>1. F!Init => FlowInv
  BY FlowStarts
<1>2. FlowInv /\ [F!Next]_(F!vars) => FlowInv'
  <2> SUFFICES ASSUME FlowInv, [F!Next]_(F!vars) PROVE FlowInv'
    OBVIOUS
  <2>1. CASE F!Begin
    BY <2>1, FlowBegins
  <2>2. CASE F!LoadView \/ F!TakeView
    BY <2>2, ViewLoads, ViewTaken
  <2>3. CASE F!KeepStart
    BY <2>3, StartKept
  <2>4. CASE F!PlaceNode
    BY <2>4, NodePlaced
  <2>5. CASE F!Merged
    BY <2>5, MergeEnds
  <2>6. CASE F!CreateDraft
    BY <2>6, DraftCreated
  <2>7. CASE F!SaveDraft
    BY <2>7, DraftSaved
  <2>8. CASE F!Publish
    BY <2>8, FlowPublished
  <2>9. CASE F!Designer
    BY <2>9, FlowDesigned
  <2>10. CASE UNCHANGED F!vars
    BY <2>10, FlowRests
  <2> QED BY <2>1, <2>2, <2>3, <2>4, <2>5, <2>6, <2>7, <2>8, <2>9, <2>10 DEF F!Next
<1>3. FlowInv => PublishedAsGiven
  BY DEF FlowInv, PublishedAsGiven
<1> QED BY <1>1, <1>2, <1>3, PTL DEF F!Spec
=============================================================================
