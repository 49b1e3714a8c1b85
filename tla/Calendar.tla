------------------------------ MODULE Calendar ------------------------------
(***************************************************************************)
(* Finding a time that several people have free, and creating the meeting, *)
(* with a room if one is asked for.  A day is the hours 0 .. Day; an       *)
(* interval <<s, e>> covers the hours s .. e - 1.                          *)
(***************************************************************************)
EXTENDS Integers, SequencesExt

CONSTANTS Day,      \* the hours of the working day
          MaxBusy,  \* engagements of the people asked for
          Rooms, Groups

VARIABLES busy,      \* what the calendars hold, in the order they are told
          duration,  \* what the meeting needs
          left,      \* engagements the finder has still to merge
          merged,    \* the intervals it made of the others
          passed,    \* how many of these it has passed over
          cursor,    \* up to where it has looked
          slots,     \* what it recommends
          pc,        \* where the planner is
          meeting,   \* the interval it schedules
          scopes,    \* the room groups still to be searched
          room,      \* the room it chose
          taken,     \* rooms that are booked
          events     \* meetings the calendar service holds: interval, room

sifting == <<left, merged, passed, cursor>>
vars == <<busy, duration, sifting, slots, pc, meeting, scopes, room, taken, events>>

(* The service tells the engagements that meet the day; they may begin       *)
(* before it, end after it, overlap, and come in any order.                  *)
Engagements == {i \in (0 .. Day) \X (1 .. Day + 1) : i[1] < i[2] /\ i[1] < Day}
NoRoom == "no room"

(* A reply lists engagements under several shapes.  An entry without a       *)
(* start, an end or a known time format is no engagement: it has no hours    *)
(* and is passed over.                                                       *)
Timeless == <<0, 0>>
parse_busy_intervals(reply) == {k \in DOMAIN reply : reply[k] # Timeless}

(* The order of a stable sort by start.                                      *)
Sooner(k, j) == busy[k][1] < busy[j][1] \/ (busy[k][1] = busy[j][1] /\ k < j)

(* The bug a mutant plants: the later engagement's end replaces the earlier's. *)
JoinedByLast(m, i) ==
  IF m # <<>> /\ i[1] <= Last(m)[2]
  THEN [m EXCEPT ![Len(m)] = <<@[1], i[2]>>]
  ELSE Append(m, i)

Larger(a, b) == IF a < b THEN b ELSE a

(* An engagement that touches the last interval becomes a part of it.        *)
Joined(m, i) ==
  IF m # <<>> /\ i[1] <= Last(m)[2]
  THEN [m EXCEPT ![Len(m)] = <<@[1], Larger(@[2], i[2])>>]
  ELSE Append(m, i)

Gap(from, to) == IF from < to /\ to - from >= duration THEN <<<<from, to>>>> ELSE <<>>

-----------------------------------------------------------------------------
Init ==
  /\ busy \in UNION {[1 .. n -> Engagements \cup {Timeless}] : n \in 0 .. MaxBusy}
  /\ duration \in 1 .. Day
  /\ left = {} /\ merged = <<>> /\ passed = 0 /\ cursor = 0
  /\ slots = <<>> /\ pc = "find" /\ meeting = <<0, 0>> /\ scopes = <<>>
  /\ room = NoRoom /\ taken \in SUBSET Rooms /\ events = {}

(* The finder's search answers.                                              *)
Find ==
  /\ pc = "find"
  /\ left' = parse_busy_intervals(busy)
  /\ pc' = "sift"
  /\ UNCHANGED <<busy, duration, merged, passed, cursor, slots, meeting, scopes, room, taken, events>>

(* find_free_slots, a turn of its loops at a time: the engagements are merged *)
(* in the order of their start, ...                                          *)
Merge ==
  /\ pc = "sift"
  /\ \E k \in left :
       /\ \A j \in left \ {k} : Sooner(k, j)
       /\ left' = left \ {k}
       /\ merged' = Joined(merged, busy[k])
  /\ UNCHANGED <<busy, duration, passed, cursor, slots, pc, meeting, scopes, room, taken, events>>

(* ... what lies before a merged interval is a slot if it is long enough, ... *)
PassOver ==
  /\ pc = "sift" /\ left = {} /\ passed < Len(merged)
  /\ LET i == merged[passed + 1]
     IN  slots' = slots \o Gap(cursor, i[1]) /\ cursor' = Larger(cursor, i[2])
  /\ passed' = passed + 1
  /\ UNCHANGED <<busy, duration, left, merged, pc, meeting, scopes, room, taken, events>>

(* ... and so is the rest of the day.                                        *)
Recommend ==
  /\ pc = "sift" /\ left = {} /\ passed = Len(merged)
  /\ slots' = slots \o Gap(cursor, Day)
  /\ pc' = "choose"
  /\ UNCHANGED <<busy, duration, sifting, meeting, scopes, room, taken, events>>

find_free_slots == Merge \/ PassOver \/ Recommend

(* The search fails: no engagement is known, and the whole day is free.      *)
FindBlind ==
  /\ pc = "find"
  /\ slots' = Gap(0, Day)
  /\ pc' = "blind"
  /\ UNCHANGED <<busy, duration, sifting, meeting, scopes, room, taken, events>>

(* A meeting is asked for at the start of a recommended slot, with a room    *)
(* from some groups in their order, from anywhere, or without a room.        *)
Ask ==
  /\ pc = "choose" /\ slots # <<>>
  /\ \E i \in DOMAIN slots :
       meeting' = <<slots[i][1], slots[i][1] + duration>>
  /\ \/ pc' = "create" /\ scopes' = <<>>
     \/ /\ pc' = "search"
        /\ scopes' \in {<<"root">>} \cup {SetToSeq(g) : g \in SUBSET Groups \ {{}}}
  /\ UNCHANGED <<busy, duration, sifting, slots, room, taken, events>>

(* A group is searched: the call fails or has no room, and the next group is *)
(* searched, or the first room of the answer is chosen and the search ends.  *)
SearchRoom ==
  /\ pc = "search"
  /\ IF scopes = <<>>
     THEN pc' = "refused" /\ UNCHANGED <<scopes, room>>
     ELSE \/ scopes' = Tail(scopes) /\ UNCHANGED <<pc, room>>
          \/ /\ room' \in Rooms \ taken /\ pc' = "create"
             /\ UNCHANGED scopes
  /\ UNCHANGED <<busy, duration, sifting, slots, meeting, taken, events>>

(* Someone else books a room.                                                *)
RoomTaken ==
  /\ \E r \in Rooms \ taken : taken' = taken \cup {r}
  /\ UNCHANGED <<busy, duration, sifting, slots, pc, meeting, scopes, room, events>>

(* One call creates the meeting with its room.  The call may fail before or  *)
(* after the service carried it out; a room that is gone makes it fail.      *)
Create ==
  /\ pc = "create"
  /\ \/ /\ room \notin taken
        /\ events' = events \cup {[at |-> meeting, room |-> room]}
        /\ taken' = IF room = NoRoom THEN taken ELSE taken \cup {room}
        /\ pc' \in {"done", "failed"}
     \/ pc' = "failed" /\ UNCHANGED <<events, taken>>
  /\ UNCHANGED <<busy, duration, sifting, slots, meeting, scopes, room>>

Next == Find \/ find_free_slots \/ FindBlind \/ Ask \/ SearchRoom \/ RoomTaken \/ Create

Spec == Init /\ [][Next]_vars

-----------------------------------------------------------------------------
Hours(i) == i[1] .. i[2] - 1
FreeHours == (0 .. Day - 1) \ UNION {Hours(busy[i]) : i \in DOMAIN busy}

(* Of the windows of the asked length, exactly those that nobody's          *)
(* engagement touches lie within a recommended slot, however the            *)
(* engagements overlap, nest or pass the day's edges and in whatever order  *)
(* they come; and a meeting created from a recommendation clashes with none. *)
(* A finder whose busy search failed is left out: it says that no engagement *)
(* is known and shows the whole day as free (FindBlind).                     *)
SlotsExact ==
  /\ pc \notin {"find", "sift", "blind"} =>
       \A s \in 0 .. Day - duration :
         LET window == <<s, s + duration>>
         IN  Hours(window) \subseteq FreeHours
               <=> \E i \in DOMAIN slots : Hours(window) \subseteq Hours(slots[i])
  /\ \A e \in events : Hours(e.at) \subseteq FreeHours
=============================================================================
