------------------------------- MODULE Store -------------------------------
(***************************************************************************)
(* DB._run of app/db.py, through which every statement of the service goes,*)
(* one at a time (the lock): a PostgreSQL connection that is re-opened and *)
(* the statement repeated once when it breaks, or an SQLite file that      *)
(* another process may hold locked at the commit.                          *)
(*                                                                         *)
(* Statements are those whose repetition matters: "insert" (create_task,   *)
(* create_user), "consume" (consume_token: an update that only one caller  *)
(* may win) and "set" (an update to fixed values).                         *)
(***************************************************************************)
EXTENDS Naturals, FiniteSets

CONSTANTS
    MaxCalls        \* bound: calls of _run

Call == 1..MaxCalls
Kind == {"insert", "consume", "set"}

VARIABLES
    pg,         \* which backend: is_pg_url of the path
    kind,       \* of each call made so far, "none" of the others
    at,         \* where the running call is: "idle", "execute", "commit"
    attempt, hit,           \* of the running call; hit: its cur.rowcount > 0
    conn,       \* "none", "open", or "failed": in an aborted transaction
    tx,         \* the calls whose statements the open transaction holds
    spent,      \* the token's consumed_at is set
    applied,    \* how often each call's statement has been committed
    cut,        \* history: calls whose connection broke at the commit
    answer      \* of each call: "none", "hit", "miss", "error"

local == <<at, attempt, hit, conn, tx>>
vars == <<pg, kind, local, spent, applied, cut, answer>>

Made == {c \in Call : kind[c] # "none"}
current == Cardinality(Made)        \* calls are numbered as they come

Init ==
    /\ pg \in BOOLEAN
    /\ kind = [c \in Call |-> "none"]
    /\ at = "idle" /\ attempt = 1 /\ hit = FALSE
    /\ conn = "open" /\ tx = {}
    /\ spent = FALSE
    /\ applied = [c \in Call |-> 0] /\ cut = {}
    /\ answer = [c \in Call |-> "none"]

Begin(k) ==
    /\ at = "idle" /\ current < MaxCalls
    /\ kind' = [kind EXCEPT ![current + 1] = k]
    /\ at' = "execute" /\ attempt' = 1 /\ hit' = FALSE
    /\ UNCHANGED <<conn, tx, spent, applied, cut, answer>>

Return(a) ==
    /\ at' = "idle"
    /\ answer' = [answer EXCEPT ![current] = a]
    /\ UNCHANGED <<attempt, hit>>

\* An OperationalError or InterfaceError: _pg_reset, and once more from the
\* start; the second one is the caller's.
Broken ==
    /\ pg
    /\ conn' = "none" /\ tx' = {}
    /\ IF attempt = 1
       THEN at' = "execute" /\ attempt' = 2 /\ UNCHANGED <<hit, answer>>
       ELSE Return("error")

\* Whether the statement finds a row to change: consume_token's condition
\* sees what is committed and what its own transaction has done.
Finds == kind[current] = "consume" => ~spent /\ \A c \in tx : kind[c] # "consume"

Execute ==
    /\ at = "execute" /\ conn # "failed"
    /\ conn' = "open"       \* _pg_connect if need be
    /\ tx' = tx \cup {current} /\ hit' = Finds
    /\ at' = "commit"
    /\ UNCHANGED <<kind, attempt, spent, applied, cut, answer>>

\* The connection is gone, or cannot be made.
ExecuteBreaks ==
    /\ at = "execute"
    /\ Broken
    /\ UNCHANGED <<kind, spent, applied, cut>>

\* The database refuses the statement.  PostgreSQL then refuses every other
\* one on this connection, which nothing rolls back before it breaks.
Refused ==
    /\ at = "execute" /\ conn # "none"
    /\ conn' = IF pg THEN "failed" ELSE conn
    /\ tx' = IF pg THEN {} ELSE tx
    /\ Return("error")
    /\ UNCHANGED <<kind, spent, applied, cut>>

\* What a commit makes durable.
Apply ==
    /\ applied' = [c \in Call |-> IF c \in tx /\ (c = current => hit) THEN applied[c] + 1 ELSE applied[c]]
    /\ spent' = (spent \/ (hit /\ kind[current] = "consume")
                       \/ \E c \in tx \ {current} : kind[c] = "consume")

CommitLate ==
    /\ at = "commit" /\ tx' = tx
    /\ UNCHANGED <<applied, spent>>
    /\ Return(IF hit THEN "hit" ELSE "miss")
    /\ UNCHANGED <<kind, conn, cut>>

Commit ==
    /\ at = "commit"
    /\ Apply /\ tx' = {}
    /\ Return(IF hit THEN "hit" ELSE "miss")
    /\ UNCHANGED <<kind, conn, cut>>

\* The connection breaks, before or after the server has committed.
CommitBreaks(done) ==
    /\ at = "commit"
    /\ IF done THEN Apply ELSE UNCHANGED <<applied, spent>>
    /\ cut' = cut \cup {current}
    /\ Broken
    /\ UNCHANGED kind

\* SQLite: locked by another process.  The transaction stays open.
CommitLocked ==
    /\ at = "commit" /\ ~pg
    /\ cut' = cut \cup {current}
    /\ Return("error")
    /\ UNCHANGED <<kind, conn, tx, spent, applied>>

\* The service dies and is started again.
Restart ==
    /\ at # "idle"
    /\ at' = "idle" /\ conn' = "open" /\ tx' = {}
    /\ UNCHANGED <<kind, attempt, hit, spent, applied, cut, answer>>

Step ==
    \/ \E k \in Kind : Begin(k)
    \/ Execute \/ ExecuteBreaks \/ Refused \/ Commit \/ CommitLocked \/ Restart
    \/ \E b \in BOOLEAN : CommitBreaks(b)

Next == Step /\ UNCHANGED pg

Spec == Init /\ [][Next]_vars

---------------------------------------------------------------------------
(* Properties                                                              *)

\* What a caller was told is in the database: a call answered with a row has
\* been committed, exactly once unless its connection broke at a commit and
\* then at most twice, and only one caller consumed the token.  (One whose
\* commit was cut may be told of a miss, having consumed it: the token is
\* lost.)
AnswersHold ==
    /\ \A c \in Made : answer[c] = "hit" => applied[c] \in 1..(IF c \in cut THEN 2 ELSE 1)
    /\ Cardinality({c \in Made : kind[c] = "consume" /\ answer[c] = "hit"}) <= 1
=============================================================================
