----------------------------- MODULE Dashboard -----------------------------
(***************************************************************************)
(* The dashboard's login (app/main.py): the password, the lock of an       *)
(* address after too many failures in a sliding window, and the sessions.  *)
(* The handlers do not wait, so each is one step; a restart forgets all.   *)
(* The activation of devices counts its failures in the same way.          *)
(***************************************************************************)
EXTENDS Integers, Sequences, FiniteSets

CONSTANTS
    LockSec, MaxFails, Ttl,     \* LOGIN_LOCK_SEC, LOGIN_MAX_FAILS, DASH_TTL
    MaxClock, MaxSessions       \* bounds

VARIABLES
    now,
    fails,      \* login_fails of the address: times, oldest first
    sessions,   \* dash_sessions: when each was to expire; 0 once popped
    failed,     \* history: the times of all failures since the last success
    opened      \* history: when each session was opened

vars == <<now, fails, sessions, failed, opened>>

Init ==
    /\ now = 1
    /\ fails = <<>> /\ sessions = <<>>
    /\ failed = <<>> /\ opened = <<>>

Tick ==
    /\ now < MaxClock
    /\ now' = now + 1
    /\ UNCHANGED <<fails, sessions, failed, opened>>

\* _login_locked: the failures that still count, in their order.
FailsAt(S) ==
    [k \in 1..Cardinality(S) |-> fails[CHOOSE i \in S : Cardinality({j \in S : j <= i}) = k]]
RecentOffByOne == FailsAt({i \in DOMAIN fails : now - fails[i] <= LockSec})
Recent == FailsAt({i \in DOMAIN fails : now - fails[i] < LockSec})
login_locked == Len(Recent) >= MaxFails

\* 429: neither password counts.
LoginLocked ==
    /\ login_locked
    /\ fails' = Recent
    /\ UNCHANGED <<now, sessions, failed, opened>>

LoginFails ==
    /\ ~login_locked
    /\ fails' = Append(Recent, now)
    /\ failed' = Append(failed, now)
    /\ UNCHANGED <<now, sessions, opened>>

LoginSucceeds ==
    /\ ~login_locked /\ Len(sessions) < MaxSessions
    /\ fails' = <<>> /\ failed' = <<>>
    /\ sessions' = Append(sessions, now + Ttl)
    /\ opened' = Append(opened, now)
    /\ UNCHANGED now

\* _dash_ok, on every request: expired sessions are dropped.
PopExpired ==
    /\ sessions' = [i \in DOMAIN sessions |-> IF sessions[i] < now THEN 0 ELSE sessions[i]]
    /\ UNCHANGED <<now, fails, failed, opened>>
dash_ok(i) == sessions[i] > now

Restart ==
    /\ fails' = <<>> /\ failed' = <<>>
    /\ sessions' = <<>> /\ opened' = <<>>
    /\ UNCHANGED now

Next == Tick \/ LoginLocked \/ LoginFails \/ LoginSucceeds \/ PopExpired \/ Restart

Spec == Init /\ [][Next]_vars

---------------------------------------------------------------------------
\* The address is locked exactly as long as the window holds that many
\* failures since its last success: attempts made meanwhile do not prolong
\* the lock, and no request drops a failure early or a session too soon.
LockedAsLongAsFailuresLast ==
    /\ login_locked <=> Cardinality({i \in DOMAIN failed : now - failed[i] < LockSec}) >= MaxFails
    /\ \A i \in DOMAIN sessions : dash_ok(i) <=> now < opened[i] + Ttl
=============================================================================
