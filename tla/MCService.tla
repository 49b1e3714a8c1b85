----------------------------- MODULE MCService -----------------------------
(* The parts of the service beside the life of its tasks, each on a small  *)
(* instance.  They share no state, so one run takes them one at a time:    *)
(* `part' says which, and the others stay where they begin.                *)
EXTENDS RequestAuth, Sequences, FiniteSets, TLC

CONSTANTS User, Client, UserOf, Owner, Legacy, MaxFails, MaxToken, MaxDevice, MaxCalls,
          Skill, Server, Note, Dir, MaxStoreCalls, Raw, Name, Depth, MaxTasks,
          Segment, MaxSegments, Pattern, Flag, Recursive, SafePath,
          Conversation, Single, Sensitive,
          LockSec, MaxLogins, Ttl, MaxClock, MaxSessions

ASSUME ServiceAssumption == MaxFails \in Nat /\ MaxCalls \in Nat /\ MaxStoreCalls \in Nat
ASSUME LockAssumption == LockSec \in Nat /\ Ttl \in Nat /\ MaxLogins \in Nat

\* Names have no blanks (_check_shared_name), and a send lists its recipients.
ASSUME NameAssumption == "no file" \notin Server \cup Note
ASSUME PathAssumption == Depth \in Nat /\ Name \cap {"/", " ", ".", ".."} = {}
ASSUME SegmentAssumption ==
    \A s \in Segment : /\ s.persons \in Seq({s.persons[i] : i \in DOMAIN s.persons})
                       /\ s.groups \in Seq({s.groups[i] : i \in DOMAIN s.groups})

VARIABLES part, users, spent, devices, fails, conf, call, net, calls, owner, makes, broken
A == INSTANCE Activation
avars == <<users, spent, devices, fails, conf, call, net, calls, owner, makes, broken>>

VARIABLES skills, servers, notes, engine, conventions, dir, ran
K == INSTANCE Knowledge
kvars == <<skills, servers, notes, engine, conventions, dir, ran>>

VARIABLES pg, kind, at, attempt, hit, conn, tx, token, applied, cut, answer
S == INSTANCE Store WITH spent <- token, MaxCalls <- MaxStoreCalls
svars == <<pg, kind, at, attempt, hit, conn, tx, token, applied, cut, answer>>

VARIABLE task
T == INSTANCE Targets

VARIABLES cache, exempt, last
G == INSTANCE CommandGate
gvars == <<cache, exempt, last>>

VARIABLES now, logins, sessions, failed, opened
D == INSTANCE Dashboard WITH fails <- logins, MaxFails <- MaxLogins
dvars == <<now, logins, sessions, failed, opened>>

\* The instance TLC checks: all machines are one user's, a target lies in
\* another, or is the root, or leads back to one, and the segments hold every
\* reason to stop a command.
Alike == Permutations(Handlers)
OneUser == [c \in Client |-> Owner]
Written == {<<"a">>, <<" ", "/", "a", "/", "b", "/", " ">>, <<"/">>, <<"b", "/", "..", "/", "a">>}
Send(p, g, w) == [path |-> "dm", persons |-> p, groups |-> g, words |-> w]
Plain(w) == [path |-> "none", persons |-> <<>>, groups |-> <<>>, words |-> w]
Segments == {Send(<<"p">>, <<>>, <<"dws", "p", "rm", "-rf", "/">>), Send(<<"p">>, <<>>, <<"dws", "p", "kill">>),
             Send(<<"p", "p">>, <<>>, <<"dws", "p,p">>), Send(<<>>, <<"c1">>, <<"dws", "c1">>),
             Send(<<"boss">>, <<"c1">>, <<"dws", "boss", "c1">>),
             Plain(<<"relay">>), Plain(<<"rm", "-rf", "/tmp", ";">>), Plain(<<"rm", "-rf", "/">>)}
Patterns == {[words |-> <<"kill", "relay">>, gaps |-> TRUE], [words |-> <<"kill", "dws">>, gaps |-> FALSE]}

Parts == {"request", "activation", "knowledge", "store", "targets", "gate", "dashboard"}

InitPart ==
    /\ part \in Parts
    /\ Init /\ A!Init /\ K!Init /\ S!Init /\ T!Init /\ G!Init /\ D!Init
    /\ part # "knowledge" => conventions
    /\ part # "store" => pg

NextPart ==
    /\ UNCHANGED part
    /\ \/ part = "request" /\ Next /\ UNCHANGED <<avars, kvars, svars, task, gvars, dvars>>
       \/ part = "activation" /\ A!Next /\ UNCHANGED <<vars, kvars, svars, task, gvars, dvars>>
       \/ part = "knowledge" /\ K!Next /\ UNCHANGED <<vars, avars, svars, task, gvars, dvars>>
       \/ part = "store" /\ S!Next /\ UNCHANGED <<vars, avars, kvars, task, gvars, dvars>>
       \/ part = "targets" /\ T!Next /\ UNCHANGED <<vars, avars, kvars, svars, gvars, dvars>>
       \/ part = "gate" /\ G!Next /\ UNCHANGED <<vars, avars, kvars, svars, task, dvars>>
       \/ part = "dashboard" /\ D!Next /\ UNCHANGED <<vars, avars, kvars, svars, task, gvars>>

SpecPart == InitPart /\ [][NextPart]_<<part, vars, avars, kvars, svars, task, gvars, dvars>>

\* The properties of the parts, under the names they have there: an activation
\* code makes one device ...
TokenOnce == A!TypeOK /\ A!TokenOnce
\* ... and the secret a client wrote down is the one its device is known by;
StoredSecretWorks == A!StoredSecretWorks
\* a run reads what is shared when it starts (prepare_run);
LoadsWhatIsShared == K!LoadsWhatIsShared
\* what a caller of the database was told is there (DB._run);
AnswersHold == S!AnswersHold
\* tasks in flight name disjoint targets (submit_task);
InFlightDisjoint == T!InFlightDisjoint
\* a person is asked once, and for a reason (_is_blocked, _exempt);
AskedForGoodReason == G!AskedForGoodReason
\* and an address is locked as long as its failures last (_login_locked).
LockedAsLongAsFailuresLast == D!LockedAsLongAsFailuresLast
=============================================================================
