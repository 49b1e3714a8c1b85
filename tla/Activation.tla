----------------------------- MODULE Activation -----------------------------
(***************************************************************************)
(* How a client gets its device credentials: the one-time codes (tokens)   *)
(* the administrator hands out, POST /auth/activate in main.py with its    *)
(* two commits, and ensure_device and cmd_config of the client             *)
(* (skills/team-agent-relay/relay.py), which falls back to the token when  *)
(* it gets no usable answer.  A request or its answer may be lost or come  *)
(* after the client has given up, and either side may die.                 *)
(***************************************************************************)
EXTENDS Naturals, FiniteSets

CONSTANTS
    User, Client,
    UserOf,         \* whose machine a client is
    Legacy,         \* cfg.auth_legacy: tokens are accepted as bearers
    MaxFails,       \* ACTIVATE_MAX_FAILS
    MaxToken, MaxDevice, MaxCalls       \* bounds

None == 0
Token == 1..MaxToken
DeviceId == 1..MaxDevice
Secret == 1..MaxToken      \* one for each token, named after it

VARIABLES
    users,      \* users: the token of a user, None if there is no such user
    spent,      \* the tokens whose row has consumed_at
    devices,    \* devices: by id its user, secret, and whether it was revoked
    fails,      \* activate_fails: refused codes in the window, by client
    conf,       \* the client's configuration file
    call,       \* the client's command in progress
    net,        \* activation requests on their way
    calls,      \* how many were sent
    owner,      \* history: whom a token was issued to
    makes,      \* history: how many devices a token has activated
    broken      \* history: clients that died in a call, or whose device an
                \*   administrator revoked

server == <<users, spent, devices, fails>>
vars == <<users, spent, devices, fails, conf, call, net, calls, owner, makes, broken>>

Row == [user : User \cup {None}, secret : Secret \cup {None}, revoked : BOOLEAN]
NoRow == [user |-> None, secret |-> None, revoked |-> FALSE]
Config == [token : Token \cup {None}, dev : DeviceId \cup {None}, secret : Secret \cup {None}]
NoCall == [kind |-> "none", token |-> None, try |-> None]
Asks == [client : Client, token : Token, dev : DeviceId \cup {None}, try : 1..MaxCalls]

Init ==
    /\ users = [u \in User |-> None]
    /\ spent = {} /\ devices = [d \in DeviceId |-> NoRow]
    /\ fails = [c \in Client |-> 0]
    /\ conf = [c \in Client |-> [token |-> None, dev |-> None, secret |-> None]]
    /\ call = [c \in Client |-> NoCall]
    /\ net = {} /\ calls = 0
    /\ owner = [t \in {} |-> None] /\ makes = [t \in Token |-> 0] /\ broken = {}

---------------------------------------------------------------------------
(* The administrator                                                       *)

\* create_user, or reissue_token: a new code; the old one is no user's now.
IssueToken(u) ==
    \E t \in Token \ DOMAIN owner :
        /\ \A s \in Token : s < t => s \in DOMAIN owner
        /\ users' = [users EXCEPT ![u] = t]
        /\ owner' = [s \in DOMAIN owner \cup {t} |-> IF s = t THEN u ELSE owner[s]]
        /\ UNCHANGED <<spent, devices, fails, conf, call, net, calls, makes, broken>>

Holders(D) == {c \in Client : conf[c].dev \in D}

Revoke(d) ==
    /\ devices[d].secret # None /\ ~devices[d].revoked
    /\ devices' = [devices EXCEPT ![d].revoked = TRUE]
    /\ broken' = broken \cup Holders({d})
    /\ UNCHANGED <<users, spent, fails, conf, call, net, calls, owner, makes>>

\* delete_user: first the devices, then the user; the service may die between.
DeleteUser(u, all) ==
    /\ users[u] # None
    /\ devices' = [d \in DeviceId |-> IF devices[d].user = u THEN NoRow ELSE devices[d]]
    /\ users' = IF all THEN [users EXCEPT ![u] = None] ELSE users
    /\ broken' = broken \cup Holders({d \in DeviceId : devices[d].user = u})
    /\ UNCHANGED <<spent, fails, conf, call, net, calls, owner, makes>>

---------------------------------------------------------------------------
(* The client                                                              *)

Ask(c, kind, tok, dev) ==
    /\ calls < MaxCalls
    /\ calls' = calls + 1
    /\ call' = [call EXCEPT ![c] = [kind |-> kind, token |-> tok, try |-> calls + 1]]
    /\ net' = net \cup {[client |-> c, token |-> tok, dev |-> dev, try |-> calls + 1]}

\* `config --set-token' tries the new code before it touches the file.
Configure(c, t) ==
    /\ call[c] = NoCall /\ owner[t] = UserOf[c]
    /\ Ask(c, "config", t, conf[c].dev)
    /\ UNCHANGED server /\ UNCHANGED <<conf, owner, makes, broken>>

\* Any other command: with a token and no secret it activates first.
RunCommand(c) ==
    /\ call[c] = NoCall
    /\ conf[c].secret = None /\ conf[c].token # None
    /\ Ask(c, "run", conf[c].token, conf[c].dev)
    /\ UNCHANGED server /\ UNCHANGED <<conf, owner, makes, broken>>

KeepSecret(c) ==
    conf' = IF call[c].kind = "config" THEN [conf EXCEPT ![c].token = call[c].token] ELSE conf

\* No answer that says anything (network, 5xx, 404, 429): `config' stores the
\* token and drops the secret it had, other commands go on with the token.
FallBack(c) ==
    conf' = IF call[c].kind = "config"
            THEN [conf EXCEPT ![c].token = call[c].token, ![c].secret = None]
            ELSE conf

GiveUp(c) ==
    /\ call[c] # NoCall
    /\ FallBack(c)
    /\ call' = [call EXCEPT ![c] = NoCall]
    /\ UNCHANGED server /\ UNCHANGED <<net, calls, owner, makes, broken>>

ClientDies(c) ==
    /\ call[c] # NoCall
    /\ call' = [call EXCEPT ![c] = NoCall]
    /\ broken' = broken \cup {c}
    /\ UNCHANGED server /\ UNCHANGED <<conf, net, calls, owner, makes>>

---------------------------------------------------------------------------
(* POST /auth/activate                                                     *)

Known(t) == \E u \in User : users[u] = t
SpentUnchecked(t) == FALSE
Spent(t) == t \in spent
Locked(c) == fails[c] >= MaxFails

\* The answer reaches the client if it still waits for this very call.  409
\* and 401 end the command and leave the file as it is.
Answer(q, code) ==
    IF call[q.client].try # q.try
    THEN UNCHANGED <<conf, call>>
    ELSE /\ call' = [call EXCEPT ![q.client] = NoCall]
         /\ IF code = 429 THEN FallBack(q.client) ELSE UNCHANGED conf

Refuse(q) ==
    /\ q \in net /\ net' = net \ {q}
    /\ CASE Locked(q.client) -> Answer(q, 429) /\ UNCHANGED fails
         [] ~Locked(q.client) /\ ~Known(q.token) ->
              Answer(q, 401) /\ fails' = [fails EXCEPT ![q.client] = @ + 1]
         [] ~Locked(q.client) /\ Known(q.token) /\ Spent(q.token) ->
              Answer(q, 409) /\ UNCHANGED fails
         [] OTHER -> FALSE
    /\ UNCHANGED <<users, spent, devices, calls, owner, makes, broken>>

Accepts(q) == q \in net /\ ~Locked(q.client) /\ Known(q.token) /\ ~Spent(q.token)

\* The id the client sent, or a new one (the client makes one up as well).
IdOf(q) == IF q.dev # None THEN {q.dev}
           ELSE {d \in DeviceId : devices[d] = NoRow /\ \A c \in Client : conf[c].dev # d
                                  /\ \A e \in DeviceId : e < d => devices[e] # NoRow}

\* device_upsert: a row of that id is taken over, whoever's it was.
Upsert(d, t) == [devices EXCEPT ![d] = [user |-> owner[t], secret |-> t, revoked |-> FALSE]]

\* The client stores the new credentials and drops the token, in one write.
Stored(c, d, t) == [conf EXCEPT ![c] = [token |-> None, dev |-> d, secret |-> t]]

\* consume_token and device_upsert commit one after the other, without an
\* await between them; the answer may find nobody waiting.
Activate(q, d) ==
    /\ Accepts(q) /\ d \in IdOf(q)
    /\ net' = net \ {q}
    /\ spent' = spent \cup {q.token}
    /\ fails' = [fails EXCEPT ![q.client] = 0]
    /\ devices' = Upsert(d, q.token)
    /\ makes' = [makes EXCEPT ![q.token] = @ + 1]
    /\ IF call[q.client].try = q.try
       THEN conf' = Stored(q.client, d, q.token) /\ call' = [call EXCEPT ![q.client] = NoCall]
       ELSE UNCHANGED <<conf, call>>
    /\ UNCHANGED <<users, calls, owner, broken>>

\* The service dies and forgets the failed tries, after the first of the two
\* commits or outside of any activation; its requests are lost.
ServiceDies ==
    /\ net' = {} /\ net # {}
    /\ fails' = [c \in Client |-> 0]
    /\ \/ UNCHANGED spent
       \/ \E q \in net : Accepts(q) /\ spent' = spent \cup {q.token}
    /\ UNCHANGED <<users, devices, conf, call, calls, owner, makes, broken>>

\* The oldest failed try leaves the window.
FailExpires(c) ==
    /\ fails[c] > 0 /\ fails' = [fails EXCEPT ![c] = @ - 1]
    /\ UNCHANGED <<users, spent, devices, conf, call, net, calls, owner, makes, broken>>

Next ==
    \/ \E u \in User : IssueToken(u) \/ \E all \in BOOLEAN : DeleteUser(u, all)
    \/ \E d \in DeviceId : Revoke(d)
    \/ \E c \in Client : RunCommand(c) \/ GiveUp(c) \/ ClientDies(c) \/ FailExpires(c)
    \/ \E c \in Client : \E t \in DOMAIN owner : Configure(c, t)
    \/ \E q \in net : Refuse(q) \/ \E d \in DeviceId : Activate(q, d)
    \/ ServiceDies

Spec == Init /\ [][Next]_vars

---------------------------------------------------------------------------
(* Properties                                                              *)

TypeOK ==
    /\ users \in [User -> Token \cup {None}] /\ spent \subseteq Token
    /\ devices \in [DeviceId -> Row] /\ fails \in [Client -> 0..MaxFails]
    /\ conf \in [Client -> Config] /\ net \subseteq Asks /\ calls \in 0..MaxCalls
    /\ DOMAIN owner \subseteq Token /\ makes \in [Token -> Nat]

\* A code activates one device at most, over lost answers, retries, answers
\* that come late, reissues and crashes between the two commits.
TokenOnce == \A t \in Token : makes[t] <= 1

\* Why: a code that has made a device is marked.
SpentInv == \A t \in Token : makes[t] # 0 => t \in spent

\* A secret a client has stored is the one the service knows: activating
\* again replaces both, and an answer nobody waited for replaces neither,
\* because `config' drops the secret when it gives up.  (Excepted are clients
\* that were killed while they waited, and devices an administrator revoked.)
StoredSecretWorks ==
    \A c \in Client \ broken :
        conf[c].secret # None /\ call[c] = NoCall =>
            /\ devices[conf[c].dev].secret = conf[c].secret
            /\ ~devices[conf[c].dev].revoked
=============================================================================
