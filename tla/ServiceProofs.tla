--------------------------- MODULE ServiceProofs ---------------------------
(***************************************************************************)
(* The parts of the service that MCService puts side by side, for any      *)
(* users, clients, names, targets, commands and bounds.  For each part:    *)
(* its inductive invariant, one lemma per operation, and its property as a *)
(* theorem of the part's own specification; the last theorem says that the *)
(* specification of the parts together implements each of them.            *)
(***************************************************************************)
EXTENDS MCService, FiniteSetTheorems, SequenceTheorems, TLAPS

USE ServiceAssumption

---------------------------------------------------------------------------
(* Activation: codes, devices and the clients' configuration files         *)

ActTypes ==
    /\ A!TypeOK
    /\ \A t \in DOMAIN owner : owner[t] \in User
    /\ call \in [Client -> {A!NoCall} \cup
                   [kind : {"config", "run"}, token : A!Token, try : 1..calls]]

\* A code belongs to the user it was issued to, wherever it is.
Ownership ==
    /\ \A u \in User : users[u] # A!None => users[u] \in DOMAIN owner /\ owner[users[u]] = u
    /\ \A c \in Client : conf[c].token # A!None =>
         conf[c].token \in DOMAIN owner /\ owner[conf[c].token] = UserOf[c]
    /\ \A c \in Client : call[c] # A!NoCall =>
         call[c].token \in DOMAIN owner /\ owner[call[c].token] = UserOf[c]
    /\ \A q \in net : q.token \in DOMAIN owner /\ owner[q.token] = UserOf[q.client]

\* Every request has a number of its own.
Tries ==
    /\ \A q \in net : q.try \in 1..calls
    /\ \A q, r \in net : q.try = r.try => q = r

\* A device id is in one file at most, and is what that client asks for.
DeviceIds ==
    /\ \A c \in Client : call[c].kind = "run" => conf[c].secret = A!None
    /\ \A q \in net : q.dev # A!None \/ q.try = call[q.client].try => q.dev = conf[q.client].dev
    /\ \A c, e \in Client : conf[c].dev = conf[e].dev /\ conf[c].dev # A!None => c = e

\* A code that will not be accepted any more.
Dead(t) == t \in spent \/ ~A!Known(t)

\* Why a stored secret keeps working: the requests that could replace it and
\* that nobody waits for carry dead codes.
SecretsLive ==
    \A c \in Client \ broken :
        conf[c].secret # A!None =>
            /\ conf[c].dev \in A!DeviceId
            /\ devices[conf[c].dev].secret = conf[c].secret
            /\ ~devices[conf[c].dev].revoked
            /\ \A q \in net : q.client = c /\ q.try # call[c].try => Dead(q.token)

ActInv == /\ ActTypes /\ Ownership /\ Tries /\ DeviceIds /\ SecretsLive
          /\ A!TokenOnce /\ A!SpentInv

LEMMA ActInit == A!Init => ActInv
BY DEF A!Init, ActInv, ActTypes, A!TypeOK, Ownership, Tries, DeviceIds, SecretsLive,
       A!TokenOnce, A!SpentInv, A!Token, A!None, A!NoRow, A!Row, A!NoCall, A!Config, A!Asks,
       A!DeviceId, A!Secret

\* A new code is one that nobody has had.
LEMMA IssueTokenInv ==
    ASSUME ActInv, NEW u \in User, A!IssueToken(u)
    PROVE  ActInv'
<1> PICK t \in A!Token \ DOMAIN owner :
        /\ users' = [users EXCEPT ![u] = t]
        /\ owner' = [s \in DOMAIN owner \cup {t} |-> IF s = t THEN u ELSE owner[s]]
        /\ UNCHANGED <<spent, devices, fails, conf, call, net, calls, makes, broken>>
  BY DEF A!IssueToken
<1>1. ActTypes'
  BY DEF ActInv, ActTypes, A!TypeOK
<1>2. Ownership'
  BY DEF ActInv, Ownership, ActTypes, A!TypeOK
<1>3. Tries' /\ DeviceIds'
  BY DEF ActInv, Tries, DeviceIds
<1>4. \A q \in net : Dead(q.token) => Dead(q.token)'
  BY DEF ActInv, Dead, A!Known, Ownership, ActTypes, A!TypeOK
<1>5. SecretsLive'
  BY <1>4 DEF ActInv, SecretsLive
<1> QED
  BY <1>1, <1>2, <1>3, <1>5 DEF ActInv, A!TokenOnce, A!SpentInv

\* What only takes codes, devices or requests away keeps the invariant, when
\* the clients that hold the devices are counted as broken.
LEMMA DeleteUserInv ==
    ASSUME ActInv, NEW u \in User, NEW all \in BOOLEAN, A!DeleteUser(u, all)
    PROVE  ActInv'
<1>0. /\ devices' = [d \in A!DeviceId |-> IF devices[d].user = u THEN A!NoRow ELSE devices[d]]
      /\ users' = users \/ users' = [users EXCEPT ![u] = A!None]
      /\ broken' = broken \cup A!Holders({d \in A!DeviceId : devices[d].user = u})
      /\ UNCHANGED <<spent, fails, conf, call, net, calls, owner, makes>>
  BY DEF A!DeleteUser
<1>1. ActTypes'
  BY <1>0 DEF ActInv, ActTypes, A!TypeOK, A!Row, A!NoRow
<1>2. Ownership'
  BY <1>0 DEF ActInv, Ownership, ActTypes, A!TypeOK
<1>3. Tries' /\ DeviceIds'
  BY <1>0 DEF ActInv, Tries, DeviceIds
<1>4. \A q \in net : Dead(q.token) => Dead(q.token)'
  BY <1>0 DEF ActInv, Dead, A!Known, ActTypes, A!TypeOK, A!Asks, A!None, A!Token
<1>5. SecretsLive'
  BY <1>0, <1>4 DEF ActInv, SecretsLive, A!Holders
<1> QED
  BY <1>0, <1>1, <1>2, <1>3, <1>5 DEF ActInv, A!TokenOnce, A!SpentInv

LEMMA RevokeInv ==
    ASSUME ActInv, NEW d \in A!DeviceId, A!Revoke(d)
    PROVE  ActInv'
<1>1. ActTypes'
  BY DEF ActInv, ActTypes, A!TypeOK, A!Row, A!Revoke
<1>2. SecretsLive'
  BY DEF ActInv, ActTypes, A!TypeOK, SecretsLive, A!Revoke, A!Holders, Dead, A!Known
<1> QED
  BY <1>1, <1>2 DEF ActInv, Ownership, Tries, DeviceIds, A!TokenOnce, A!SpentInv, A!Revoke

\* A command asks with a number that nobody has, for the id in the file.
LEMMA AskInv ==
    ASSUME ActInv, NEW c \in Client, NEW t \in DOMAIN owner, NEW k \in {"config", "run"},
           call[c] = A!NoCall, owner[t] = UserOf[c], k = "run" => conf[c].secret = A!None,
           A!Ask(c, k, t, conf[c].dev),
           UNCHANGED <<users, spent, devices, fails, conf, owner, makes, broken>>
    PROVE  ActInv'
<1> DEFINE new == [client |-> c, token |-> t, dev |-> conf[c].dev, try |-> calls + 1]
<1>0. /\ calls' = calls + 1 /\ calls \in Nat /\ calls' \in 0..MaxCalls
      /\ call' = [call EXCEPT ![c] = [kind |-> k, token |-> t, try |-> calls + 1]]
      /\ net' = net \cup {new}
      /\ t \in A!Token
  BY DEF A!Ask, ActInv, ActTypes, A!TypeOK
<1>1. ActTypes'
  <2>1. new \in A!Asks'
    BY <1>0 DEF ActInv, ActTypes, A!TypeOK, A!Asks, A!Config
  <2>2. A!TypeOK'
    BY <1>0, <2>1 DEF ActInv, ActTypes, A!TypeOK
  <2>3. call' \in [Client -> {A!NoCall} \cup
                   [kind : {"config", "run"}, token : A!Token, try : 1..calls']]
    BY <1>0 DEF ActInv, ActTypes
  <2> QED BY <2>2, <2>3 DEF ActInv, ActTypes
<1>2. Ownership'
  BY <1>0 DEF ActInv, Ownership, ActTypes, A!NoCall
<1>3. Tries'
  BY <1>0 DEF ActInv, Tries, ActTypes
<1>4. DeviceIds'
  BY <1>0 DEF ActInv, DeviceIds, ActTypes, Tries, A!NoCall, A!TypeOK, A!Asks
<1>5. SecretsLive'
  BY <1>0 DEF ActInv, SecretsLive, ActTypes, Tries, A!NoCall, A!None, Dead, A!Known
<1> QED
  BY <1>1, <1>2, <1>3, <1>4, <1>5 DEF ActInv, A!TokenOnce, A!SpentInv

LEMMA ConfigureInv ==
    ASSUME ActInv, NEW c \in Client, NEW t \in DOMAIN owner, A!Configure(c, t)
    PROVE  ActInv'
BY AskInv DEF A!Configure, A!server

LEMMA RunCommandInv ==
    ASSUME ActInv, NEW c \in Client, A!RunCommand(c)
    PROVE  ActInv'
<1>1. conf[c].token \in DOMAIN owner /\ owner[conf[c].token] = UserOf[c]
  BY DEF ActInv, Ownership, A!RunCommand
<1> QED BY <1>1, AskInv DEF A!RunCommand, A!server

\* A call ends without credentials: the file is left alone, or has the code
\* and no secret.  Its request may still be on its way.
LEMMA EndCallInv ==
    ASSUME ActInv, NEW c \in Client, call[c] # A!NoCall,
           \/ A!FallBack(c)
           \/ UNCHANGED conf /\ \A q \in net' : q.try # call[c].try,
           call' = [call EXCEPT ![c] = A!NoCall], net' \subseteq net,
           fails' \in [Client -> 0..MaxFails],
           UNCHANGED <<users, spent, devices, calls, owner, makes, broken>>
    PROVE  ActInv'
<1>0. /\ call[c].kind \in {"config", "run"} /\ call[c].token \in A!Token /\ call[c].try \in 1..calls
      /\ A!NoCall.try \notin 1..calls /\ A!NoCall.kind = "none"
  BY DEF ActInv, ActTypes, A!NoCall, A!None
<1>1. conf' \in [Client -> A!Config]
  <2>1. CASE UNCHANGED conf
    BY <2>1 DEF ActInv, ActTypes, A!TypeOK
  <2>2. CASE A!FallBack(c)
    <3>1. \A e \in Client : conf'[e] \in A!Config
      <4> SUFFICES ASSUME NEW e \in Client PROVE conf'[e] \in A!Config
        OBVIOUS
      <4>1. CASE call[c].kind = "config" /\ e = c
        <5>1. conf'[e] = [[conf[c] EXCEPT !.token = call[c].token] EXCEPT !.secret = A!None]
          BY <2>2, <4>1 DEF A!FallBack, ActInv, ActTypes, A!TypeOK
        <5>2. conf[c] \in A!Config
          BY DEF ActInv, ActTypes, A!TypeOK
        <5> QED BY <1>0, <5>1, <5>2 DEF A!Config
      <4>2. CASE call[c].kind # "config" \/ e # c
        BY <2>2, <4>2 DEF A!FallBack, ActInv, ActTypes, A!TypeOK
      <4> QED BY <4>1, <4>2
    <3>2. conf' = [e \in Client |-> conf'[e]]
      BY <2>2 DEF A!FallBack, ActInv, ActTypes, A!TypeOK
    <3> QED BY <3>1, <3>2
  <2> QED BY <2>1, <2>2
<1>2. ActTypes'
  BY <1>1 DEF ActInv, ActTypes, A!TypeOK
<1>3. \A e \in Client : /\ conf'[e].dev = conf[e].dev
                        /\ conf'[e].secret \in {conf[e].secret, A!None}
                        /\ e # c => conf'[e] = conf[e]
                        /\ conf'[e].token \in {conf[e].token, call[e].token}
  BY DEF A!FallBack, ActInv, ActTypes, A!TypeOK, A!Config
<1>4. Ownership'
  <2>1. \A e \in Client : conf'[e].token = conf[e].token \/ (e = c /\ conf'[e].token = call[c].token)
    BY <1>3
  <2> QED BY <2>1 DEF ActInv, Ownership, ActTypes
<1>5. Tries'
  BY DEF ActInv, Tries
<1>6. DeviceIds'
  BY <1>0, <1>3 DEF ActInv, DeviceIds, ActTypes, Tries, A!TypeOK, A!Asks
<1>7. SecretsLive'
  <2>1. conf'[c].secret # A!None => UNCHANGED conf /\ \A q \in net' : q.try # call[c].try
    BY <1>0 DEF A!FallBack, ActInv, ActTypes, A!TypeOK, A!Config, DeviceIds
  <2> QED BY <1>0, <1>3, <2>1 DEF ActInv, SecretsLive, ActTypes, Dead, A!Known
<1> QED
  BY <1>2, <1>4, <1>5, <1>6, <1>7 DEF ActInv, A!TokenOnce, A!SpentInv

LEMMA GiveUpInv ==
    ASSUME ActInv, NEW c \in Client, A!GiveUp(c)
    PROVE  ActInv'
<1>1. fails' \in [Client -> 0..MaxFails]
  BY DEF A!GiveUp, A!server, ActInv, ActTypes, A!TypeOK
<1>2. /\ call[c] # A!NoCall /\ A!FallBack(c)
      /\ call' = [call EXCEPT ![c] = A!NoCall] /\ net' \subseteq net
      /\ UNCHANGED <<users, spent, devices, calls, owner, makes, broken>>
  BY DEF A!GiveUp, A!server
<1> QED BY <1>1, <1>2, EndCallInv

LEMMA ClientDiesInv ==
    ASSUME ActInv, NEW c \in Client, A!ClientDies(c)
    PROVE  ActInv'
<1> USE DEF A!ClientDies, A!server
<1>0. call[c].try \in 1..calls /\ A!NoCall.try \notin 1..calls /\ A!NoCall.kind = "none"
  BY DEF ActInv, ActTypes, A!NoCall, A!None
<1>1. ActTypes'
  BY DEF ActInv, ActTypes, A!TypeOK
<1>2. Ownership' /\ Tries'
  BY DEF ActInv, Ownership, Tries, ActTypes
<1>3. DeviceIds'
  BY <1>0 DEF ActInv, DeviceIds, ActTypes, Tries, A!TypeOK, A!Asks
<1>4. SecretsLive'
  BY DEF ActInv, SecretsLive, ActTypes, Dead, A!Known
<1> QED
  BY <1>1, <1>2, <1>3, <1>4 DEF ActInv, A!TokenOnce, A!SpentInv

\* A step that loses requests, spends codes or counts failures.
LEMMA LoseInv ==
    ASSUME ActInv, net' \subseteq net, spent \subseteq spent', spent' \subseteq A!Token,
           fails' \in [Client -> 0..MaxFails],
           UNCHANGED <<users, devices, conf, call, calls, owner, makes, broken>>
    PROVE  ActInv'
BY DEF ActInv, ActTypes, A!TypeOK, Ownership, Tries, DeviceIds, SecretsLive, Dead, A!Known,
       A!TokenOnce, A!SpentInv

LEMMA FailExpiresInv ==
    ASSUME ActInv, NEW c \in Client, A!FailExpires(c)
    PROVE  ActInv'
<1>1. fails' \in [Client -> 0..MaxFails]
  BY DEF A!FailExpires, ActInv, ActTypes, A!TypeOK
<1> QED BY <1>1, LoseInv DEF A!FailExpires, ActInv, ActTypes, A!TypeOK

LEMMA ServiceDiesInv ==
    ASSUME ActInv, A!ServiceDies
    PROVE  ActInv'
<1>1. fails' \in [Client -> 0..MaxFails]
  BY DEF A!ServiceDies
<1>2. spent \subseteq spent' /\ spent' \subseteq A!Token
  BY DEF A!ServiceDies, ActInv, ActTypes, A!TypeOK, A!Asks
<1> QED BY <1>1, <1>2, LoseInv DEF A!ServiceDies

\* A refusal: the client is told, if it still waits for this request.
LEMMA RefuseInv ==
    ASSUME ActInv, NEW q \in net, A!Refuse(q)
    PROVE  ActInv'
<1> DEFINE c == q.client
<1>0. c \in Client /\ q.try \in 1..calls
  BY DEF ActInv, ActTypes, A!TypeOK, A!Asks, Tries
<1>1. /\ net' = net \ {q}
      /\ UNCHANGED <<users, spent, devices, calls, owner, makes, broken>>
  BY DEF A!Refuse
<1>2. fails' \in [Client -> 0..MaxFails]
  BY <1>0 DEF A!Refuse, A!Locked, ActInv, ActTypes, A!TypeOK
<1>3. PICK code \in {429, 401, 409} : A!Answer(q, code)
  BY DEF A!Refuse
<1>4. CASE call[c].try # q.try
  BY <1>1, <1>2, <1>3, <1>4, LoseInv DEF A!Answer, ActInv, ActTypes, A!TypeOK
<1>5. CASE call[c].try = q.try
  <2>1. /\ call' = [call EXCEPT ![c] = A!NoCall]
        /\ A!FallBack(c) \/ UNCHANGED conf
    BY <1>3, <1>5 DEF A!Answer
  <2>2. \A r \in net' : r.try # call[c].try
    BY <1>1, <1>5 DEF ActInv, Tries
  <2>3. call[c] # A!NoCall
    BY <1>0, <1>5 DEF A!NoCall, A!None
  <2> QED BY <1>0, <1>1, <1>2, <2>1, <2>2, <2>3, EndCallInv
<1> QED BY <1>4, <1>5

\* An accepted request: of the codes of its user only the current one is
\* accepted, so that no other request of the client can be any more.
LEMMA ActivateInv ==
    ASSUME ActInv, NEW q \in net, NEW d \in A!DeviceId, A!Activate(q, d)
    PROVE  ActInv'
<1> DEFINE c == q.client
           t == q.token
           waits == call[c].try = q.try
<1>0. /\ c \in Client /\ t \in A!Token /\ q.try \in 1..calls
      /\ t \in DOMAIN owner /\ owner[t] = UserOf[c] /\ owner[t] \in User
      /\ t \notin spent /\ A!Known(t)
  BY DEF ActInv, ActTypes, A!TypeOK, A!Asks, Tries, Ownership, A!Activate, A!Accepts, A!Spent
<1>1. /\ net' = net \ {q} /\ spent' = spent \cup {t}
      /\ fails' = [fails EXCEPT ![c] = 0]
      /\ devices' = [devices EXCEPT ![d] = [user |-> owner[t], secret |-> t, revoked |-> FALSE]]
      /\ makes' = [makes EXCEPT ![t] = @ + 1]
      /\ UNCHANGED <<users, calls, owner, broken>>
  BY DEF A!Activate, A!Upsert
<1>2. IF waits
      THEN /\ conf' = [conf EXCEPT ![c] = [token |-> A!None, dev |-> d, secret |-> t]]
           /\ call' = [call EXCEPT ![c] = A!NoCall]
      ELSE UNCHANGED <<conf, call>>
  BY DEF A!Activate, A!Stored
<1>3. d = q.dev \/ (q.dev = A!None /\ \A e \in Client : conf[e].dev # d)
  BY DEF A!Activate, A!IdOf
<1>4. A!NoCall.try \notin 1..calls /\ A!NoCall.kind = "none" /\ A!None \notin A!Token
      /\ A!None \notin A!DeviceId
  BY DEF A!NoCall, A!None, A!Token, A!DeviceId
<1>5. makes' \in [A!Token -> Nat] /\ (A!TokenOnce /\ A!SpentInv)'
  <2>1. makes[t] = 0
    BY <1>0 DEF ActInv, A!SpentInv
  <2>2. \A s \in A!Token : makes'[s] = IF s = t THEN 1 ELSE makes[s]
    BY <1>0, <1>1, <2>1 DEF ActInv, ActTypes, A!TypeOK
  <2>3. makes' \in [A!Token -> Nat]
    BY <1>0, <1>1, <2>1 DEF ActInv, ActTypes, A!TypeOK
  <2> QED BY <1>1, <2>2, <2>3 DEF ActInv, A!TokenOnce, A!SpentInv
<1>6. ActTypes'
  <2>1. devices' \in [A!DeviceId -> A!Row]
    BY <1>0, <1>1 DEF ActInv, ActTypes, A!TypeOK, A!Row, A!Secret, A!Token
  <2>2. conf' \in [Client -> A!Config]
    <3>1. [token |-> A!None, dev |-> d, secret |-> t] \in A!Config
      BY <1>0 DEF A!Config, A!Secret, A!Token
    <3> QED BY <1>0, <1>2, <3>1 DEF ActInv, ActTypes, A!TypeOK
  <2>3. call' \in [Client -> {A!NoCall} \cup
                   [kind : {"config", "run"}, token : A!Token, try : 1..calls]]
    BY <1>2 DEF ActInv, ActTypes
  <2>4. fails' \in [Client -> 0..MaxFails] /\ spent' \subseteq A!Token /\ net' \subseteq A!Asks
    BY <1>0, <1>1 DEF ActInv, ActTypes, A!TypeOK
  <2>5. A!TypeOK'
    BY <1>1, <1>5, <2>1, <2>2, <2>4 DEF ActInv, ActTypes, A!TypeOK
  <2> QED BY <1>1, <2>3, <2>5 DEF ActInv, ActTypes
<1>7. Ownership'
  <2>1. \A e \in Client : /\ conf'[e].token \in {conf[e].token, A!None}
                          /\ call'[e] \in {call[e], A!NoCall}
    BY <1>0, <1>2 DEF ActInv, ActTypes, A!TypeOK, A!Config
  <2> QED BY <1>1, <2>1 DEF ActInv, Ownership
<1>8. Tries'
  BY <1>1 DEF ActInv, Tries
<1>9. DeviceIds'
  <2>1. CASE ~waits
    BY <1>1, <1>2, <2>1 DEF ActInv, DeviceIds
  <2>2. CASE waits
    <3>1. d = conf[c].dev \/ \A e \in Client : conf[e].dev # d
      BY <1>3, <2>2 DEF ActInv, DeviceIds
    <3>2. \A e \in Client : conf'[e].dev = IF e = c THEN d ELSE conf[e].dev
      BY <1>0, <1>2, <2>2 DEF ActInv, ActTypes, A!TypeOK, A!Config
    <3>3. \A e, f \in Client : conf'[e].dev = conf'[f].dev /\ conf'[e].dev # A!None => e = f
      BY <3>1, <3>2, <1>4 DEF ActInv, DeviceIds
    <3>4. \A r \in net' : r.dev # A!None => r.dev = conf'[r.client].dev
      BY <1>1, <1>3, <2>2, <3>1, <3>2, <1>4 DEF ActInv, DeviceIds, ActTypes, A!TypeOK, A!Asks
    <3>5. \A r \in net' : r.try = call'[r.client].try => r.client # c
      BY <1>0, <1>1, <1>2, <1>4, <2>2 DEF ActInv, ActTypes, Tries
    <3>6. \A r \in net' : r.client # c => call'[r.client] = call[r.client] /\ conf'[r.client] = conf[r.client]
      BY <1>1, <1>2, <2>2 DEF ActInv, ActTypes, A!TypeOK, A!Asks
    <3>7. \A r \in net' : r.try = call'[r.client].try => r.dev = conf'[r.client].dev
      BY <1>1, <3>5, <3>6 DEF ActInv, DeviceIds
    <3>8. \A e \in Client : call'[e].kind = "run" => conf'[e].secret = A!None
      BY <1>0, <1>2, <1>4, <2>2 DEF ActInv, DeviceIds, ActTypes, A!TypeOK
    <3> QED BY <3>3, <3>4, <3>7, <3>8 DEF DeviceIds
  <2> QED BY <2>1, <2>2
<1>10. SecretsLive'
  <2>1. \A r \in net' : r.client = c => Dead(r.token)'
    <3> SUFFICES ASSUME NEW r \in net', r.client = c, A!Known(r.token), r.token # t PROVE FALSE
      BY <1>1 DEF Dead, A!Known
    <3>1. r \in net /\ r.token # A!None /\ t # A!None
      BY <1>0, <1>1, <1>4 DEF ActInv, ActTypes, A!TypeOK, A!Asks
    <3>2. owner[r.token] = owner[t]
      BY <1>0, <3>1 DEF ActInv, Ownership
    <3>3. users[owner[t]] = t /\ users[owner[r.token]] = r.token
      BY <1>0, <3>1 DEF ActInv, Ownership, A!Known
    <3> QED BY <3>2, <3>3
  <2>2. \A r \in net' : Dead(r.token) => Dead(r.token)'
    BY <1>1 DEF Dead, A!Known
  <2>3. SUFFICES ASSUME NEW e \in Client \ broken', conf'[e].secret # A!None
                 PROVE  /\ conf'[e].dev \in A!DeviceId
                        /\ devices'[conf'[e].dev].secret = conf'[e].secret
                        /\ ~devices'[conf'[e].dev].revoked
                        /\ \A r \in net' : r.client = e /\ r.try # call'[e].try => Dead(r.token)'
    BY DEF SecretsLive
  <2>4. CASE e = c /\ waits
    BY <1>0, <1>1, <1>2, <2>1, <2>4 DEF ActInv, ActTypes, A!TypeOK
  <2>5. CASE e # c
    <3>1. conf'[e] = conf[e] /\ call'[e] = call[e]
      BY <1>2, <2>5 DEF ActInv, ActTypes, A!TypeOK
    <3>2. conf[e].dev # d
      BY <1>0, <1>3, <1>4, <2>5 DEF ActInv, DeviceIds
    <3> QED
      BY <1>1, <2>2, <2>3, <3>1, <3>2 DEF ActInv, SecretsLive, ActTypes, A!TypeOK
  <2>6. CASE e = c /\ ~waits
    <3>1. conf'[c].secret # A!None /\ c \in Client \ broken /\ UNCHANGED conf
      BY <1>1, <1>2, <2>3, <2>6
    <3>2. Dead(t)
      BY <2>6, <3>1 DEF ActInv, SecretsLive
    <3> QED BY <1>0, <3>2 DEF Dead
  <2> QED BY <2>4, <2>5, <2>6
<1> QED
  BY <1>5, <1>6, <1>7, <1>8, <1>9, <1>10 DEF ActInv

LEMMA ActStep == ActInv /\ [A!Next]_(A!vars) => ActInv'
<1> SUFFICES ASSUME ActInv, [A!Next]_(A!vars) PROVE ActInv'
  OBVIOUS
<1>1. CASE UNCHANGED A!vars
  BY <1>1, LoseInv DEF A!vars, ActInv, ActTypes, A!TypeOK
<1>2. ASSUME NEW u \in User, A!IssueToken(u) PROVE ActInv'
  BY <1>2, IssueTokenInv
<1>3. ASSUME NEW u \in User, NEW all \in BOOLEAN, A!DeleteUser(u, all) PROVE ActInv'
  BY <1>3, DeleteUserInv
<1>4. ASSUME NEW d \in A!DeviceId, A!Revoke(d) PROVE ActInv'
  BY <1>4, RevokeInv
<1>5. ASSUME NEW c \in Client, A!RunCommand(c) \/ A!GiveUp(c) \/ A!ClientDies(c) \/ A!FailExpires(c)
      PROVE  ActInv'
  BY <1>5, RunCommandInv, GiveUpInv, ClientDiesInv, FailExpiresInv
<1>6. ASSUME NEW c \in Client, NEW t \in DOMAIN owner, A!Configure(c, t) PROVE ActInv'
  BY <1>6, ConfigureInv
<1>7. ASSUME NEW q \in net, A!Refuse(q) PROVE ActInv'
  BY <1>7, RefuseInv
<1>8. ASSUME NEW q \in net, NEW d \in A!DeviceId, A!Activate(q, d) PROVE ActInv'
  BY <1>8, ActivateInv
<1>9. CASE A!ServiceDies
  BY <1>9, ServiceDiesInv
<1> QED
  BY <1>1, <1>2, <1>3, <1>4, <1>5, <1>6, <1>7, <1>8, <1>9 DEF A!Next

\* A code activates at most one device (consume_token is one conditional
\* update), whatever is lost, repeated, late or interrupted.
THEOREM TokensActivateOnce == A!Spec => []TokenOnce
<1>1. ActInv => TokenOnce
  BY DEF ActInv, ActTypes, TokenOnce
<1> QED BY <1>1, ActInit, ActStep, PTL DEF A!Spec

\* The secret in a client's file is the one its device is known by, unless
\* the client died in a call or an administrator took the device away.
THEOREM StoredSecretsWork == A!Spec => []StoredSecretWorks
<1>1. ActInv => StoredSecretWorks
  BY DEF ActInv, SecretsLive, StoredSecretWorks, A!StoredSecretWorks
<1> QED BY <1>1, ActInit, ActStep, PTL DEF A!Spec

---------------------------------------------------------------------------
(* Targets: what may be in flight together                                 *)

TaskStatus == T!InFlight \cup {"over"}
Submitted == [targets : SUBSET Raw, status : TaskStatus, readOnly : BOOLEAN, force : BOOLEAN]

TargetsInv ==
    /\ task \in Seq(Submitted)
    /\ T!InFlightDisjoint

LEMMA PathLength ==
    ASSUME NEW p \in T!Path
    PROVE  /\ Len(p) \in Nat \ {0} /\ p \in Seq(Name) /\ DOMAIN p = 1..Len(p)
<1>1. PICK n : n \in 1..Depth /\ p \in [1..n -> Name]
  BY DEF T!Path
<1>2. n \in Nat \ {0}
  <2>1. Depth \in Nat
    BY PathAssumption
  <2> QED BY <1>1, <2>1
<1>3. p \in Seq(Name) /\ Len(p) = n
  BY <1>1, <1>2
<1> QED BY <1>1, <1>2, <1>3

\* The text of a path that lies in another's begins with the other's text and
\* a slash, or is the same: the comparison of texts sees every nested pair.
LEMMA NestedTexts ==
    ASSUME NEW p \in T!Path, NEW q \in T!Path, T!IsPrefix(p, q)
    PROVE  T!overlap(T!Spelled(p), T!Spelled(q)) /\ T!overlap(T!Spelled(q), T!Spelled(p))
<1> DEFINE n == Len(p)
           m == Len(q)
           s == T!Spelled(p)
           t == T!Spelled(q)
<1>1. /\ n \in Nat \ {0} /\ m \in Nat \ {0} /\ p \in Seq(Name) /\ q \in Seq(Name)
      /\ DOMAIN p = 1..n /\ DOMAIN q = 1..m
  BY PathLength
<1>2. n <= m /\ \A k \in 1..n : p[k] = q[k]
  BY <1>1 DEF T!IsPrefix
<1>3. /\ DOMAIN s = 1..(2 * n - 1) /\ DOMAIN t = 1..(2 * m - 1)
      /\ Len(s) = 2 * n - 1 /\ Len(t) = 2 * m - 1
      /\ s \in Seq(Name \cup {"/"}) /\ t \in Seq(Name \cup {"/"})
  <2>1. ASSUME NEW r \in Seq(Name), Len(r) # 0
        PROVE  /\ T!Spelled(r) \in [1..(2 * Len(r) - 1) -> Name \cup {"/"}]
               /\ 2 * Len(r) - 1 \in Nat
    <3>1. \A i \in 1..(2 * Len(r) - 1) : i % 2 # 0 => (i + 1) \div 2 \in 1..Len(r)
      BY <2>1
    <3> QED BY <2>1, <3>1 DEF T!Spelled
  <2>2. /\ s \in [1..(2 * n - 1) -> Name \cup {"/"}] /\ 2 * n - 1 \in Nat
        /\ t \in [1..(2 * m - 1) -> Name \cup {"/"}] /\ 2 * m - 1 \in Nat
    BY <1>1, <2>1
  <2> HIDE DEF s, t, n, m
  <2> QED BY <2>2
<1>4. ASSUME NEW i \in 1..(2 * n - 1) PROVE s[i] = t[i]
  <2>1. i \in 1..(2 * m - 1)
    BY <1>1, <1>2
  <2>2. i % 2 # 0 => (i + 1) \div 2 \in 1..n
    BY <1>1
  <2> QED BY <1>1, <1>2, <2>1, <2>2 DEF T!Spelled
<1>5. CASE n = m
  <2>1. s = t
    BY <1>3, <1>4, <1>5
  <2> QED BY <2>1 DEF T!overlap
<1>6. CASE n # m
  <2>1. 2 * n \in 1..(2 * m - 1) /\ (2 * n) % 2 = 0
    <3> HIDE DEF n, m
    <3> QED BY <1>1, <1>2, <1>6
  <2>2. t[2 * n] = "/"
    BY <1>1, <2>1 DEF T!Spelled
  <2> HIDE DEF s, t, n, m
  <2>3. Append(s, "/") \in Seq(Name \cup {"/"}) /\ Len(Append(s, "/")) = 2 * n
        /\ \A i \in 1..(2 * n) : Append(s, "/")[i] = IF i = 2 * n THEN "/" ELSE s[i]
    <3> DEFINE u == Append(s, "/")
    <3>1. s \in Seq(Name \cup {"/"}) /\ "/" \in Name \cup {"/"} /\ Len(s) = 2 * n - 1
      BY <1>3
    <3>2. u \in Seq(Name \cup {"/"}) /\ Len(u) = Len(s) + 1
          /\ \A i \in 1..Len(s) : u[i] = s[i] /\ u[Len(s) + 1] = "/"
      BY <3>1, AppendProperties
    <3>3. u[Len(s) + 1] = "/"
      BY <3>1, AppendProperties
    <3> HIDE DEF u
    <3>4. Len(s) + 1 = 2 * n /\ \A i \in 1..(2 * n) : i # 2 * n => i \in 1..Len(s)
      BY <1>1, <3>1
    <3> QED BY <3>2, <3>3, <3>4 DEF u
  <2>4. T!Inside(t, s)
    <3>1. Len(Append(s, "/")) <= Len(t)
      BY <1>1, <1>3, <2>1, <2>3
    <3>2. \A i \in 1..Len(Append(s, "/")) : Append(s, "/")[i] = t[i]
      BY <1>1, <1>4, <2>2, <2>3
    <3> QED BY <3>1, <3>2 DEF T!Inside, T!IsPrefix
  <2> QED BY <2>4 DEF T!overlap, s, t
<1> QED BY <1>5, <1>6

LEMMA TargetsInit == T!Init => TargetsInv
BY DEF T!Init, TargetsInv, T!InFlightDisjoint

\* The check at submission is with all that are in flight, in both directions.
LEMMA SubmitInv ==
    ASSUME TargetsInv, NEW ts \in SUBSET Raw, NEW r \in BOOLEAN, NEW f \in BOOLEAN, T!Submit(ts, r, f)
    PROVE  TargetsInv'
<1> DEFINE new == [targets |-> ts, status |-> "queued", readOnly |-> r, force |-> f]
           n == Len(task)
<1>1. /\ n \in Nat /\ DOMAIN task = 1..n
      /\ task' = Append(task, new) /\ DOMAIN task' = 1..n + 1
      /\ \A i \in 1..n : task'[i] = task[i]
      /\ task'[n + 1] = new
  BY DEF TargetsInv, T!Submit
<1>2. ASSUME NEW i \in DOMAIN task, task[i].status \in T!InFlight, ~r, ~f,
             NEW p \in T!Path, NEW q \in T!Path,
             \E a \in task[i].targets : T!Names(a, p), \E b \in ts : T!Names(b, q)
      PROVE  ~(T!IsPrefix(p, q) \/ T!IsPrefix(q, p))
  <2> SUFFICES ASSUME T!IsPrefix(p, q) \/ T!IsPrefix(q, p) PROVE FALSE
    OBVIOUS
  <2>1. T!overlap(T!Spelled(q), T!Spelled(p))
    BY NestedTexts
  <2>2. T!Spelled(p) # <<>> /\ T!Spelled(q) # <<>>
    <3>1. ASSUME NEW o \in T!Path PROVE T!Spelled(o) # <<>>
      <4>1. Len(o) \in Nat /\ Len(o) # 0
        BY PathLength
      <4>2. 1 \in DOMAIN T!Spelled(o)
        BY <4>1 DEF T!Spelled
      <4> QED BY <4>2
    <3> QED BY <3>1
  <2>3. T!Spelled(p) \in T!Named(task[i].targets) /\ T!Spelled(q) \in T!Named(ts)
    BY <1>2, <2>2 DEF T!Named, T!Names
  <2>4. ts # {} /\ i \in T!find_conflicts(ts)
    BY <1>2, <2>1, <2>3 DEF T!find_conflicts, T!Named
  <2> QED BY <1>2, <2>4 DEF T!Submit
<1>3. task' \in Seq(Submitted)
  <2>1. new \in Submitted
    BY DEF Submitted, TaskStatus, T!InFlight
  <2> QED BY <1>1, <2>1 DEF TargetsInv
<1>4. T!InFlightDisjoint'
  <2> SUFFICES ASSUME NEW i \in 1..n + 1, NEW j \in 1..n + 1, i < j,
                      task'[i].status \in T!InFlight, task'[j].status \in T!InFlight,
                      ~task'[j].readOnly, ~task'[j].force,
                      NEW p \in T!Path, NEW q \in T!Path,
                      \E a \in task'[i].targets : T!Names(a, p),
                      \E b \in task'[j].targets : T!Names(b, q)
               PROVE  ~(T!IsPrefix(p, q) \/ T!IsPrefix(q, p))
    BY <1>1 DEF T!InFlightDisjoint
  <2>1. CASE j = n + 1
    BY <1>1, <1>2, <2>1
  <2>2. CASE j # n + 1
    <3>1. i \in DOMAIN task /\ j \in DOMAIN task /\ task'[i] = task[i] /\ task'[j] = task[j]
      BY <1>1, <2>2
    <3> QED BY <3>1 DEF TargetsInv, T!InFlightDisjoint
  <2> QED BY <2>1, <2>2
<1> QED BY <1>3, <1>4 DEF TargetsInv

\* A task that is not in flight does not come back.
LEMMA BecomesInv ==
    ASSUME TargetsInv, NEW i \in DOMAIN task, NEW from \in SUBSET T!InFlight, NEW to \in TaskStatus,
           T!Becomes(i, from, to)
    PROVE  TargetsInv'
<1>1. /\ DOMAIN task' = DOMAIN task
      /\ \A j \in DOMAIN task : /\ task'[j].targets = task[j].targets
                                /\ task'[j].readOnly = task[j].readOnly
                                /\ task'[j].force = task[j].force
                                /\ task'[j].status \in T!InFlight => task[j].status \in T!InFlight
  BY DEF T!Becomes, TargetsInv, Submitted
<1>2. task' \in Seq(Submitted)
  <2>1. /\ DOMAIN task' = 1..Len(task) /\ Len(task) \in Nat
        /\ task' = [j \in 1..Len(task) |-> IF j = i THEN [task[i] EXCEPT !.status = to] ELSE task[j]]
    <3>1. DOMAIN task = 1..Len(task) /\ Len(task) \in Nat
      BY DEF TargetsInv
    <3> QED BY <3>1 DEF T!Becomes
  <2>2. \A j \in 1..Len(task) : task[j] \in Submitted
    BY DEF TargetsInv
  <2>3. [task[i] EXCEPT !.status = to] \in Submitted
    BY <2>2 DEF Submitted, TargetsInv
  <2> QED BY <2>1, <2>2, <2>3
<1>3. T!InFlightDisjoint'
  BY <1>1 DEF TargetsInv, T!InFlightDisjoint
<1> QED BY <1>2, <1>3 DEF TargetsInv

\* Tasks in flight name disjoint directories, whatever became of the earlier
\* ones, unless the later was forced or only reads (submit_task): for texts of
\* words with a slash between any two, trimmed of blanks and slashes at both
\* ends; of a text with "..", "." or two slashes within it says nothing.
THEOREM TargetsDisjoint == T!Spec => []InFlightDisjoint
<1>1. TargetsInv /\ [T!Next]_(T!vars) => TargetsInv'
  <2> SUFFICES ASSUME TargetsInv, [T!Next]_(T!vars) PROVE TargetsInv'
    OBVIOUS
  <2>1. ASSUME NEW ts \in SUBSET Raw, NEW r \in BOOLEAN, NEW f \in BOOLEAN, T!Submit(ts, r, f)
        PROVE  TargetsInv'
    BY <2>1, SubmitInv
  <2>2. ASSUME NEW i \in DOMAIN task, T!Proceeds(i) PROVE TargetsInv'
    <3> {"queued"} \in SUBSET T!InFlight /\ {"running"} \in SUBSET T!InFlight
          /\ {"pending_approval"} \in SUBSET T!InFlight /\ T!InFlight \in SUBSET T!InFlight
          /\ T!InFlight \cup {"over"} \subseteq TaskStatus
      BY DEF T!InFlight, TaskStatus
    <3> QED BY <2>2, BecomesInv DEF T!Proceeds
  <2>3. CASE UNCHANGED task
    BY <2>3 DEF TargetsInv, T!InFlightDisjoint
  <2> QED BY <2>1, <2>2, <2>3 DEF T!Next, T!vars
<1>2. TargetsInv => InFlightDisjoint
  BY DEF TargetsInv, InFlightDisjoint
<1> QED BY <1>1, <1>2, TargetsInit, PTL DEF T!Spec

---------------------------------------------------------------------------
(* Knowledge: what a run finds in its directory                            *)

Files == [made : BOOLEAN,
          mcp : SUBSET (Server \cup K!NoFile), claudeMcp : SUBSET (Server \cup K!NoFile),
          agentsMd : SUBSET (Note \cup K!NoFile), claudeMd : SUBSET (Note \cup K!NoFile),
          links : SUBSET Skill]

\* A directory no run has prepared has none of the files.
KnowledgeInv ==
    /\ dir \in [Dir -> Files] /\ engine \in {"opencode", "claude"}
    /\ \A d \in Dir : ~dir[d].made => dir[d] = K!NewDir
    /\ K!LoadsWhatIsShared

LEMMA KnowledgeInit == K!Init => KnowledgeInv
BY DEF K!Init, KnowledgeInv, K!LoadsWhatIsShared, Files, K!NewDir

LEMMA RunInv ==
    ASSUME KnowledgeInv, NEW d \in Dir, K!Run(d), UNCHANGED conventions
    PROVE  KnowledgeInv'
<1> DEFINE f == dir[d]
           g == dir'[d]
<1>1. /\ UNCHANGED <<skills, servers, notes, engine, conventions>>
      /\ ran' = [dir |-> d, engine |-> engine, reused |-> f.made]
      /\ dir' = [dir EXCEPT ![d] = IF engine = "claude" THEN K!PrepareClaude(f)
                                                        ELSE K!PrepareOpencode(f)]
  BY DEF K!Run, K!shared
<1>2. /\ K!SharedMcp # K!NoFile /\ K!SharedMemory # K!NoFile /\ K!ClaudeMcp # K!NoFile
      /\ K!SharedMcp \subseteq Server /\ K!SharedMemory \subseteq Note
      /\ K!ClaudeMcp \subseteq Server /\ K!WithSkillMd \subseteq Skill
  BY NameAssumption DEF K!SharedMcp, K!SharedMemory, K!ClaudeMcp, K!NoFile, K!WithSkillMd
<1>3. UNCHANGED <<K!SharedMcp, K!SharedMemory, K!ClaudeMcp, K!WithSkillMd>>
  BY <1>1 DEF K!SharedMcp, K!SharedMemory, K!ClaudeMcp, K!WithSkillMd
<1>4. f \in Files
      /\ (~f.made => f.agentsMd = K!NoFile /\ f.claudeMcp = K!NoFile /\ f.claudeMd = K!NoFile)
  BY DEF KnowledgeInv, K!NewDir
<1>5. CASE engine = "opencode"
  <2>1. g = [f EXCEPT !.made = TRUE, !.mcp = K!SharedMcp,
                      !.agentsMd = K!Written(f.agentsMd, K!SharedMemory)]
    BY <1>1, <1>4, <1>5 DEF K!PrepareOpencode, KnowledgeInv, Files
  <2>2. /\ g.made /\ g.mcp = K!SharedMcp /\ g.agentsMd = K!Written(f.agentsMd, K!SharedMemory)
        /\ g \in Files
    BY <1>2, <1>4, <2>1 DEF Files, K!Written
  <2>3. K!LoadsWhatIsShared'
    BY <1>1, <1>2, <1>3, <1>4, <1>5, <2>2 DEF K!LoadsWhatIsShared, K!Read, K!Written
  <2> QED BY <1>1, <1>5, <2>2, <2>3 DEF KnowledgeInv
<1>6. CASE engine = "claude"
  <2>1. g = [f EXCEPT !.made = TRUE, !.links = f.links \cup K!WithSkillMd,
                      !.claudeMcp = K!Written(f.claudeMcp, K!ClaudeMcp),
                      !.claudeMd = IF conventions THEN K!SharedMemory
                                   ELSE K!Written(f.claudeMd, K!SharedMemory)]
    BY <1>1, <1>4, <1>6 DEF K!PrepareClaude, KnowledgeInv, Files
  <2>2. /\ g.made /\ g.links = f.links \cup K!WithSkillMd
        /\ g.claudeMcp = K!Written(f.claudeMcp, K!ClaudeMcp)
        /\ g.claudeMd = IF conventions THEN K!SharedMemory ELSE K!Written(f.claudeMd, K!SharedMemory)
        /\ g \in Files
    BY <1>2, <1>4, <2>1 DEF Files, K!Written
  <2>3. K!LoadsWhatIsShared'
    BY <1>1, <1>2, <1>3, <1>4, <1>6, <2>2 DEF K!LoadsWhatIsShared, K!Read, K!Written
  <2> QED BY <1>1, <1>6, <2>2, <2>3 DEF KnowledgeInv
<1> QED BY <1>5, <1>6 DEF KnowledgeInv

\* An upload or a deletion: no run has been prepared from what is there now.
LEMMA SharedChangesInv ==
    ASSUME KnowledgeInv, ran' = K!NoRun, UNCHANGED <<engine, dir>>
    PROVE  KnowledgeInv'
BY DEF KnowledgeInv, K!LoadsWhatIsShared

\* A restart with the other engine leaves the directories to the next run.
LEMMA ReconfigureInv ==
    ASSUME KnowledgeInv, K!Reconfigure, UNCHANGED conventions
    PROVE  KnowledgeInv'
<1>1. UNCHANGED <<K!SharedMcp, K!SharedMemory, K!ClaudeMcp, K!WithSkillMd>>
  BY DEF K!Reconfigure, K!shared, K!SharedMcp, K!SharedMemory, K!ClaudeMcp, K!WithSkillMd
<1> QED BY <1>1 DEF K!Reconfigure, KnowledgeInv, K!LoadsWhatIsShared, K!Read

\* A run reads what is shared when it starts, whatever earlier runs and the
\* other engine left in its directory (prepare_run).
THEOREM RunsLoadWhatIsShared == K!Spec => []LoadsWhatIsShared
<1>1. KnowledgeInv /\ [K!Next]_(K!vars) => KnowledgeInv'
  <2> SUFFICES ASSUME KnowledgeInv, [K!Next]_(K!vars) PROVE KnowledgeInv'
    OBVIOUS
  <2>1. CASE UNCHANGED K!vars
    <3>1. UNCHANGED <<K!SharedMcp, K!SharedMemory, K!ClaudeMcp, K!WithSkillMd>>
      BY <2>1 DEF K!vars, K!shared, K!SharedMcp, K!SharedMemory, K!ClaudeMcp, K!WithSkillMd
    <3> QED BY <2>1, <3>1 DEF K!vars, KnowledgeInv, K!LoadsWhatIsShared, K!Read
  <2>2. ASSUME NEW s \in Skill, NEW f, K!SkillDelete(s) \/ K!SkillUpload(s, f) PROVE KnowledgeInv'
    BY <2>2, SharedChangesInv DEF K!SkillDelete, K!SkillUpload
  <2>3. ASSUME NEW s \in Server, NEW c, K!McpDelete(s) \/ K!McpUpload(s, c) PROVE KnowledgeInv'
    BY <2>3, SharedChangesInv DEF K!McpDelete, K!McpUpload
  <2>4. ASSUME NEW n \in Note, NEW t, K!MemoryDelete(n) \/ K!MemoryUpload(n, t) PROVE KnowledgeInv'
    BY <2>4, SharedChangesInv DEF K!MemoryDelete, K!MemoryUpload
  <2>5. CASE K!Reconfigure /\ UNCHANGED conventions
    BY <2>5, ReconfigureInv
  <2>6. ASSUME NEW d \in Dir, K!Run(d), UNCHANGED conventions PROVE KnowledgeInv'
    BY <2>6, RunInv
  <2> QED BY <2>1, <2>2, <2>3, <2>4, <2>5, <2>6 DEF K!Next, K!Step
<1>2. KnowledgeInv => LoadsWhatIsShared
  BY DEF KnowledgeInv, LoadsWhatIsShared
<1> QED BY <1>1, <1>2, KnowledgeInit, PTL DEF K!Spec

---------------------------------------------------------------------------
(* Store: what a caller of the database was told                           *)

\* The library's cardinality, under the name it has in the instance.
LEMMA StoreCardinality == \A X : S!Cardinality(X) = Cardinality(X)
BY DEF S!Cardinality, Cardinality, S!IsFiniteSet, IsFiniteSet

StoreTypes ==
    /\ kind \in [S!Call -> S!Kind \cup {"none"}] /\ at \in {"idle", "execute", "commit"}
    /\ attempt \in {1, 2} /\ hit \in BOOLEAN /\ token \in BOOLEAN
    /\ applied \in [S!Call -> Nat]
    /\ answer \in [S!Call -> {"none", "hit", "miss", "error"}]
    /\ S!current \in 0..MaxStoreCalls /\ S!Made = 1..S!current

\* A call is in the database once for each of its attempts that was cut at
\* the commit, and what a transaction still holds of an earlier call was
\* answered with an error.
StatementsOnce ==
    /\ \A c \in S!Call \ S!Made : applied[c] = 0 /\ c \notin tx /\ answer[c] = "none"
    /\ tx \subseteq S!Call
    /\ at # "idle" => /\ S!current \in S!Made /\ answer[S!current] = "none"
                      /\ applied[S!current] \in 0..attempt - 1
                      /\ applied[S!current] = 1 => S!current \in cut
    /\ at = "execute" => S!current \notin tx
    /\ at = "commit" => S!current \in tx
    /\ \A c \in tx : at = "idle" \/ c # S!current => answer[c] = "error"
    /\ pg => tx \subseteq (IF at = "commit" THEN {S!current} ELSE {})
    /\ \A c \in S!Made : answer[c] = "hit" => applied[c] \in 1..(IF c \in cut THEN 2 ELSE 1)

\* Whoever was told that it consumed the token found it there.
Winners == {c \in S!Made : kind[c] = "consume" /\ answer[c] = "hit"}
OneWinner ==
    /\ Winners # {} => token
    /\ \A c, d \in Winners : c = d
    /\ at = "commit" /\ hit /\ kind[S!current] = "consume" => ~token

StoreInv == StoreTypes /\ StatementsOnce /\ OneWinner

LEMMA StoreInit == S!Init => StoreInv
<1> SUFFICES ASSUME S!Init PROVE StoreInv
  OBVIOUS
<1>1. S!Made = {} /\ S!current = 0
  BY FS_EmptySet, StoreCardinality DEF S!Init, S!Made, S!current
<1>2. /\ kind \in [S!Call -> S!Kind \cup {"none"}] /\ applied \in [S!Call -> Nat]
      /\ answer \in [S!Call -> {"none", "hit", "miss", "error"}]
  BY DEF S!Init
<1>3. S!Made = 1..S!current /\ S!current \in 0..MaxStoreCalls
  BY <1>1
<1>4. StoreTypes
  BY <1>2, <1>3 DEF S!Init, StoreTypes
<1> QED BY <1>1, <1>4 DEF S!Init, StoreInv, StatementsOnce, OneWinner, Winners

\* The calls made are counted by their kinds.
LEMMA SameMade ==
    ASSUME UNCHANGED kind
    PROVE  UNCHANGED <<S!Made, S!current>> /\ S!Made \subseteq S!Call
BY DEF S!Made, S!current

LEMMA BeginInv ==
    ASSUME StoreInv, NEW k \in S!Kind, S!Begin(k), UNCHANGED pg
    PROVE  StoreInv'
<1>1. S!current + 1 \in S!Call /\ S!current \in Nat
  BY DEF S!Begin, StoreInv, StoreTypes, S!Call
<1>2. S!Made' = 1..S!current + 1
  BY <1>1 DEF S!Begin, S!Made, StoreInv, StoreTypes, S!Kind
<1>3. S!current' = S!current + 1
  <2>1. S!current' = Cardinality(1..S!current + 1)
    BY <1>2, StoreCardinality DEF S!current
  <2> QED BY <1>1, <2>1, FS_Interval
<1>4. S!current + 1 \notin S!Made /\ S!Made' = S!Made \cup {S!current + 1}
  BY <1>1, <1>2 DEF StoreInv, StoreTypes
<1>5. StoreTypes'
  <2>1. kind' \in [S!Call -> S!Kind \cup {"none"}]
    BY DEF S!Begin, StoreInv, StoreTypes
  <2>2. S!current' \in 0..MaxStoreCalls /\ S!Made' = 1..S!current'
    BY <1>1, <1>2, <1>3 DEF S!Call
  <2> QED BY <2>1, <2>2 DEF S!Begin, StoreInv, StoreTypes
<1>6. applied[S!current + 1] = 0 /\ S!current + 1 \notin tx /\ answer[S!current + 1] = "none"
  BY <1>1, <1>4 DEF StoreInv, StatementsOnce
<1>7. StatementsOnce'
  BY <1>3, <1>4, <1>6 DEF S!Begin, StoreInv, StatementsOnce
<1>8. OneWinner'
  <2>1. Winners' = Winners
    BY <1>4, <1>6 DEF S!Begin, StoreInv, StoreTypes, Winners
  <2> QED BY <2>1 DEF S!Begin, StoreInv, OneWinner
<1> QED BY <1>5, <1>7, <1>8 DEF StoreInv

\* Every other step leaves the calls as they are counted.
LEMMA KeepTypes ==
    ASSUME StoreInv, UNCHANGED kind, at' \in {"idle", "execute", "commit"}, attempt' \in {1, 2},
           hit' \in BOOLEAN, token' \in BOOLEAN, applied' \in [S!Call -> Nat],
           answer' \in [S!Call -> {"none", "hit", "miss", "error"}]
    PROVE  StoreTypes'
BY SameMade DEF StoreInv, StoreTypes

\* An answer goes to the call that runs.
LEMMA ReturnEffect ==
    ASSUME StoreInv, at # "idle", NEW a \in {"hit", "miss", "error"}, S!Return(a)
    PROVE  /\ at' = "idle" /\ UNCHANGED <<attempt, hit>>
           /\ S!current \in S!Made /\ S!current \in S!Call
           /\ answer' \in [S!Call -> {"none", "hit", "miss", "error"}]
           /\ \A c \in S!Call : answer'[c] = IF c = S!current THEN a ELSE answer[c]
<1>1. S!current \in S!Made /\ S!current \in S!Call
  BY DEF StoreInv, StatementsOnce, S!Made
<1> QED BY <1>1 DEF S!Return, StoreInv, StoreTypes

\* A connection that breaks: once more, or the caller's error.
LEMMA BrokenEffect ==
    ASSUME StoreInv, at # "idle", S!Broken
    PROVE  /\ tx' = {} /\ UNCHANGED hit /\ attempt' \in {1, 2}
           /\ S!current \in S!Made /\ S!current \in S!Call
           /\ answer' \in [S!Call -> {"none", "hit", "miss", "error"}]
           /\ \/ at' = "execute" /\ attempt = 1 /\ attempt' = 2 /\ UNCHANGED answer
              \/ /\ at' = "idle"
                 /\ \A c \in S!Call : answer'[c] = IF c = S!current THEN "error" ELSE answer[c]
<1>1. S!current \in S!Made /\ S!current \in S!Call
  BY DEF StoreInv, StatementsOnce, S!Made
<1>2. CASE attempt = 1
  BY <1>1, <1>2 DEF S!Broken, StoreInv, StoreTypes
<1>3. CASE attempt # 1
  BY <1>1, <1>3, ReturnEffect DEF S!Broken, StoreInv, StoreTypes
<1> QED BY <1>2, <1>3

\* What a commit makes durable.
LEMMA ApplyEffect ==
    ASSUME StoreInv, S!Apply
    PROVE  /\ applied' \in [S!Call -> Nat]
           /\ \A c \in S!Call : applied'[c] =
                IF c \in tx /\ (c = S!current => hit) THEN applied[c] + 1 ELSE applied[c]
           /\ token' \in BOOLEAN /\ (token => token')
           /\ hit /\ kind[S!current] = "consume" => token'
<1>1. applied \in [S!Call -> Nat]
  BY DEF StoreInv, StoreTypes
<1>2. applied' = [c \in S!Call |-> IF c \in tx /\ (c = S!current => hit) THEN applied[c] + 1 ELSE applied[c]]
  BY DEF S!Apply
<1>3. /\ token' \in BOOLEAN /\ (token => token')
      /\ hit /\ kind[S!current] = "consume" => token'
  BY DEF S!Apply
<1> QED BY <1>1, <1>2, <1>3

LEMMA ExecuteInv ==
    ASSUME StoreInv, S!Execute, UNCHANGED pg
    PROVE  StoreInv'
<1>1. StoreTypes'
  <2>1. hit' \in BOOLEAN
    BY DEF S!Execute, S!Finds
  <2> QED BY <2>1, KeepTypes DEF S!Execute, StoreInv, StoreTypes
<1>2. StatementsOnce'
  BY SameMade DEF S!Execute, StoreInv, StatementsOnce, S!Made
<1>3. OneWinner'
  <2>1. Winners' = Winners
    BY SameMade DEF S!Execute, Winners
  <2> QED BY <2>1, SameMade DEF S!Execute, S!Finds, StoreInv, OneWinner
<1> QED BY <1>1, <1>2, <1>3 DEF StoreInv

LEMMA ExecuteBreaksInv ==
    ASSUME StoreInv, S!ExecuteBreaks, UNCHANGED pg
    PROVE  StoreInv'
<1>1. at = "execute" /\ S!Broken /\ UNCHANGED <<kind, token, applied, cut>>
  BY DEF S!ExecuteBreaks
<1>2. StoreTypes'
  BY <1>1, BrokenEffect, KeepTypes DEF StoreInv, StoreTypes
<1>3. StatementsOnce'
  BY <1>1, BrokenEffect, SameMade DEF StoreInv, StatementsOnce
<1>4. OneWinner'
  <2>1. Winners' = Winners
    BY <1>1, BrokenEffect, SameMade DEF StoreInv, StatementsOnce, Winners, S!Made
  <2> QED BY <1>1, <2>1, BrokenEffect DEF StoreInv, OneWinner
<1> QED BY <1>2, <1>3, <1>4 DEF StoreInv

LEMMA RefusedInv ==
    ASSUME StoreInv, S!Refused, UNCHANGED pg
    PROVE  StoreInv'
<1>1. /\ at = "execute" /\ S!Return("error") /\ UNCHANGED <<kind, token, applied, cut>>
      /\ tx' = tx \/ tx' = {}
  BY DEF S!Refused
<1>2. StoreTypes'
  BY <1>1, ReturnEffect, KeepTypes DEF StoreInv, StoreTypes
<1>3. StatementsOnce'
  BY <1>1, ReturnEffect, SameMade DEF StoreInv, StatementsOnce
<1>4. OneWinner'
  <2>1. Winners' = Winners
    BY <1>1, ReturnEffect, SameMade DEF StoreInv, StatementsOnce, Winners, S!Made
  <2> QED BY <1>1, <2>1, ReturnEffect DEF StoreInv, OneWinner
<1> QED BY <1>2, <1>3, <1>4 DEF StoreInv

\* Only a commit that is answered makes a winner, of a token that was there.
LEMMA CommitInv ==
    ASSUME StoreInv, S!Commit, UNCHANGED pg
    PROVE  StoreInv'
<1> DEFINE a == IF hit THEN "hit" ELSE "miss"
<1>1. /\ at = "commit" /\ S!Apply /\ tx' = {} /\ S!Return(a) /\ a \in {"hit", "miss", "error"}
      /\ UNCHANGED <<kind, conn, cut>>
  BY DEF S!Commit
<1>2. StoreTypes'
  BY <1>1, ApplyEffect, ReturnEffect, KeepTypes DEF StoreInv, StoreTypes
<1>3. StatementsOnce'
  BY <1>1, ApplyEffect, ReturnEffect, SameMade DEF StoreInv, StatementsOnce, StoreTypes
<1>4. OneWinner'
  <2>1. CASE hit /\ kind[S!current] = "consume"
    <3>1. Winners = {}
      BY <1>1, <2>1 DEF StoreInv, OneWinner
    <3>2. Winners' = {S!current}
      BY <1>1, <2>1, <3>1, ReturnEffect, SameMade DEF Winners, S!Made
    <3> QED BY <1>1, <2>1, <3>2, ApplyEffect, ReturnEffect DEF OneWinner
  <2>2. CASE ~(hit /\ kind[S!current] = "consume")
    <3>1. Winners' = Winners
      BY <1>1, <2>2, ReturnEffect, SameMade DEF StoreInv, StatementsOnce, Winners, S!Made
    <3> QED BY <1>1, <3>1, ApplyEffect, ReturnEffect DEF StoreInv, OneWinner
  <2> QED BY <2>1, <2>2
<1> QED BY <1>2, <1>3, <1>4 DEF StoreInv

LEMMA CommitBreaksInv ==
    ASSUME StoreInv, NEW done \in BOOLEAN, S!CommitBreaks(done), UNCHANGED pg
    PROVE  StoreInv'
<1>1. /\ at = "commit" /\ S!Broken /\ UNCHANGED kind /\ cut' = cut \cup {S!current}
      /\ S!Apply \/ UNCHANGED <<applied, token>>
  BY DEF S!CommitBreaks
<1>2. StoreTypes'
  BY <1>1, ApplyEffect, BrokenEffect, KeepTypes DEF StoreInv, StoreTypes
<1>3. StatementsOnce'
  <2>1. /\ S!Made' = S!Made /\ S!current' = S!current /\ S!Made \subseteq S!Call
        /\ S!current \in S!Made /\ answer[S!current] = "none" /\ tx' = {}
        /\ \A c \in S!Call \ S!Made : c \notin tx
    BY <1>1, SameMade, BrokenEffect DEF StoreInv, StatementsOnce
  <2>2. \A c \in S!Call : applied'[c] \in {applied[c], applied[c] + 1}
                        /\ (c \notin tx => applied'[c] = applied[c])
    BY <1>1, ApplyEffect DEF StoreInv, StoreTypes
  <2>3. \A c \in S!Made : answer'[c] = "hit" =>
          c # S!current /\ answer[c] = "hit" /\ applied'[c] = applied[c]
    BY <1>1, <2>1, <2>2, BrokenEffect DEF StoreInv, StatementsOnce
  <2>4. \A c \in S!Made : answer'[c] = "hit" => applied'[c] \in 1..(IF c \in cut' THEN 2 ELSE 1)
    BY <1>1, <2>3 DEF StoreInv, StatementsOnce
  <2>5. at' # "idle" => /\ answer'[S!current] = "none" /\ at' = "execute"
                        /\ applied'[S!current] \in 0..attempt' - 1
    BY <1>1, <2>1, <2>2, BrokenEffect DEF StoreInv, StatementsOnce
  <2>6. \A c \in S!Call \ S!Made : applied'[c] = 0 /\ answer'[c] = "none"
    BY <1>1, <2>1, <2>2, BrokenEffect DEF StoreInv, StatementsOnce
  <2> QED BY <1>1, <2>1, <2>4, <2>5, <2>6 DEF StatementsOnce
<1>4. OneWinner'
  <2>1. Winners' = Winners
    BY <1>1, BrokenEffect, SameMade DEF StoreInv, StatementsOnce, Winners, S!Made
  <2> QED BY <1>1, <2>1, ApplyEffect, BrokenEffect DEF StoreInv, OneWinner
<1> QED BY <1>2, <1>3, <1>4 DEF StoreInv

LEMMA CommitLockedInv ==
    ASSUME StoreInv, S!CommitLocked, UNCHANGED pg
    PROVE  StoreInv'
<1>1. /\ at = "commit" /\ S!Return("error") /\ cut' = cut \cup {S!current} /\ ~pg
      /\ UNCHANGED <<kind, tx, token, applied>>
  BY DEF S!CommitLocked
<1>2. StoreTypes'
  BY <1>1, ReturnEffect, KeepTypes DEF StoreInv, StoreTypes
<1>3. StatementsOnce'
  BY <1>1, ReturnEffect, SameMade DEF StoreInv, StatementsOnce
<1>4. OneWinner'
  <2>1. Winners' = Winners
    BY <1>1, ReturnEffect, SameMade DEF StoreInv, StatementsOnce, Winners, S!Made
  <2> QED BY <1>1, <2>1, ReturnEffect DEF StoreInv, OneWinner
<1> QED BY <1>2, <1>3, <1>4 DEF StoreInv

LEMMA RestartInv ==
    ASSUME StoreInv, S!Restart, UNCHANGED pg
    PROVE  StoreInv'
<1>1. StoreTypes'
  BY KeepTypes DEF S!Restart, StoreInv, StoreTypes
<1>2. StatementsOnce'
  BY SameMade DEF S!Restart, StoreInv, StatementsOnce
<1>3. Winners' = Winners
  BY SameMade DEF S!Restart, Winners
<1> QED BY <1>1, <1>2, <1>3 DEF S!Restart, StoreInv, OneWinner

\* What a caller of the database was told is there (DB._run): a statement
\* answered with a row is committed, once, or twice if its connection broke
\* at a commit; and one caller at most consumed the token.
THEOREM AnswersAreKept == S!Spec => []AnswersHold
<1>1. StoreInv /\ [S!Next]_(S!vars) => StoreInv'
  <2> SUFFICES ASSUME StoreInv, [S!Next]_(S!vars) PROVE StoreInv'
    OBVIOUS
  <2>1. CASE UNCHANGED S!vars
    <3>1. Winners' = Winners
      BY <2>1, SameMade DEF S!vars, Winners
    <3>2. StoreTypes'
      BY <2>1, KeepTypes DEF S!vars, S!local, StoreInv, StoreTypes
    <3> QED BY <2>1, <3>1, <3>2, SameMade DEF S!vars, S!local, StoreInv, StatementsOnce, OneWinner
  <2>2. ASSUME NEW k \in S!Kind, S!Begin(k), UNCHANGED pg PROVE StoreInv'
    BY <2>2, BeginInv
  <2>3. ASSUME NEW b \in BOOLEAN, S!CommitBreaks(b), UNCHANGED pg PROVE StoreInv'
    BY <2>3, CommitBreaksInv
  <2> QED
    BY <2>1, <2>2, <2>3, ExecuteInv, ExecuteBreaksInv, RefusedInv, CommitInv, CommitLockedInv,
       RestartInv DEF S!Next, S!Step
<1>2. StoreInv => AnswersHold
  <2> SUFFICES ASSUME StoreInv PROVE S!AnswersHold
    BY DEF AnswersHold
  <2>1. Winners = {} \/ \E c : Winners = {c}
    BY DEF StoreInv, OneWinner
  <2>2. Cardinality(Winners) <= 1
    <3>1. CASE Winners = {}
      BY <3>1, FS_EmptySet
    <3>2. ASSUME NEW c, Winners = {c} PROVE Cardinality(Winners) <= 1
      <4>1. Cardinality({c}) = 1
        BY FS_Singleton
      <4> QED BY <3>2, <4>1
    <3> QED BY <2>1, <3>1, <3>2
  <2> QED
    BY <2>2, StoreCardinality DEF S!AnswersHold, Winners, StoreInv, StatementsOnce
<1> QED BY <1>1, <1>2, StoreInit, PTL DEF S!Spec

---------------------------------------------------------------------------
(* CommandGate: which commands stop a run                                  *)

LEMMA GateCardinality == \A X : G!Cardinality(X) = Cardinality(X)
BY DEF G!Cardinality, Cardinality, G!IsFiniteSet, IsFiniteSet

LEMMA CommandSegments == \A cmd \in G!Command : \A i \in DOMAIN cmd : cmd[i] \in Segment
BY DEF G!Command, G!BoundedSeq, G!SeqOf

\* What is kept of a conversation is what it is.
GateInv ==
    /\ DOMAIN cache = Conversation
    /\ \A c \in Conversation : cache[c] \in {"none", G!TypeOf(c)}
    /\ G!AskedForGoodReason

LEMMA GateInit == G!Init => GateInv
BY DEF G!Init, GateInv, G!NoCommand, G!AskedForGoodReason

\* Two commands that send the same to the same are told to match.
LEMMA SameSendsMatch ==
    ASSUME NEW cmd, G!Sent(cmd) = G!Sent(exempt), G!Sent(exempt) # {}
    PROVE  G!Exempt(cmd)
<1>1. PICK s \in G!Sends(exempt), t \in G!Sends(cmd) :
        /\ G!Recipients(s) # {}
        /\ <<s.path, G!Recipients(s)>> = <<t.path, G!Recipients(t)>>
  <2>1. PICK x : x \in G!Sent(exempt) /\ x \in G!Sent(cmd)
    OBVIOUS
  <2>2. PICK s \in G!Sends(exempt) : G!Recipients(s) # {} /\ x = <<s.path, G!Recipients(s)>>
    BY <2>1 DEF G!Sent
  <2>3. PICK t \in G!Sends(cmd) : x = <<t.path, G!Recipients(t)>>
    BY <2>1 DEF G!Sent
  <2> QED BY <2>2, <2>3
<1>2. s.path = t.path /\ G!Recipients(s) = G!Recipients(t)
  BY <1>1
<1>3. PICK r : r \in G!Recipients(s)
  BY <1>1
<1>4. <<s.path, r>> \in G!Signatures(cmd) /\ <<s.path, r>> \in G!Signatures(exempt)
  <2>1. /\ <<s.path, r>> \in {<<s.path, q>> : q \in G!Recipients(s)}
        /\ <<t.path, r>> \in {<<t.path, q>> : q \in G!Recipients(t)}
    BY <1>2, <1>3
  <2>2. /\ \E x \in G!Sends(exempt) : <<s.path, r>> \in {<<x.path, q>> : q \in G!Recipients(x)}
        /\ \E x \in G!Sends(cmd) : <<t.path, r>> \in {<<x.path, q>> : q \in G!Recipients(x)}
    BY <1>1, <2>1
  <2>3. <<s.path, r>> \in G!Signatures(exempt) /\ <<t.path, r>> \in G!Signatures(cmd)
    BY <2>2, Zenon DEF G!Signatures
  <2> QED BY <1>2, <2>3
<1>5. exempt # <<>>
  BY <1>1 DEF G!Sends
<1> QED BY <1>4, <1>5 DEF G!Exempt

\* What a list names is finitely many.
LEMMA ListedFinite == ASSUME NEW f, IsFiniteSet(DOMAIN f) PROVE IsFiniteSet({f[i] : i \in DOMAIN f})
<1> DEFINE g == [i \in DOMAIN f |-> f[i]]
<1>1. g \in Surjection(DOMAIN f, {f[i] : i \in DOMAIN f})
  BY DEF Surjection
<1> QED BY <1>1, FS_Surjection

\* A command that stops the run gives a reason.
LEMMA StopsForReason ==
    ASSUME GateInv, NEW cmd \in G!Command, NEW heard \in SUBSET Conversation,
           G!IsBlocked(cmd, heard)
    PROVE  \/ \E p \in Pattern : G!ToSet(p.words) \subseteq G!SaidIn(cmd)
           \/ \E i \in DOMAIN cmd :
                LET s == cmd[i] IN
                \/ /\ G!Said(s) \cap Recursive # {}
                   /\ \E j, k \in DOMAIN s.words :
                        j < k /\ s.words[j] = "rm" /\ s.words[k] \notin Flag \cup SafePath \cup G!Mark
                \/ G!IsSend(s) /\ G!ToMany(s, heard)
<1>1. CASE G!MatchesPattern(cmd)
  <2>1. PICK p \in Pattern :
          \E loc \in [DOMAIN p.words -> {x \in G!Places(cmd) : G!WordAt(cmd, x) \in G!ToSet(p.words)}] :
            \A n \in DOMAIN p.words : G!WordAt(cmd, loc[n]) = p.words[n]
    BY <1>1 DEF G!MatchesPattern
  <2> PICK loc \in [DOMAIN p.words -> {x \in G!Places(cmd) : G!WordAt(cmd, x) \in G!ToSet(p.words)}] :
         \A n \in DOMAIN p.words : G!WordAt(cmd, loc[n]) = p.words[n]
    BY <2>1
  <2>2. ASSUME NEW n \in DOMAIN p.words PROVE p.words[n] \in G!SaidIn(cmd)
    <3>1. PICK i \in DOMAIN cmd : loc[n] \in {<<i, k>> : k \in DOMAIN cmd[i].words}
      BY <2>2 DEF G!Places
    <3>2. PICK k \in DOMAIN cmd[i].words : loc[n] = <<i, k>>
      BY <3>1
    <3>3. p.words[n] = cmd[i].words[k]
      BY <2>2, <3>2 DEF G!WordAt
    <3> QED BY <3>3 DEF G!SaidIn, G!Said, G!ToSet
  <2> QED BY <2>2 DEF G!ToSet
<1>2. CASE G!RmViolation(cmd)
  <2>1. PICK i \in DOMAIN cmd : /\ G!RmWords(cmd[i]) \cap Recursive # {}
                               /\ G!RmWords(cmd[i]) \ (Flag \cup SafePath) # {}
    BY <1>2 DEF G!RmViolation
  <2>2. G!Said(cmd[i]) \cap Recursive # {}
    BY <2>1 DEF G!RmWords, G!Said, G!ToSet
  <2>3. \E j, k \in DOMAIN cmd[i].words :
           j < k /\ cmd[i].words[j] = "rm" /\ cmd[i].words[k] \notin Flag \cup SafePath \cup G!Mark
    BY <2>1 DEF G!RmWords
  <2> QED BY <2>2, <2>3
<1>3. ASSUME NEW i \in DOMAIN cmd, G!NeedsConfirmation(cmd[i], heard)
      PROVE  G!IsSend(cmd[i]) /\ G!ToMany(cmd[i], heard)
  <2> DEFINE s == cmd[i]
  <2>1. s \in Segment /\ G!IsSend(s)
    BY <1>3, CommandSegments DEF G!NeedsConfirmation
  <2>2. CASE G!Recipients(s) \cap Sensitive # {} \/ G!ToSet(s.groups) \ Conversation # {}
    BY <2>1, <2>2 DEF G!ToMany
  <2>3. CASE Len(s.persons) >= 2
    <3>1. DOMAIN s.groups = 1..Len(s.groups) /\ Len(s.groups) \in Nat /\ Len(s.persons) \in Nat
      BY <2>1, SegmentAssumption
    <3>2. IsFiniteSet(DOMAIN s.groups)
      BY <3>1, FS_Interval
    <3>3. Cardinality(G!ToSet(s.groups)) \in Nat
      BY <3>2, ListedFinite, FS_CardinalityType DEF G!ToSet
    <3>4. Len(s.persons) + Cardinality(G!ToSet(s.groups)) # 1
      BY <2>3, <3>1, <3>3
    <3> QED BY <2>1, <3>4, GateCardinality DEF G!ToMany
  <2>4. ASSUME NEW c \in G!ToSet(s.groups), c \in Conversation, G!Known(c, heard) # "single"
        PROVE  G!ToMany(s, heard)
    <3>1. c \notin Single \cap heard
      BY <2>4 DEF G!Known, G!TypeOf, GateInv
    <3> QED BY <2>4, <3>1 DEF G!ToMany
  <2> QED BY <1>3, <2>1, <2>2, <2>3, <2>4 DEF G!NeedsConfirmation, G!PlainlyMany
<1> QED BY <1>1, <1>2, <1>3 DEF G!IsBlocked

LEMMA JudgeInv ==
    ASSUME GateInv, NEW cmd \in G!Command, NEW heard \in SUBSET Conversation, G!Judge(cmd, heard)
    PROVE  GateInv'
<1> DEFINE asked == G!Asked(cmd, heard)
<1>1. /\ cache' = G!Cached(asked, heard) /\ UNCHANGED exempt
      /\ last' = IF G!IsBlocked(cmd, heard) /\ ~G!Exempt(cmd)
                 THEN [cmd |-> cmd, heard |-> heard] ELSE G!NoCommand
  BY DEF G!Judge
<1>2. DOMAIN cache' = Conversation /\ \A c \in Conversation : cache'[c] \in {"none", G!TypeOf(c)}
  BY <1>1 DEF G!Cached, G!Known, GateInv
<1>3. CASE G!IsBlocked(cmd, heard) /\ ~G!Exempt(cmd)
  <2>1. last'.cmd = cmd /\ last'.heard = heard
    BY <1>1, <1>3
  <2>2. ~(G!Sent(cmd) = G!Sent(exempt) /\ G!Sent(exempt) # {})
    BY <1>3, SameSendsMatch
  <2>3. G!AskedForGoodReason'
    BY <1>1, <1>3, <2>1, <2>2, StopsForReason DEF G!AskedForGoodReason
  <2> QED BY <1>2, <2>3 DEF GateInv
<1>4. CASE ~(G!IsBlocked(cmd, heard) /\ ~G!Exempt(cmd))
  <2>1. last' = G!NoCommand
    BY <1>1, <1>4
  <2>2. G!AskedForGoodReason'
    BY <2>1 DEF G!AskedForGoodReason
  <2> QED BY <1>2, <2>2 DEF GateInv
<1> QED BY <1>3, <1>4

\* A person is not asked twice for the same sends, and never for a message to
\* one person or to a conversation found to be between two, unless the texts
\* say a pattern's words or a recursive rm (_is_blocked, _exempt).
THEOREM AskedOnceForReason == G!Spec => []AskedForGoodReason
<1>1. GateInv /\ [G!Next]_(G!vars) => GateInv'
  <2> SUFFICES ASSUME GateInv, [G!Next]_(G!vars) PROVE GateInv'
    OBVIOUS
  <2>1. CASE UNCHANGED G!vars
    BY <2>1 DEF G!vars, GateInv, G!AskedForGoodReason
  <2>2. ASSUME NEW cmd \in G!Command, NEW heard \in SUBSET Conversation, G!Judge(cmd, heard)
        PROVE  GateInv'
    BY <2>2, JudgeInv
  <2>3. CASE G!Resume
    BY <2>3 DEF G!Resume, G!NoCommand, GateInv, G!AskedForGoodReason
  <2>4. CASE G!NewRun
    BY <2>4 DEF G!NewRun, G!NoCommand, GateInv, G!AskedForGoodReason
  <2> QED BY <2>1, <2>2, <2>3, <2>4 DEF G!Next
<1>2. GateInv => AskedForGoodReason
  BY DEF GateInv, AskedForGoodReason
<1> QED BY <1>1, <1>2, GateInit, PTL DEF G!Spec

---------------------------------------------------------------------------
(* Dashboard: the failures of an address                                   *)

LEMMA DashCardinality == \A X : D!Cardinality(X) = Cardinality(X)
BY DEF D!Cardinality, Cardinality, D!IsFiniteSet, IsFiniteSet

\* A list of times, and how many of them count at some moment.
Times(s) == s \in Seq(Nat)
Within(s, t) == {i \in DOMAIN s : t - s[i] < LockSec}
Counted(s, t) == Cardinality(Within(s, t))

\* Counting what lies below them numbers the elements of a set of numbers.
LEMMA Ranked ==
    ASSUME NEW n \in Nat, NEW P \in SUBSET (1..n)
    PROVE  /\ IsFiniteSet(P) /\ Cardinality(P) \in Nat
           /\ \A i \in P : Cardinality({j \in P : j <= i}) \in 1..Cardinality(P)
           /\ \A i, k \in P : Cardinality({j \in P : j <= i}) = Cardinality({j \in P : j <= k})
                              => i = k
           /\ \A k \in 1..Cardinality(P) : \E i \in P : Cardinality({j \in P : j <= i}) = k
<1> DEFINE below(i) == {j \in P : j <= i}
           g == [i \in P |-> Cardinality(below(i))]
           N == Cardinality(P)
<1>1. IsFiniteSet(P) /\ N \in Nat
  <2>1. IsFiniteSet(1..n)
    BY FS_Interval
  <2> QED BY <2>1, FS_Subset, FS_CardinalityType
<1>2. \A i \in P : IsFiniteSet(below(i)) /\ Cardinality(below(i)) \in 1..N
  <2> SUFFICES ASSUME NEW i \in P
               PROVE  IsFiniteSet(below(i)) /\ Cardinality(below(i)) \in 1..N
    OBVIOUS
  <2>1. below(i) \subseteq P /\ i \in below(i)
    BY i \in 1..n
  <2>2. IsFiniteSet(below(i)) /\ Cardinality(below(i)) \in Nat /\ Cardinality(below(i)) <= N
    BY <1>1, <2>1, FS_Subset, FS_CardinalityType
  <2>3. Cardinality(below(i)) # 0
    BY <2>1, <2>2, FS_EmptySet
  <2> QED BY <1>1, <2>2, <2>3
<1>3. g \in [P -> 1..N]
  BY <1>2
<1>4. \A i, j \in P : i < j => g[i] < g[j]
  <2> SUFFICES ASSUME NEW i \in P, NEW j \in P, i < j PROVE g[i] < g[j]
    OBVIOUS
  <2>1. below(i) \subseteq below(j) /\ j \in below(j) /\ j \notin below(i)
    <3>1. i \in 1..n /\ j \in 1..n /\ \A m \in P : m \in 1..n
      OBVIOUS
    <3>2. \A m \in P : m <= i => m <= j
      BY <3>1
    <3>3. j <= j /\ ~(j <= i)
      BY <3>1
    <3> QED BY <3>2, <3>3
  <2>2. Cardinality(below(i)) <= Cardinality(below(j)) /\ Cardinality(below(i)) # Cardinality(below(j))
    BY <1>2, <2>1, FS_Subset
  <2>3. Cardinality(below(i)) \in 1..N /\ Cardinality(below(j)) \in 1..N
    BY <1>2
  <2> QED BY <1>1, <2>2, <2>3
<1> HIDE DEF g
<1>5. \A i, k \in P : g[i] = g[k] => i = k
  <2> SUFFICES ASSUME NEW i \in P, NEW k \in P, g[i] = g[k], i # k PROVE FALSE
    OBVIOUS
  <2>1. g[i] \in 1..N /\ g[k] \in 1..N /\ i \in 1..n /\ k \in 1..n
    BY <1>3
  <2>2. i < k \/ k < i
    BY <2>1
  <2>3. g[i] < g[k] \/ g[k] < g[i]
    BY <1>4, <2>2
  <2> QED BY <1>1, <2>1, <2>3
<1>6. g \in Injection(P, 1..N)
  BY <1>3, <1>5 DEF Injection, IsInjective
<1>7. IsFiniteSet(1..N) /\ Cardinality(1..N) = N
  BY <1>1, FS_Interval
<1>8. g \in Surjection(P, 1..N)
  BY <1>1, <1>6, <1>7, FS_Injection
<1>9. \A k \in 1..N : \E i \in P : g[i] = k
  BY <1>8 DEF Surjection
<1> QED BY <1>1, <1>2, <1>5, <1>9 DEF g

\* Taking the failures at some places loses none of them, whenever they are
\* counted, if those places are all that can count then.
LEMMA PrunedCounts ==
    ASSUME Times(logins), NEW P \in SUBSET (DOMAIN logins), NEW t \in Nat, Within(logins, t) \subseteq P
    PROVE  /\ Times(D!FailsAt(P)) /\ Len(D!FailsAt(P)) = Cardinality(P)
           /\ Counted(D!FailsAt(P), t) = Counted(logins, t)
<1> DEFINE N == D!Cardinality(P)
           place(i) == D!Cardinality({j \in P : j <= i})
           at_(k) == CHOOSE i \in P : place(i) = k
           f == [k \in 1..N |-> logins[at_(k)]]
           W == Within(f, t)
           h == [i \in Within(logins, t) |-> place(i)]
<1>1. /\ Len(logins) \in Nat /\ P \in SUBSET (1..Len(logins))
      /\ \A i \in P : logins[i] \in Nat
  BY DEF Times
<1>2. /\ IsFiniteSet(P) /\ N \in Nat
      /\ \A i \in P : place(i) \in 1..N
      /\ \A i, k \in P : place(i) = place(k) => i = k
      /\ \A k \in 1..N : \E i \in P : place(i) = k
  <2> HIDE DEF place, N
  <2>1. /\ IsFiniteSet(P) /\ Cardinality(P) \in Nat
        /\ \A i \in P : Cardinality({j \in P : j <= i}) \in 1..Cardinality(P)
        /\ \A i, k \in P : Cardinality({j \in P : j <= i}) = Cardinality({j \in P : j <= k}) => i = k
        /\ \A k \in 1..Cardinality(P) : \E i \in P : Cardinality({j \in P : j <= i}) = k
    BY <1>1, Ranked
  <2>2. N = Cardinality(P) /\ \A i : place(i) = Cardinality({j \in P : j <= i})
    BY DashCardinality DEF place, N
  <2> QED BY <2>1, <2>2
<1>3. D!FailsAt(P) = f /\ N = Cardinality(P)
  BY DashCardinality DEF D!FailsAt
<1> HIDE DEF place, N
<1>4. \A k \in 1..N : at_(k) \in P /\ place(at_(k)) = k
  BY <1>2
<1>5. \A i \in P : at_(place(i)) = i
  BY <1>2, <1>4
<1> HIDE DEF at_
<1>6. Times(f) /\ Len(f) = N
  <2>1. DOMAIN f = 1..N /\ \A k \in 1..N : f[k] \in Nat
    BY <1>1, <1>4
  <2>2. f \in Seq(Nat)
    BY <1>2, <2>1
  <2>3. Len(f) = N
    BY <1>2, <2>1, <2>2
  <2> QED BY <1>2, <2>1, <2>3 DEF Times
<1>7. h \in Bijection(Within(logins, t), W)
  <2>1. h \in [Within(logins, t) -> W]
    <3> SUFFICES ASSUME NEW i \in Within(logins, t) PROVE place(i) \in W
      OBVIOUS
    <3>1. i \in P /\ t - logins[i] < LockSec
      BY DEF Within
    <3>2. place(i) \in 1..N /\ at_(place(i)) = i
      BY <1>2, <1>5, <3>1
    <3> QED BY <3>1, <3>2 DEF Within
  <2>2. \A i, j \in Within(logins, t) : h[i] = h[j] => i = j
    BY <1>2
  <2>3. \A k \in W : \E i \in Within(logins, t) : h[i] = k
    <3> SUFFICES ASSUME NEW k \in W PROVE \E i \in Within(logins, t) : h[i] = k
      OBVIOUS
    <3>1. k \in 1..N /\ t - logins[at_(k)] < LockSec
      BY DEF Within
    <3>2. at_(k) \in Within(logins, t) /\ place(at_(k)) = k
      BY <1>4, <3>1 DEF Within
    <3> QED BY <3>2
  <2> HIDE DEF h, W
  <2> QED BY <2>1, <2>2, <2>3 DEF Bijection, Injection, Surjection, IsInjective
<1>8. IsFiniteSet(Within(logins, t))
  BY <1>2, FS_Subset
<1> HIDE DEF h, f
<1>9. Cardinality(W) = Cardinality(Within(logins, t))
  <2> HIDE DEF W
  <2> QED BY <1>7, <1>8, FS_Bijection DEF ExistsBijection
<1> QED BY <1>3, <1>6, <1>9 DEF Counted

\* One more time counts for one more, or for none.
LEMMA OneMore ==
    ASSUME NEW s, Times(s), NEW x \in Nat, NEW t \in Nat
    PROVE  /\ Times(Append(s, x)) /\ Counted(s, t) \in Nat
           /\ Counted(Append(s, x), t) = Counted(s, t) + (IF t - x < LockSec THEN 1 ELSE 0)
<1> DEFINE n == Len(s)
<1>1. n \in Nat /\ DOMAIN s = 1..n /\ \A i \in 1..n : s[i] \in Nat
  BY DEF Times
<1>2. s \in Seq(Nat)
  BY DEF Times
<1>3. /\ Len(Append(s, x)) = n + 1 /\ DOMAIN Append(s, x) = 1..(n + 1)
      /\ \A i \in 1..n : Append(s, x)[i] = s[i]
      /\ Append(s, x)[n + 1] = x
  BY <1>1, <1>2
<1>4. Times(Append(s, x))
  BY <1>2 DEF Times
<1>5. IsFiniteSet(Within(s, t)) /\ Counted(s, t) \in Nat /\ n + 1 \notin Within(s, t)
  <2>1. IsFiniteSet(1..n) /\ Within(s, t) \subseteq 1..n
    BY <1>1, FS_Interval DEF Within
  <2>2. n + 1 \notin 1..n
    BY <1>1
  <2> QED BY <2>1, <2>2, FS_Subset, FS_CardinalityType DEF Counted
<1>6. Within(Append(s, x), t) = IF t - x < LockSec THEN Within(s, t) \cup {n + 1} ELSE Within(s, t)
  <2>1. \A i : i \in 1..(n + 1) <=> i \in 1..n \/ i = n + 1
    BY <1>1
  <2>2. n + 1 \notin 1..n
    BY <1>1
  <2> QED BY <1>1, <1>3, <2>1, <2>2 DEF Within
<1>7. Cardinality(Within(s, t) \cup {n + 1}) = Cardinality(Within(s, t)) + 1
  BY <1>5, FS_AddElement
<1>8. Counted(Append(s, x), t) = Counted(s, t) + (IF t - x < LockSec THEN 1 ELSE 0)
  <2>1. CASE t - x < LockSec
    BY <1>6, <1>7, <2>1 DEF Counted
  <2>2. CASE ~(t - x < LockSec)
    BY <1>5, <1>6, <2>2 DEF Counted
  <2> QED BY <2>1, <2>2
<1> QED BY <1>4, <1>5, <1>8


\* At every moment from now on the list of failures counts as many as there
\* were; and a session that was dropped had expired.
DashInv ==
    /\ now \in Nat /\ Times(logins) /\ Times(failed)
    /\ \A t \in Nat : now <= t => Counted(logins, t) = Counted(failed, t)
    /\ sessions \in Seq(Nat) /\ opened \in Seq(Nat) /\ Len(sessions) = Len(opened)
    /\ \A i \in DOMAIN sessions :
         \/ sessions[i] = opened[i] + Ttl
         \/ sessions[i] = 0 /\ opened[i] + Ttl < now

LEMMA KeepFails ==
    ASSUME DashInv, UNCHANGED <<logins, failed>>, now' \in Nat, now <= now'
    PROVE  /\ now' \in Nat /\ Times(logins') /\ Times(failed')
           /\ \A t \in Nat : now' <= t => Counted(logins', t) = Counted(failed', t)
<1>1. now \in Nat /\ \A t \in Nat : now' <= t => now <= t
  BY DEF DashInv
<1>2. \A t \in Nat : now <= t => Counted(logins, t) = Counted(failed, t)
  BY DEF DashInv
<1>3. logins' = logins /\ failed' = failed
  OBVIOUS
<1>4. Times(logins') /\ Times(failed')
  BY <1>3 DEF DashInv, Times
<1>5. ASSUME NEW t \in Nat, now' <= t PROVE Counted(logins', t) = Counted(failed', t)
  BY <1>1, <1>2, <1>3, <1>5
<1> QED BY <1>4, <1>5

\* What it says of the next state, said of the values there.
LEMMA DashNext ==
    ASSUME now' \in Nat, Times(logins'), Times(failed'),
           \A t \in Nat : now' <= t => Counted(logins', t) = Counted(failed', t),
           sessions' \in Seq(Nat), opened' \in Seq(Nat), Len(sessions') = Len(opened'),
           \A i \in DOMAIN sessions' :
             \/ sessions'[i] = opened'[i] + Ttl
             \/ sessions'[i] = 0 /\ opened'[i] + Ttl < now'
    PROVE  DashInv'
<1>1. Times(logins)' /\ Times(failed)'
  BY DEF Times
<1>2. \A t \in Nat : Counted(logins, t)' = Counted(logins', t) /\ Counted(failed, t)' = Counted(failed', t)
  BY DEF Counted, Within
<1> QED BY <1>1, <1>2 DEF DashInv

LEMMA DashInit == D!Init => DashInv
BY DEF D!Init, DashInv, Times, Counted, Within

\* A look at the list prunes it, and nothing that will count is lost.
LEMMA RecentCounts ==
    ASSUME DashInv
    PROVE  /\ Times(D!Recent) /\ Len(D!Recent) = Counted(logins, now)
           /\ \A t \in Nat : now <= t => Counted(D!Recent, t) = Counted(failed, t)
<1> DEFINE W == Within(logins, now)
<1>1. W \in SUBSET (DOMAIN logins) /\ D!Recent = D!FailsAt(W)
  BY DEF Within, D!Recent
<1>2. ASSUME NEW t \in Nat, now <= t PROVE Within(logins, t) \subseteq W
  <2>1. \A i \in DOMAIN logins : logins[i] \in Nat
    BY DEF DashInv, Times
  <2> QED BY <1>2, <2>1, LockAssumption DEF DashInv, Within
<1>3. now \in Nat /\ Times(logins)
  BY DEF DashInv
<1>4. Within(logins, now) \subseteq W
  OBVIOUS
<1> HIDE DEF W
<1>5. Times(D!FailsAt(W)) /\ Len(D!FailsAt(W)) = Cardinality(W)
  BY <1>1, <1>3, <1>4, PrunedCounts
<1>6. \A t \in Nat : now <= t => Counted(D!FailsAt(W), t) = Counted(logins, t)
  BY <1>1, <1>2, <1>3, PrunedCounts
<1> QED BY <1>1, <1>5, <1>6 DEF DashInv, Counted, W

LEMMA LoginsInv ==
    ASSUME DashInv, D!LoginLocked \/ D!LoginFails
    PROVE  DashInv'
<1>1. CASE D!LoginLocked
  <2>1. logins' = D!Recent /\ UNCHANGED <<now, sessions, failed, opened>>
    BY <1>1 DEF D!LoginLocked
  <2>2. Times(logins') /\ \A t \in Nat : now <= t => Counted(logins', t) = Counted(failed, t)
    BY <2>1, RecentCounts
  <2>3. now' = now /\ failed' = failed /\ Times(failed')
    BY <2>1 DEF DashInv
  <2>4. \A t \in Nat : now' <= t => Counted(logins', t) = Counted(failed', t)
    BY <2>2, <2>3
  <2> QED BY <2>1, <2>2, <2>3, <2>4, DashNext DEF DashInv
<1>2. CASE D!LoginFails
  <2>1. /\ logins' = Append(D!Recent, now) /\ failed' = Append(failed, now)
        /\ now' = now /\ sessions' = sessions /\ opened' = opened
    BY <1>2 DEF D!LoginFails
  <2>2. now \in Nat /\ Times(D!Recent) /\ Times(failed)
    BY RecentCounts DEF DashInv
  <2>3. Times(logins') /\ Times(failed')
    BY <2>1, <2>2, OneMore
  <2>4. ASSUME NEW t \in Nat, now <= t PROVE Counted(logins', t) = Counted(failed', t)
    <3>1. Counted(D!Recent, t) = Counted(failed, t)
      BY <2>4, RecentCounts
    <3>2. /\ Counted(Append(D!Recent, now), t)
               = Counted(D!Recent, t) + (IF t - now < LockSec THEN 1 ELSE 0)
          /\ Counted(Append(failed, now), t)
               = Counted(failed, t) + (IF t - now < LockSec THEN 1 ELSE 0)
      BY <2>2, OneMore
    <3> QED BY <2>1, <3>1, <3>2
  <2> QED BY <2>1, <2>2, <2>3, <2>4, DashNext DEF DashInv
<1> QED BY <1>1, <1>2

LEMMA SessionsInv ==
    ASSUME DashInv, D!LoginSucceeds \/ D!PopExpired
    PROVE  DashInv'
<1>1. CASE D!LoginSucceeds
  <2> DEFINE n == Len(sessions)
  <2>1. /\ logins' = <<>> /\ failed' = <<>> /\ now' = now
        /\ sessions' = Append(sessions, now + Ttl) /\ opened' = Append(opened, now)
    BY <1>1 DEF D!LoginSucceeds
  <2>2. now \in Nat /\ now + Ttl \in Nat /\ n \in Nat /\ n = Len(opened)
    BY LockAssumption DEF DashInv
  <2>3. sessions \in Seq(Nat) /\ opened \in Seq(Nat)
    BY DEF DashInv
  <2>4. /\ sessions' \in Seq(Nat) /\ opened' \in Seq(Nat)
        /\ Len(sessions') = n + 1 /\ Len(opened') = n + 1 /\ DOMAIN sessions' = 1..(n + 1)
        /\ sessions'[n + 1] = now + Ttl /\ opened'[n + 1] = now
        /\ \A i \in 1..n : sessions'[i] = sessions[i] /\ opened'[i] = opened[i]
    BY <2>1, <2>2, <2>3
  <2>5. DOMAIN sessions = 1..n
    BY <2>3
  <2>6. \A i \in DOMAIN sessions' : \/ sessions'[i] = opened'[i] + Ttl
                                    \/ sessions'[i] = 0 /\ opened'[i] + Ttl < now'
    <3> SUFFICES ASSUME NEW i \in DOMAIN sessions'
                 PROVE  \/ sessions'[i] = opened'[i] + Ttl
                        \/ sessions'[i] = 0 /\ opened'[i] + Ttl < now'
      OBVIOUS
    <3>1. i = n + 1 \/ i \in 1..n
      BY <2>2, <2>4
    <3> QED BY <2>1, <2>4, <2>5, <3>1 DEF DashInv
  <2>7. Times(logins') /\ logins' = failed' /\ now' \in Nat
    BY <2>1, <2>2 DEF Times
  <2>8. Times(failed') /\ \A t \in Nat : now' <= t => Counted(logins', t) = Counted(failed', t)
    BY <2>7
  <2>9. sessions' \in Seq(Nat) /\ opened' \in Seq(Nat) /\ Len(sessions') = Len(opened')
    BY <2>4
  <2>10. Times(logins') /\ now' \in Nat
    BY <2>7
  <2> HIDE DEF n
  <2>11. Times(logins)' /\ Times(failed)'
    BY <2>8, <2>10 DEF Times
  <2>12. \A t \in Nat : now' <= t => Counted(logins, t)' = Counted(failed, t)'
    BY <2>8 DEF Counted, Within
  <2> QED BY <2>6, <2>9, <2>10, <2>11, <2>12 DEF DashInv
<1>2. CASE D!PopExpired
  <2>1. /\ sessions' = [i \in DOMAIN sessions |-> IF sessions[i] < now THEN 0 ELSE sessions[i]]
        /\ UNCHANGED <<now, logins, failed, opened>>
    BY <1>2 DEF D!PopExpired
  <2>2. /\ DOMAIN sessions = 1..Len(sessions) /\ Len(sessions) \in Nat
        /\ \A i \in DOMAIN sessions : sessions[i] \in Nat
    BY DEF DashInv
  <2>3. sessions' \in Seq(Nat) /\ Len(sessions') = Len(sessions)
    <3>1. sessions' \in [1..Len(sessions) -> Nat]
      BY <2>1, <2>2
    <3> QED BY <2>2, <3>1
  <2>4. \A i \in DOMAIN sessions : \/ sessions'[i] = opened[i] + Ttl
                                   \/ sessions'[i] = 0 /\ opened[i] + Ttl < now
    BY <2>1, <2>2 DEF DashInv
  <2>5. now \in Nat /\ now' = now /\ now <= now' /\ UNCHANGED <<logins, failed>>
    BY <2>1 DEF DashInv
  <2>6. /\ now' \in Nat /\ Times(logins') /\ Times(failed')
        /\ \A t \in Nat : now' <= t => Counted(logins', t) = Counted(failed', t)
    BY <2>5, KeepFails
  <2>7. DOMAIN sessions' = DOMAIN sessions
    BY <2>1
  <2> QED BY <2>1, <2>3, <2>4, <2>6, <2>7, DashNext DEF DashInv
<1> QED BY <1>1, <1>2

\* Of any lock, window and life of a session: an address is locked exactly as
\* long as its failures last (_login_locked), a session holds exactly as long
\* as it was given (_dash_ok), however failures, successes and looks alternate.
THEOREM LocksLastAsFailuresDo == D!Spec => []LockedAsLongAsFailuresLast
<1>1. DashInv /\ [D!Next]_(D!vars) => DashInv'
  <2> SUFFICES ASSUME DashInv, [D!Next]_(D!vars) PROVE DashInv'
    OBVIOUS
  <2>1. CASE UNCHANGED D!vars
    <3>1. UNCHANGED <<now, logins, sessions, failed, opened>>
      BY <2>1 DEF D!vars
    <3>2. now' \in Nat /\ now <= now'
      BY <3>1 DEF DashInv
    <3>3. /\ Times(logins') /\ Times(failed')
          /\ \A t \in Nat : now' <= t => Counted(logins', t) = Counted(failed', t)
      BY <3>1, <3>2, KeepFails
    <3> QED BY <3>1, <3>2, <3>3, DashNext DEF DashInv
  <2>2. CASE D!Tick
    <3>1. now' = now + 1 /\ UNCHANGED <<logins, sessions, failed, opened>>
      BY <2>2 DEF D!Tick
    <3>2. now \in Nat /\ now' \in Nat /\ now <= now'
      BY <3>1 DEF DashInv
    <3>3. \A i \in DOMAIN sessions : opened[i] + Ttl < now => opened[i] + Ttl < now'
      <4>0. sessions \in Seq(Nat) /\ opened \in Seq(Nat) /\ Len(sessions) = Len(opened)
        BY DEF DashInv
      <4>1. \A i \in DOMAIN sessions : opened[i] \in Nat
        BY <4>0
      <4> QED BY <3>1, <3>2, <4>1, LockAssumption
    <3>4. /\ Times(logins') /\ Times(failed')
          /\ \A t \in Nat : now' <= t => Counted(logins', t) = Counted(failed', t)
      BY <3>1, <3>2, KeepFails
    <3> QED BY <3>1, <3>2, <3>3, <3>4, DashNext DEF DashInv
  <2>3. CASE D!LoginLocked \/ D!LoginFails
    BY <2>3, LoginsInv
  <2>4. CASE D!LoginSucceeds \/ D!PopExpired
    BY <2>4, SessionsInv
  <2>5. CASE D!Restart
    <3>1. /\ logins' = <<>> /\ failed' = <<>> /\ sessions' = <<>> /\ opened' = <<>>
          /\ now' = now /\ now \in Nat
      BY <2>5 DEF D!Restart, DashInv
    <3>2. Times(logins') /\ logins' = failed'
      BY <3>1 DEF Times
    <3> QED BY <3>1, <3>2, DashNext
  <2> QED BY <2>1, <2>2, <2>3, <2>4, <2>5 DEF D!Next
<1>2. DashInv => LockedAsLongAsFailuresLast
  <2> SUFFICES ASSUME DashInv PROVE D!LockedAsLongAsFailuresLast
    BY DEF LockedAsLongAsFailuresLast
  <2>1. Len(D!Recent) = Counted(failed, now)
    <3>1. now \in Nat /\ now <= now
      BY DEF DashInv
    <3> QED BY <3>1, RecentCounts DEF DashInv
  <2>2. D!login_locked <=> D!Cardinality({i \in DOMAIN failed : now - failed[i] < LockSec}) >= MaxLogins
    BY <2>1, DashCardinality DEF D!login_locked, Counted, Within
  <2>3. \A i \in DOMAIN sessions : D!dash_ok(i) <=> now < opened[i] + Ttl
    <3>0. sessions \in Seq(Nat) /\ opened \in Seq(Nat) /\ Len(sessions) = Len(opened)
      BY DEF DashInv
    <3>1. now \in Nat /\ \A i \in DOMAIN sessions : opened[i] \in Nat /\ sessions[i] \in Nat
      BY <3>0 DEF DashInv
    <3> SUFFICES ASSUME NEW i \in DOMAIN sessions
                 PROVE  sessions[i] > now <=> now < opened[i] + Ttl
      BY DEF D!dash_ok
    <3>2. \/ sessions[i] = opened[i] + Ttl
          \/ sessions[i] = 0 /\ opened[i] + Ttl < now
      BY DEF DashInv
    <3>3. opened[i] \in Nat /\ sessions[i] \in Nat
      BY <3>1
    <3> QED BY <3>1, <3>2, <3>3, LockAssumption
  <2> QED BY <2>2, <2>3 DEF D!LockedAsLongAsFailuresLast
<1> QED BY <1>1, <1>2, DashInit, PTL DEF D!Spec

---------------------------------------------------------------------------
(* The parts together                                                      *)

\* A step of the service is a step of one part and leaves the others: the
\* specification implements that of each part.
THEOREM PartsImplemented ==
    SpecPart => Spec /\ A!Spec /\ K!Spec /\ S!Spec /\ T!Spec /\ G!Spec /\ D!Spec
<1> DEFINE all == <<part, vars, avars, kvars, svars, task, gvars, dvars>>
<1>1. InitPart => Init /\ A!Init /\ K!Init /\ S!Init /\ T!Init /\ G!Init /\ D!Init
  BY DEF InitPart
<1>2. [NextPart]_all => [Next]_vars
  BY DEF NextPart
<1>3. [NextPart]_all => [A!Next]_(A!vars)
  BY DEF NextPart, avars, A!vars
<1>4. [NextPart]_all => [K!Next]_(K!vars)
  BY DEF NextPart, kvars, K!vars, K!shared
<1>5. [NextPart]_all => [S!Next]_(S!vars)
  BY DEF NextPart, svars, S!vars, S!local
<1>6. [NextPart]_all => [T!Next]_(T!vars)
  BY DEF NextPart, T!vars
<1>7. [NextPart]_all => [G!Next]_(G!vars)
  BY DEF NextPart, gvars, G!vars
<1>8. [NextPart]_all => [D!Next]_(D!vars)
  BY DEF NextPart, dvars, D!vars
<1> QED
  BY <1>1, <1>2, <1>3, <1>4, <1>5, <1>6, <1>7, <1>8, PTL
  DEF SpecPart, Spec, A!Spec, K!Spec, S!Spec, T!Spec, G!Spec, D!Spec

\* So what is proved of the parts holds of the specification the run checks.
THEOREM ServiceHolds ==
    SpecPart => [](TokenOnce /\ StoredSecretWorks /\ LoadsWhatIsShared /\ AnswersHold
                   /\ InFlightDisjoint /\ AskedForGoodReason /\ LockedAsLongAsFailuresLast)
BY PartsImplemented, TokensActivateOnce, StoredSecretsWork, RunsLoadWhatIsShared, AnswersAreKept,
   TargetsDisjoint, AskedOnceForReason, LocksLastAsFailuresDo, PTL
=============================================================================
