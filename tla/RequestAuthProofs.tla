------------------------- MODULE RequestAuthProofs -------------------------
(* A signed request is accepted once, up to handlers that waited too long  *)
(* for its body, for every window, every skew and any number of handlers,  *)
(* requests and devices.                                                   *)
EXTENDS RequestAuth, TLAPS

\* The initial state.
LEMMA InitInv == Init => IInv
BY WindowAssumption, BoundAssumption
DEF Init, IInv, TypeOK, SignedInv, WorkInv, RememberedInv, Nonce, Secret, Never, Idle

\* Time passes.
LEMMA TickInv == IInv /\ Tick => IInv'
<1> SUFFICES ASSUME IInv, Tick PROVE IInv'
  OBVIOUS
<1> USE WindowAssumption, BoundAssumption DEF IInv, Tick
<1>1. TypeOK'
  BY DEF TypeOK, Request
<1>3. SignedInv'
  BY DEF SignedInv, TypeOK, Request
<1>4. WorkInv'
  BY DEF WorkInv, TypeOK, Idle
<1>5. RememberedInv'
  BY DEF RememberedInv, TypeOK, Request
<1> QED BY <1>1, <1>3, <1>4, <1>5

\* Devices come and go.
LEMMA DeviceInv ==
    ASSUME IInv, NEW d \in Device, Activate(d) \/ Revoke(d)
    PROVE  IInv'
<1> USE WindowAssumption, BoundAssumption DEF IInv
<1>0. dead' \in [Secret -> Nat] /\ rows' \in [Device -> 0..MaxSecret] /\ secrets' \in 0..MaxSecret
  <2>1. rows[d] \in 0..MaxSecret /\ clock \in Nat /\ secrets \in Nat
    BY DEF TypeOK
  <2>2. Retire(rows[d]) \in [Secret -> Nat]
    BY <2>1 DEF TypeOK, Retire, Secret, Never
  <2>3. CASE Activate(d)
    BY <2>1, <2>2, <2>3 DEF TypeOK, Activate
  <2>4. CASE Revoke(d)
    BY <2>1, <2>2, <2>4 DEF TypeOK, Revoke, Never
  <2> QED BY <2>3, <2>4
<1>a. UNCHANGED <<clock, sent, work, seen, restarts, accepted>>
  BY DEF Activate, Revoke
<1>1. TypeOK'
  BY <1>0, <1>a DEF TypeOK, Request
<1>2. SignedInv'
  BY <1>a DEF SignedInv
<1>3. WorkInv'
  BY <1>a DEF WorkInv
<1>4. RememberedInv'
  BY <1>a DEF RememberedInv
<1> QED BY <1>1, <1>2, <1>3, <1>4

\* A signed request is new.
LEMMA SignInv ==
    ASSUME IInv, NEW d \in Device, NEW s \in Secret, NEW skew \in -Skew..Skew, Sign(d, s, skew)
    PROVE  IInv'
<1> USE WindowAssumption, BoundAssumption DEF IInv
<1>1. PICK n \in Nonce \ DOMAIN sent :
        sent' = [m \in DOMAIN sent \cup {n} |->
                   IF m = n THEN [dev |-> d, secret |-> s, ts |-> clock + skew] ELSE sent[m]]
  BY DEF Sign
<1>2. /\ DOMAIN sent' = DOMAIN sent \cup {n}
      /\ \A m \in DOMAIN sent : sent'[m] = sent[m]
      /\ sent'[n] = [dev |-> d, secret |-> s, ts |-> clock + skew]
  BY <1>1
<1>3. UNCHANGED <<clock, rows, work, seen, secrets, restarts, accepted, dead>>
  BY DEF Sign
<1>4. skew \in Int /\ skew <= Skew /\ clock \in Nat
  BY DEF TypeOK
<1>5. sent'[n] \in Request /\ sent'[n].ts <= clock + Skew
  BY <1>2, <1>4 DEF Request
<1>6. TypeOK'
  BY <1>2, <1>3, <1>5 DEF TypeOK
<1>7. SignedInv'
  BY <1>2, <1>3, <1>5 DEF SignedInv
<1>8. WorkInv'
  BY <1>2, <1>3 DEF WorkInv
<1>9. RememberedInv'
  BY <1>2, <1>3 DEF RememberedInv
<1> QED BY <1>6, <1>7, <1>8, <1>9

\* A handler begins inside the window.
LEMMA BeginInv ==
    ASSUME IInv, NEW h \in Handlers, NEW n \in DOMAIN sent, BeginRequest(h, n)
    PROVE  IInv'
<1> USE WindowAssumption, BoundAssumption DEF IInv, BeginRequest
<1>1. sent[n] \in Request /\ clock \in Nat /\ rows[sent[n].dev] \in 0..MaxSecret /\ n \in Nonce
  BY DEF TypeOK, Request
<1>2. TypeOK'
  BY <1>1 DEF TypeOK
<1>3. SignedInv'
  BY DEF SignedInv
<1>4. WorkInv'
  BY <1>1 DEF WorkInv, SignedInv, TypeOK, Request
<1>5. RememberedInv'
  BY DEF RememberedInv
<1> QED BY <1>2, <1>3, <1>4, <1>5

\* A handler that ends prunes only what no handler can begin with any more, so
\* an accepted request stays remembered until then.
LEMMA EndInv ==
    ASSUME IInv, NEW h \in Handlers, EndRequest(h)
    PROVE  IInv'
<1> USE WindowAssumption, BoundAssumption DEF IInv
<1> DEFINE w == work[h]
           n == w.nonce
<1>1. /\ n \in DOMAIN sent /\ n \in Nonce /\ sent[n].ts \in Int
      /\ w.now \in Nat /\ w.now <= clock
      /\ w.now - sent[n].ts <= Window
      /\ sent[n].ts <= w.now + Skew
      /\ clock \in Nat
  BY DEF EndRequest, WorkInv, TypeOK, InWindow, Request
<1>2. UNCHANGED <<clock, rows, sent, secrets, restarts, dead>> /\ work' = [work EXCEPT ![h] = Idle]
  BY DEF EndRequest
<1>3. SignedInv' /\ WorkInv'
  BY <1>2 DEF SignedInv, WorkInv, TypeOK, Idle
<1>4. \A e \in seen : e.exp \in Int /\ e.nonce \in DOMAIN sent
  BY DEF TypeOK
<1>5. \A m \in Nonce : accepted[m] # 0 =>
         /\ m \in DOMAIN sent /\ sent[m].ts \in Int
         /\ \/ \E e \in Pruned(w.now) : e.nonce = m /\ e.exp >= sent[m].ts + 2 * Window - Skew
            \/ clock > sent[m].ts + 2 * Window - Skew
  <2> SUFFICES ASSUME NEW m \in Nonce, accepted[m] # 0
               PROVE  /\ m \in DOMAIN sent /\ sent[m].ts \in Int
                      /\ \/ \E e \in Pruned(w.now) :
                               e.nonce = m /\ e.exp >= sent[m].ts + 2 * Window - Skew
                         \/ clock > sent[m].ts + 2 * Window - Skew
    OBVIOUS
  <2>1. m \in DOMAIN sent /\ sent[m].ts \in Int
    BY DEF RememberedInv, TypeOK, Request
  <2>2. CASE clock > sent[m].ts + 2 * Window - Skew
    BY <2>1, <2>2
  <2>3. CASE \E e \in seen : e.nonce = m /\ e.exp >= sent[m].ts + 2 * Window - Skew
    <3>1. PICK e \in seen : e.nonce = m /\ e.exp >= sent[m].ts + 2 * Window - Skew
      BY <2>3
    <3>2. CASE e.exp >= w.now
      BY <2>1, <3>1, <3>2 DEF Pruned
    <3>3. CASE ~(e.exp >= w.now)
      BY <1>1, <1>4, <2>1, <3>1, <3>3
    <3> QED BY <3>2, <3>3
  <2> QED BY <2>2, <2>3 DEF RememberedInv
<1>6. Pruned(w.now) \subseteq seen
  BY DEF Pruned
<1>7. CASE w.secret # sent[n].secret
  <2>1. UNCHANGED <<seen, accepted>>
    BY <1>7 DEF EndRequest
  <2>2. TypeOK'
    BY <1>2, <2>1 DEF TypeOK, Idle
  <2>3. RememberedInv'
    BY <1>2, <2>1 DEF RememberedInv
  <2> QED BY <1>3, <2>2, <2>3
<1>8. CASE w.secret = sent[n].secret /\ \E e \in Pruned(w.now) : e.nonce = n
  <2>1. seen' = Pruned(w.now) /\ UNCHANGED accepted
    BY <1>8 DEF EndRequest
  <2>2. TypeOK'
    BY <1>2, <1>6, <2>1 DEF TypeOK, Idle
  <2>3. RememberedInv'
    BY <1>2, <1>5, <2>1 DEF RememberedInv
  <2> QED BY <1>3, <2>2, <2>3
<1>9. CASE w.secret = sent[n].secret /\ ~ \E e \in Pruned(w.now) : e.nonce = n
  <2>1. /\ seen' = Pruned(w.now) \cup {[nonce |-> n, exp |-> Expires(w.now)]}
        /\ accepted' = [accepted EXCEPT ![n] = @ + 1]
    BY <1>9 DEF EndRequest
  <2>3. Expires(w.now) \in Int /\ Expires(w.now) >= sent[n].ts + 2 * Window - Skew
    BY <1>1 DEF Expires
  <2>4. TypeOK'
    BY <1>1, <1>2, <1>6, <2>1, <2>3 DEF TypeOK, Idle
  <2>6. RememberedInv'
    <3> SUFFICES ASSUME NEW m \in Nonce, accepted'[m] # 0
                 PROVE  /\ m \in DOMAIN sent
                        /\ \/ \E e \in seen' :
                                 e.nonce = m /\ e.exp >= sent[m].ts + 2 * Window - Skew
                           \/ clock > sent[m].ts + 2 * Window - Skew
      BY <1>2 DEF RememberedInv
    <3>1. CASE m = n
      <4> DEFINE e == [nonce |-> n, exp |-> Expires(w.now)]
      <4>1. e \in seen'
        BY <2>1
      <4>2. e.nonce = m /\ e.exp >= sent[m].ts + 2 * Window - Skew
        BY <2>3, <3>1
      <4> QED BY <1>1, <3>1, <4>1, <4>2
    <3>2. CASE m # n
      BY <1>5, <2>1, <3>2 DEF TypeOK
    <3> QED BY <3>1, <3>2
  <2> QED BY <1>3, <2>4, <2>6
<1> QED BY <1>7, <1>8, <1>9

\* A restart forgets what was accepted together with the cache.
LEMMA RestartInv == IInv /\ Restart => IInv'
<1> SUFFICES ASSUME IInv, Restart PROVE IInv'
  OBVIOUS
<1> USE WindowAssumption, BoundAssumption DEF IInv, Restart
<1>1. TypeOK'
  BY DEF TypeOK, Idle
<1>2. SignedInv' /\ WorkInv' /\ RememberedInv'
  BY DEF SignedInv, WorkInv, RememberedInv, Idle
<1> QED BY <1>1, <1>2

\* The invariant of _device_auth, for every value of the constants.
THEOREM RequestInvariance == Spec => []IInv
<1>1. IInv /\ [Next]_vars => IInv'
  <2> SUFFICES ASSUME IInv, [Next]_vars PROVE IInv'
    OBVIOUS
  <2>1. CASE UNCHANGED vars
    <3> USE <2>1 DEF vars, IInv
    <3>1. TypeOK'
      BY DEF TypeOK, Request
    <3>2. SignedInv'
      BY DEF SignedInv
    <3>3. WorkInv' /\ RememberedInv'
      BY DEF WorkInv, RememberedInv, InWindow
    <3> QED BY <3>1, <3>2, <3>3
  <2>2. CASE Next
    BY <2>2, TickInv, DeviceInv, SignInv, BeginInv, EndInv, RestartInv DEF Next
  <2> QED BY <2>1, <2>2
<1> QED BY <1>1, InitInv, PTL DEF Spec

\* A handler that accepts a request for the second time has waited too long:
\* what the cache forgot was older than its own reading of the clock allows.
LEMMA AgainIsLate ==
    ASSUME IInv, [Next]_vars, NEW h \in Handlers, Accepts(h), accepted[work[h].nonce] # 0
    PROVE  clock - work[h].now > Window - Skew
<1> USE WindowAssumption, BoundAssumption
<1> DEFINE w == work[h]
           n == w.nonce
<1>1. /\ w # Idle /\ n \in DOMAIN sent /\ n \in Nonce /\ sent[n].ts \in Int
      /\ w.now \in Nat /\ w.now <= clock /\ clock \in Nat
      /\ w.now - sent[n].ts <= Window
      /\ accepted \in [Nonce -> Nat]
  BY DEF Accepts, IInv, WorkInv, TypeOK, InWindow, Request
<1>2. accepted'[n] > accepted[n] /\ work'[h] = Idle
  BY DEF Accepts
<1>3. accepted' # accepted /\ accepted' # [m \in Nonce |-> 0]
  BY <1>1, <1>2
<1>4. PICK g \in Handlers : EndRequest(g)
  BY <1>3 DEF Next, vars, Tick, Restart, Activate, Revoke, Sign, BeginRequest
<1>5. g = h
  BY <1>1, <1>2, <1>4 DEF EndRequest, IInv, TypeOK
<1>6. ~ \E e \in Pruned(w.now) : e.nonce = n
  BY <1>3, <1>4, <1>5 DEF EndRequest
<1>7. \A e \in seen : e.nonce = n => e.exp < w.now
  BY <1>1, <1>6 DEF Pruned, IInv, TypeOK
<1>8. \/ \E e \in seen : e.nonce = n /\ e.exp >= sent[n].ts + 2 * Window - Skew
      \/ clock > sent[n].ts + 2 * Window - Skew
  BY <1>1 DEF IInv, RememberedInv
<1>9. \A e \in seen : e.exp \in Int
  BY DEF IInv, TypeOK
<1>10. clock > sent[n].ts + 2 * Window - Skew
  BY <1>1, <1>7, <1>8, <1>9
<1> HIDE DEF w, n
<1>11. clock - w.now > Window - Skew
  BY <1>1, <1>10
<1> QED BY <1>11 DEF w

\* A signed request is accepted at most once by one process, however often it
\* arrives and whatever the handlers wait for, up to a handler that waited for
\* the body for longer than the window less the clocks' difference.
THEOREM RequestsAcceptedOnce == Spec => AcceptedOnce
<1>1. IInv /\ [Next]_vars =>
        [\A h \in Handlers :
            Accepts(h) /\ accepted[work[h].nonce] # 0 => clock - work[h].now > Window - Skew]_vars
  BY AgainIsLate
<1> QED BY <1>1, RequestInvariance, PTL DEF Spec, AcceptedOnce

-----------------------------------------------------------------------------
\* A device's secret is its own and not dead; a request in work was begun
\* before its secret died.
SecretInv ==
    /\ \A d, e \in Device : rows[d] # Never /\ rows[d] = rows[e] => d = e
    /\ \A d \in Device : rows[d] # Never => rows[d] <= secrets /\ dead[rows[d]] = Never
    /\ \A s \in Secret : s > secrets => dead[s] = Never
    /\ \A h \in Handlers : work[h] # Idle =>
          /\ work[h].secret \in Secret
          /\ dead[work[h].secret] = Never \/ work[h].now <= dead[work[h].secret]

\* Secrets come with activations and die with revocations.
LEMMA SecretDeviceStep ==
    ASSUME IInv, SecretInv, NEW d \in Device, Activate(d) \/ Revoke(d)
    PROVE  SecretInv'
<1> USE BoundAssumption DEF Secret, Never
<1>1. /\ rows \in [Device -> 0..MaxSecret] /\ secrets \in 0..MaxSecret /\ clock \in Nat
      /\ dead \in [Secret -> Nat]
      /\ work \in [Handlers -> [nonce : {0} \cup DOMAIN sent, now : Nat, secret : 0..MaxSecret]]
  BY DEF IInv, TypeOK
<1>2. /\ work' = work /\ dead' = IF rows[d] = 0 THEN dead ELSE [dead EXCEPT ![rows[d]] = clock]
      /\ \/ rows' = [rows EXCEPT ![d] = 0] /\ secrets' = secrets
         \/ rows' = [rows EXCEPT ![d] = secrets + 1] /\ secrets' = secrets + 1 /\ secrets < MaxSecret
  BY DEF Activate, Revoke, Retire
<1>3. \A e \in Device : rows[e] # 0 => rows[e] \in Secret /\ rows[e] <= secrets
  BY <1>1 DEF SecretInv
<1>4. \A e, g \in Device : rows'[e] # 0 /\ rows'[e] = rows'[g] => e = g
  BY <1>1, <1>2, <1>3 DEF SecretInv
<1>5. \A e \in Device : rows'[e] # 0 => rows'[e] <= secrets' /\ dead'[rows'[e]] = 0
  <2> SUFFICES ASSUME NEW e \in Device, rows'[e] # 0
               PROVE  rows'[e] <= secrets' /\ dead'[rows'[e]] = 0
    OBVIOUS
  <2>1. CASE e = d
    <3>1. /\ rows'[e] = secrets + 1 /\ secrets' = secrets + 1 /\ secrets + 1 \in Secret
          /\ dead[secrets + 1] = 0
      BY <1>1, <1>2, <2>1 DEF SecretInv
    <3>2. rows[d] # secrets + 1
      BY <1>1, <1>3
    <3> QED
      BY <1>1, <1>2, <3>1, <3>2
  <2>2. CASE e # d
    <3>1. rows'[e] = rows[e] /\ rows[e] <= secrets /\ dead[rows[e]] = 0 /\ rows[e] # rows[d]
      BY <1>1, <1>2, <2>2 DEF SecretInv
    <3> QED
      BY <1>1, <1>2, <1>3, <3>1
  <2> QED
    BY <2>1, <2>2
<1>6. \A s \in Secret : s > secrets' => dead'[s] = 0
  <2> SUFFICES ASSUME NEW s \in Secret, s > secrets' PROVE dead'[s] = 0
    OBVIOUS
  <2>1. s > secrets /\ dead[s] = 0
    BY <1>1, <1>2 DEF SecretInv
  <2>2. s # rows[d]
    BY <1>1, <1>3, <2>1
  <2> QED
    BY <1>1, <1>2, <2>1, <2>2
<1>7. ASSUME NEW h \in Handlers, work[h] # Idle
      PROVE  /\ work[h].secret \in Secret
             /\ dead'[work[h].secret] = 0 \/ work[h].now <= dead'[work[h].secret]
  <2>1. /\ work[h].secret \in Secret /\ work[h].now <= clock
        /\ dead[work[h].secret] = 0 \/ work[h].now <= dead[work[h].secret]
    BY <1>7 DEF SecretInv, IInv, WorkInv
  <2> QED
    BY <1>1, <1>2, <2>1
<1> QED
  BY <1>2, <1>4, <1>5, <1>6, <1>7 DEF SecretInv

\* A handler that begins has read a live secret.
LEMMA SecretBeginStep ==
    ASSUME IInv, SecretInv, NEW h \in Handlers, NEW n \in DOMAIN sent, BeginRequest(h, n)
    PROVE  SecretInv'
<1> USE BoundAssumption DEF Secret, Never
<1>1. UNCHANGED <<rows, secrets, dead>>
  BY DEF BeginRequest
<1>2. ASSUME NEW g \in Handlers, work'[g] # Idle
      PROVE  /\ work'[g].secret \in Secret
             /\ dead[work'[g].secret] = 0 \/ work'[g].now <= dead[work'[g].secret]
  <2>1. CASE g = h
    <3> DEFINE s == rows[sent[n].dev]
    <3>1. work'[g].secret = s /\ s # 0
      BY <2>1 DEF BeginRequest, IInv, TypeOK
    <3>2. sent[n].dev \in Device
      BY DEF IInv, TypeOK, Request
    <3>3. s \in Secret /\ dead[s] = 0
      BY <3>1, <3>2 DEF SecretInv, IInv, TypeOK
    <3> QED
      BY <3>1, <3>3
  <2>2. CASE g # h
    BY <1>2, <2>2 DEF BeginRequest, SecretInv, IInv, TypeOK
  <2> QED
    BY <2>1, <2>2
<1> QED
  BY <1>1, <1>2 DEF SecretInv

\* Every step keeps it.
LEMMA SecretStep == IInv /\ SecretInv /\ [Next]_vars => SecretInv'
<1> SUFFICES ASSUME IInv, SecretInv, [Next]_vars PROVE SecretInv'
  OBVIOUS
<1>1. CASE UNCHANGED <<rows, secrets, dead, work>>
  BY <1>1 DEF SecretInv
<1>2. CASE Tick
  BY <1>1, <1>2 DEF Tick
<1>3. CASE Restart
  BY <1>3 DEF Restart, SecretInv
<1>4. ASSUME NEW d \in Device, NEW s \in Secret, NEW skew \in -Skew..Skew, Sign(d, s, skew)
      PROVE  SecretInv'
  BY <1>1, <1>4 DEF Sign
<1>5. ASSUME NEW h \in Handlers, EndRequest(h) PROVE SecretInv'
  BY <1>5 DEF EndRequest, SecretInv, IInv, TypeOK
<1>6. CASE UNCHANGED vars
  BY <1>1, <1>6 DEF vars
<1> QED
  BY <1>2, <1>3, <1>4, <1>5, <1>6, SecretDeviceStep, SecretBeginStep DEF Next

\* What is accepted was signed with a secret that was alive when the handler
\* read the row.
LEMMA AcceptsLive ==
    ASSUME IInv, SecretInv, [Next]_vars, NEW h \in Handlers, Accepts(h)
    PROVE  \/ dead[sent[work[h].nonce].secret] = Never
           \/ work[h].now <= dead[sent[work[h].nonce].secret]
<1> USE WindowAssumption, BoundAssumption
<1>1. work[h] # Idle /\ work[h].nonce \in Nonce /\ accepted \in [Nonce -> Nat]
  BY DEF Accepts, IInv, TypeOK, WorkInv
<1>2. accepted'[work[h].nonce] > accepted[work[h].nonce] /\ work'[h] = Idle
  BY DEF Accepts
<1>3. accepted' # accepted /\ accepted' # [m \in Nonce |-> 0]
  BY <1>1, <1>2
<1>4. PICK g \in Handlers : EndRequest(g)
  BY <1>3 DEF Next, vars, Tick, Restart, Activate, Revoke, Sign, BeginRequest
<1>5. g = h
  BY <1>1, <1>2, <1>4 DEF EndRequest, IInv, TypeOK
<1>6. work[h].secret = sent[work[h].nonce].secret
  BY <1>3, <1>4, <1>5 DEF EndRequest
<1>7. dead[work[h].secret] = Never \/ work[h].now <= dead[work[h].secret]
  BY <1>1 DEF SecretInv
<1> QED
  BY <1>6, <1>7

\* A retired secret is refused, up to the bodies that were on their way.
THEOREM OldSecretsRefused == Spec => OldSecretRefused
<1>1. Init => SecretInv
  BY DEF Init, SecretInv, Never, Idle
<1>2. Spec => []SecretInv
  BY <1>1, RequestInvariance, SecretStep, PTL DEF Spec
<1>3. IInv /\ SecretInv /\ [Next]_vars =>
        [\A h \in Handlers : Accepts(h) =>
            LET since == dead[sent[work[h].nonce].secret] IN since = Never \/ work[h].now <= since]_vars
  BY AcceptsLive
<1> QED
  BY <1>2, <1>3, RequestInvariance, PTL DEF Spec, OldSecretRefused
=============================================================================
