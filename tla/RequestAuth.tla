---------------------------- MODULE RequestAuth ----------------------------
(***************************************************************************)
(* How the relay accepts a signed request (`_device_auth' in main.py): the *)
(* time window, the device row, the wait for the body, the cache of        *)
(* nonces.  A request may reach the service more than once, two handlers   *)
(* may work on it at once, and between the first and the last line of a    *)
(* handler, where it waits for the body, anything else may run.            *)
(***************************************************************************)
EXTENDS Integers

CONSTANTS
    Device,
    Window,     \* cfg.sign_window
    Skew,       \* how far a client's clock is from the service's
    Handlers,   \* places for requests in work at once
    MaxRequest, MaxSecret, MaxTime, MaxRestart      \* bounds

ASSUME WindowAssumption == Window \in Nat /\ Skew \in Nat
ASSUME BoundAssumption ==
    MaxRequest \in Nat /\ MaxSecret \in Nat /\ MaxTime \in Nat /\ MaxRestart \in Nat

Nonce == 1..MaxRequest
Secret == 1..MaxSecret
Never == 0      \* no secret; a secret that is not dead
Idle == [nonce |-> 0, now |-> 0, secret |-> 0]

VARIABLES
    clock,
    rows,       \* devices: the secret of an active device, or Never
    sent,       \* requests the clients have signed, by nonce
    work,       \* handlers waiting for a body
    seen,       \* _seen_nonces
    secrets,    \* how many secrets were made
    restarts,
    accepted,   \* history: how often a request was accepted in this life
    dead        \* history: since when a secret is no device's

vars == <<clock, rows, sent, work, seen, secrets, restarts, accepted, dead>>

Request == [dev : Device, secret : Secret, ts : Int]
Unsent == [dev |-> CHOOSE d \in Device : TRUE, secret |-> 0, ts |-> 0]

Init ==
    /\ clock = 1
    /\ rows = [d \in Device |-> Never]
    /\ sent = [n \in {} |-> Unsent]
    /\ work = [h \in Handlers |-> Idle]
    /\ seen = {} /\ secrets = 0 /\ restarts = 0
    /\ accepted = [n \in Nonce |-> 0]
    /\ dead = [s \in Secret |-> Never]

\* Time passes also while bodies are waited for, as long as they please.
Tick ==
    /\ clock < MaxTime
    /\ clock' = clock + 1
    /\ UNCHANGED <<rows, sent, work, seen, secrets, restarts, accepted, dead>>

\* A secret that is no longer its device's.
Retire(s) == IF s = Never THEN dead ELSE [dead EXCEPT ![s] = clock]

\* device_upsert after an activation: a new secret, not revoked.
Activate(d) ==
    /\ secrets < MaxSecret
    /\ secrets' = secrets + 1
    /\ rows' = [rows EXCEPT ![d] = secrets + 1]
    /\ dead' = Retire(rows[d])
    /\ UNCHANGED <<clock, sent, work, seen, restarts, accepted>>

RevokeMisses(d) ==
    /\ rows[d] # Never
    /\ dead' = Retire(rows[d])
    /\ UNCHANGED <<clock, rows, sent, work, seen, secrets, restarts, accepted>>

\* revoke_device, or delete_user, which removes the row.
Revoke(d) ==
    /\ rows[d] # Never
    /\ rows' = [rows EXCEPT ![d] = Never]
    /\ dead' = Retire(rows[d])
    /\ UNCHANGED <<clock, sent, work, seen, secrets, restarts, accepted>>

\* A client signs a request with a secret it was given, by its own clock.
Sign(d, s, skew) ==
    /\ s <= secrets
    /\ \E n \in Nonce \ DOMAIN sent :
          /\ \A m \in Nonce : m < n => m \in DOMAIN sent
          /\ sent' = [m \in DOMAIN sent \cup {n} |->
                        IF m = n THEN [dev |-> d, secret |-> s, ts |-> clock + skew] ELSE sent[m]]
    /\ UNCHANGED <<clock, rows, work, seen, secrets, restarts, accepted, dead>>

InWindow(ts, now) == now - ts <= Window /\ ts - now <= Window

\* The head of the handler, up to the await: the time and the row are read.
BeginRequest(h, n) ==
    /\ work[h] = Idle
    /\ InWindow(sent[n].ts, clock)
    /\ rows[sent[n].dev] # Never
    /\ work' = [work EXCEPT ![h] = [nonce |-> n, now |-> clock, secret |-> rows[sent[n].dev]]]
    /\ UNCHANGED <<clock, rows, sent, seen, secrets, restarts, accepted, dead>>

\* _prune_nonces, with the handler's reading of the clock.
ExpiresSooner(now) == now + Window
Expires(now) == now + 2 * Window
Pruned(now) == {e \in seen : e.exp >= now}

\* The rest of the handler, once the body is there: the signature is compared
\* with the secret read before, then the nonce with those seen.
EndRequest(h) ==
    /\ work[h] # Idle
    /\ work' = [work EXCEPT ![h] = Idle]
    /\ LET w == work[h] IN
       IF w.secret # sent[w.nonce].secret
       THEN UNCHANGED <<seen, accepted>>
       ELSE IF \E e \in Pruned(w.now) : e.nonce = w.nonce
       THEN seen' = Pruned(w.now) /\ UNCHANGED accepted
       ELSE /\ seen' = Pruned(w.now) \cup {[nonce |-> w.nonce, exp |-> Expires(w.now)]}
            /\ accepted' = [accepted EXCEPT ![w.nonce] = @ + 1]
    /\ UNCHANGED <<clock, rows, sent, secrets, restarts, dead>>

\* The service restarts: the cache is gone, the requests in work fail.
Restart ==
    /\ restarts < MaxRestart
    /\ restarts' = restarts + 1
    /\ seen' = {}
    /\ work' = [h \in Handlers |-> Idle]
    /\ accepted' = [n \in Nonce |-> 0]
    /\ UNCHANGED <<clock, rows, sent, secrets, dead>>

Next ==
    \/ Tick \/ Restart
    \/ \E d \in Device : Activate(d) \/ Revoke(d)
    \/ \E d \in Device, s \in Secret, skew \in -Skew..Skew : Sign(d, s, skew)
    \/ \E h \in Handlers : EndRequest(h)
    \/ \E h \in Handlers : \E n \in DOMAIN sent : BeginRequest(h, n)

Spec == Init /\ [][Next]_vars

---------------------------------------------------------------------------
(* Properties                                                              *)

TypeOK ==
    /\ clock \in Nat /\ secrets \in 0..MaxSecret /\ restarts \in 0..MaxRestart
    /\ rows \in [Device -> 0..MaxSecret]
    /\ DOMAIN sent \subseteq Nonce
    /\ \A n \in DOMAIN sent : sent[n] \in Request
    /\ work \in [Handlers -> [nonce : {0} \cup DOMAIN sent, now : Nat, secret : 0..MaxSecret]]
    /\ seen \subseteq [nonce : DOMAIN sent, exp : Int]
    /\ accepted \in [Nonce -> Nat]
    /\ dead \in [Secret -> Nat]

\* Handler h ends and accepts its request.
Accepts(h) ==
    /\ work[h] # Idle /\ work'[h] = Idle
    /\ accepted'[work[h].nonce] > accepted[work[h].nonce]

\* However often a signed request arrives, whatever else is handled while its
\* body is on the way, one process accepts it once (the nonce cache), unless
\* the handler that accepts it again waited for the body for longer than the
\* window less the clocks' difference: the code sets that wait no limit, and
\* compares the time read before it with the expiry times of the cache.
AcceptedOnce ==
    [][\A h \in Handlers :
          Accepts(h) /\ accepted[work[h].nonce] # 0 => clock - work[h].now > Window - Skew]_vars

\* A request in work was in its window when its handler began.
WorkInv ==
    \A h \in Handlers : work[h] # Idle =>
        /\ work[h].nonce \in DOMAIN sent
        /\ work[h].now <= clock
        /\ InWindow(sent[work[h].nonce].ts, work[h].now)
        /\ sent[work[h].nonce].ts <= work[h].now + Skew

\* An accepted request is remembered until no handler can begin with it any more.
RememberedInv ==
    \A n \in Nonce : accepted[n] # 0 =>
        /\ n \in DOMAIN sent
        /\ \/ \E e \in seen : e.nonce = n /\ e.exp >= sent[n].ts + 2 * Window - Skew
           \/ clock > sent[n].ts + 2 * Window - Skew

SignedInv == \A n \in DOMAIN sent : sent[n].ts <= clock + Skew

IInv == TypeOK /\ SignedInv /\ WorkInv /\ RememberedInv

\* A device that was revoked, whose user was deleted, or that was activated
\* anew, is refused with its old secret from then on, except by handlers that
\* read the row before and were waiting for the body.
OldSecretRefused ==
    [][\A h \in Handlers : Accepts(h) =>
          LET since == dead[sent[work[h].nonce].secret] IN since = Never \/ work[h].now <= since]_vars
=============================================================================
