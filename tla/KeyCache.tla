------------------------------ MODULE KeyCache ------------------------------
(***************************************************************************)
(* The key set of one portal process (oidc.py: OidcClient.jwks and         *)
(* verify_id_token).  The eight threads of the process share _jwks and     *)
(* _jwks_fetched_at without a lock; the two assignments are two steps and  *)
(* the time recorded is the one read before the fetch.  Okta publishes and *)
(* retires signing keys as it likes.                                       *)
(***************************************************************************)
EXTENDS PortalProcess

CONSTANTS
  Kids,          \* key ids
  NoKid,
  Interval,      \* _min_refetch_interval
  FetchTime      \* the longest that a call of jwks() takes

ASSUME KeyAssumption ==
  /\ Kids # {} /\ NoKid \notin Kids
  /\ Interval \in Nat \ {0} /\ FetchTime \in Nat

VARIABLES
  published,     \* what Okta's jwks_uri answers
  since,         \* kid -> when Okta began to publish it
  _jwks,         \* {} is None: the published set is never empty
  _jwks_fetched_at,
  call,          \* thread -> its call of verify_id_token
  lastDone       \* the latest start of a fetch that is complete (history)

oktaVars == <<now, published, since>>
cacheVars == <<_jwks, _jwks_fetched_at, lastDone>>
keyVars == <<oktaVars, cacheVars, call>>

\* "jwks": in jwks(), the time is read; "fetch": about to ask Okta; "got", "set":
\* before and between the assignments; "check": jwks() returns; then the outcome.
Stages == {"idle", "jwks", "fetch", "got", "set", "check",
           "verified", "unknown", "failed"}
Calls == [at : Stages, kid : Kids \cup {NoKid}, force : BOOLEAN, start : Nat,
          keys : SUBSET Kids]
NoCall == [at |-> "idle", kid |-> NoKid, force |-> FALSE, start |-> 0, keys |-> {}]

KeyInit ==
  /\ now = 0
  /\ \E k \in Kids : published = {k}
  /\ since = [k \in Kids |-> 0]
  /\ _jwks = {}
  /\ _jwks_fetched_at = 0
  /\ call = [t \in Threads |-> NoCall]
  /\ lastDone = 0

-----------------------------------------------------------------------------
InJwks(t) == call[t].at \in {"jwks", "fetch", "got", "set"}

\* A fetch has a timeout, and what surrounds it takes next to no time.
Tick ==
  /\ now < MaxTime
  /\ \A t \in Threads : InJwks(t) => now < call[t].start + FetchTime
  /\ now' = now + 1
  /\ UNCHANGED <<published, since, cacheVars, call>>

Publish(k) ==
  /\ k \notin published
  /\ published' = published \cup {k}
  /\ since' = [since EXCEPT ![k] = now]
  /\ UNCHANGED <<now, cacheVars, call>>

Retire(k) ==
  /\ k \in published /\ published # {k}
  /\ published' = published \ {k}
  /\ since' = [since EXCEPT ![k] = 0]
  /\ UNCHANGED <<now, cacheVars, call>>

-----------------------------------------------------------------------------
Goto(t, stage, ks) ==
  call' = [call EXCEPT ![t] = [at |-> stage, kid |-> call[t].kid, force |-> call[t].force,
                               start |-> call[t].start, keys |-> ks]]
Outcome(t, stage) ==
  call' = [call EXCEPT ![t] = [at |-> stage, kid |-> NoKid, force |-> FALSE,
                               start |-> 0, keys |-> {}]]

EnterJwks(t, k, f) ==
  call' = [call EXCEPT ![t] = [at |-> "jwks", kid |-> k, force |-> f,
                               start |-> now, keys |-> {}]]

verify_id_token(t, k) ==
  /\ call[t].at = "idle"
  /\ EnterJwks(t, k, FALSE)
  /\ UNCHANGED <<oktaVars, cacheVars>>

\* Faulty: every unknown kid fetches.
MustFetch_Unthrottled(t) == _jwks = {} \/ call[t].force

\* Faulty: a key set once read is kept.
MustFetch_Once(t) == _jwks = {}

MustFetch(t) ==
  \/ _jwks = {}
  \/ call[t].force /\ call[t].start >= _jwks_fetched_at + Interval

jwks(t) ==
  /\ call[t].at = "jwks"
  /\ Goto(t, IF MustFetch(t) THEN "fetch" ELSE "check", {})
  /\ UNCHANGED <<oktaVars, cacheVars>>

FetchKeys(t) ==
  /\ call[t].at = "fetch"
  /\ \/ Goto(t, "got", published)
     \/ Outcome(t, "failed")
  /\ UNCHANGED <<oktaVars, cacheVars>>

SetJwks(t) ==
  /\ call[t].at = "got"
  /\ _jwks' = call[t].keys
  /\ Goto(t, "set", {})
  /\ UNCHANGED <<oktaVars, _jwks_fetched_at, lastDone>>

\* Faulty: when the next refetch may be, and not when the last one was.
FetchedAt_Next(t) == call[t].start + Interval

FetchedAt(t) == call[t].start

SetFetchedAt(t) ==
  /\ call[t].at = "set"
  /\ _jwks_fetched_at' = FetchedAt(t)
  /\ lastDone' = IF call[t].start > lastDone THEN call[t].start ELSE lastDone
  /\ Goto(t, "check", {})
  /\ UNCHANGED <<oktaVars, _jwks>>

\* jwks() returns the attribute as it is by now, and verify_jwt looks the kid up.
\* An unknown kid is looked up once more in what jwks(force=True) returns.
Check(t) ==
  /\ call[t].at = "check"
  /\ \/ call[t].kid \in _jwks /\ Outcome(t, "verified")
     \/ call[t].kid \notin _jwks /\ ~call[t].force /\ EnterJwks(t, call[t].kid, TRUE)
     \/ call[t].kid \notin _jwks /\ call[t].force /\ Goto(t, "unknown", {})
  /\ UNCHANGED <<oktaVars, cacheVars>>

Return(t) ==
  /\ call[t].at \in {"verified", "unknown", "failed"}
  /\ call' = [call EXCEPT ![t] = NoCall]
  /\ UNCHANGED <<oktaVars, cacheVars>>

Okta == Tick \/ \E k \in Kids : Publish(k) \/ Retire(k)

KeyStep(t) == jwks(t) \/ FetchKeys(t) \/ SetJwks(t) \/ SetFetchedAt(t) \/ Check(t)

KeyNext ==
  \/ Okta
  \/ \E t \in Threads :
       KeyStep(t) \/ Return(t) \/ \E k \in Kids : verify_id_token(t, k)

KeySpec == KeyInit /\ [][KeyNext]_keyVars

-----------------------------------------------------------------------------
\* The variables have their types, and what is recorded as a time is past.
KeyTypeOK ==
  /\ now \in Nat
  /\ published \subseteq Kids
  /\ since \in [Kids -> 0 .. now]
  /\ _jwks \subseteq Kids
  /\ _jwks_fetched_at \in 0 .. now
  /\ call \in [Threads -> Calls]
  /\ \A t \in Threads : call[t].start <= now
  /\ lastDone \in 0 .. now

\* "handles Okta signing-key rotation without a restart": whatever the threads
\* write over each other, a token is refused for its key id only within the
\* refetch interval, and one fetch, of the key's publication.
KeyPickup ==
  \A t \in Threads :
    call[t].at = "unknown" /\ call[t].kid \in published =>
      call[t].start < since[call[t].kid] + Interval + FetchTime

\* "Minimum seconds between forced JWKS refetches": a forced refetch starts an
\* interval after the start of every fetch completed before, less one fetch for
\* the thread that finishes late and turns the recorded time back.
RefetchThrottled ==
  [][\A t \in Threads :
       call[t].at = "jwks" /\ call[t].force /\ call'[t].at = "fetch" =>
         call[t].start + FetchTime >= lastDone + Interval]_keyVars

=============================================================================
