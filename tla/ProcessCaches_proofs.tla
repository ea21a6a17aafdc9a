------------------------ MODULE ProcessCaches_proofs ------------------------
(***************************************************************************)
(* The two caches of a portal process, for any number of threads, keys and *)
(* certificates, any intervals and any bound of the clock.                 *)
(***************************************************************************)
EXTENDS KeyCache, FingerprintCache, TLAPS

(* The key set.  Missing(k): Okta publishes k and the process does not      *)
(* know it.  The set that lacks k was read before k was published, so it    *)
(* was assigned at most one fetch after that; whatever time is recorded     *)
(* with it is no later.                                                     *)

Missing(k) == k \in published /\ k \notin _jwks

\* A call of jwks() that fetches is over in time.
InTime == \A t \in Threads : InJwks(t) => now <= call[t].start + FetchTime

\* An answer that lacks a published key was asked for before its publication.
AnswerInv ==
  \A t \in Threads : \A k \in published :
    call[t].at = "got" /\ k \notin call[t].keys => call[t].start <= since[k]

\* The time recorded with a set that lacks a key, or about to be.
RecordedInv ==
  \A k \in Kids : Missing(k) =>
    /\ _jwks_fetched_at <= since[k] + FetchTime
    /\ \A t \in Threads : call[t].at = "set" => call[t].start <= since[k] + FetchTime

\* A second lookup that will fail has begun soon after the publication.
LookupInv ==
  \A t \in Threads : \A k \in Kids :
    call[t].at = "check" /\ call[t].force /\ Missing(k) =>
      call[t].start < since[k] + Interval + FetchTime

ThrottleInv == lastDone <= _jwks_fetched_at + FetchTime

KeyInv ==
  KeyTypeOK /\ InTime /\ AnswerInv /\ RecordedInv /\ LookupInv /\ KeyPickup /\ ThrottleInv

-----------------------------------------------------------------------------
LEMMA KeyInitInv == KeyInit => KeyInv
  BY KeyAssumption
  DEF KeyInit, KeyInv, KeyTypeOK, Calls, Stages, NoCall, InTime, InJwks, AnswerInv,
      RecordedInv, LookupInv, KeyPickup, ThrottleInv

\* What the type invariant says of one call.
LEMMA CallFacts ==
  ASSUME KeyTypeOK, NEW t \in Threads
  PROVE  /\ call[t] = [at |-> call[t].at, kid |-> call[t].kid, force |-> call[t].force,
                       start |-> call[t].start, keys |-> call[t].keys]
         /\ call[t].at \in Stages /\ call[t].kid \in Kids \cup {NoKid}
         /\ call[t].force \in BOOLEAN
         /\ call[t].start \in Nat /\ call[t].keys \in SUBSET Kids
         /\ call[t].start <= now /\ now \in Nat
  BY DEF KeyTypeOK, Calls

\* What Okta and the clock do.
LEMMA TickInv == ASSUME KeyInv, Tick PROVE KeyInv'
  <1> USE KeyAssumption DEF cacheVars
  <1>0. /\ KeyTypeOK /\ InTime /\ AnswerInv /\ RecordedInv /\ LookupInv /\ KeyPickup
        /\ ThrottleInv
    BY DEF KeyInv
  <1>1. KeyTypeOK'
    <2>1. now' = now + 1 /\ now \in Nat /\ 0 .. now \subseteq 0 .. now'
      BY <1>0 DEF Tick, KeyTypeOK
    <2>2. since' \in [Kids -> 0 .. now']
      BY <1>0, <2>1 DEF Tick, KeyTypeOK
    <2>3. \A t \in Threads : call'[t].start <= now'
      <3>1. ASSUME NEW t \in Threads PROVE call[t].start <= now + 1
        <4>1. call[t].start \in Nat /\ call[t].start <= now
          BY <1>0, CallFacts
        <4> QED
          BY <2>1, <4>1
      <3> QED
        BY <2>1, <3>1 DEF Tick
    <2> QED
      BY <1>0, <2>1, <2>2, <2>3 DEF Tick, KeyTypeOK
  <1>2. InTime'
    BY <1>0, CallFacts DEF Tick, InTime, InJwks, KeyTypeOK
  <1>3. AnswerInv' /\ RecordedInv' /\ LookupInv' /\ KeyPickup' /\ ThrottleInv'
    BY <1>0 DEF Tick, AnswerInv, RecordedInv, LookupInv, KeyPickup, ThrottleInv, Missing
  <1> QED
    BY <1>1, <1>2, <1>3 DEF KeyInv

LEMMA PublishInv == ASSUME KeyInv, NEW k \in Kids, Publish(k) PROVE KeyInv'
  <1> USE KeyAssumption DEF cacheVars
  <1>0. /\ KeyTypeOK /\ InTime /\ AnswerInv /\ RecordedInv /\ LookupInv /\ KeyPickup
        /\ ThrottleInv
    BY DEF KeyInv
  <1>1. KeyTypeOK'
    BY <1>0 DEF Publish, KeyTypeOK
  <1>2. InTime' /\ ThrottleInv'
    BY <1>0 DEF Publish, InTime, InJwks, ThrottleInv
  <1>3. /\ published' = published \cup {k} /\ call' = call /\ _jwks' = _jwks
        /\ _jwks_fetched_at' = _jwks_fetched_at
        /\ since'[k] = now
        /\ \A j \in Kids : j # k => since'[j] = since[j]
    BY <1>0 DEF Publish, KeyTypeOK
  <1>4. AnswerInv'
    BY <1>0, <1>3, CallFacts DEF AnswerInv, KeyTypeOK
  <1>5. RecordedInv'
    BY <1>0, <1>3, CallFacts DEF RecordedInv, Missing, KeyTypeOK
  <1>6. LookupInv'
    BY <1>0, <1>3, CallFacts DEF LookupInv, Missing, KeyTypeOK
  <1>7. KeyPickup'
    <2> SUFFICES ASSUME NEW t \in Threads, call[t].at = "unknown",
                        call[t].kid \in published \cup {k}
                 PROVE  call[t].start < since'[call[t].kid] + Interval + FetchTime
      BY <1>3 DEF KeyPickup
    <2>1. CASE call[t].kid = k
      <3>1. since'[call[t].kid] = now
        BY <1>3, <2>1
      <3>2. call[t].start \in Nat /\ call[t].start <= now /\ now \in Nat
        BY <1>0, CallFacts
      <3> QED
        BY <3>1, <3>2
    <2>2. CASE call[t].kid # k
      BY <1>0, <1>3, <2>2 DEF KeyPickup, KeyTypeOK
    <2> QED
      BY <2>1, <2>2
  <1> QED
    BY <1>1, <1>2, <1>4, <1>5, <1>6, <1>7 DEF KeyInv

LEMMA RetireInv == ASSUME KeyInv, NEW k \in Kids, Retire(k) PROVE KeyInv'
  <1> USE KeyAssumption DEF cacheVars
  <1>0. /\ KeyTypeOK /\ InTime /\ AnswerInv /\ RecordedInv /\ LookupInv /\ KeyPickup
        /\ ThrottleInv
    BY DEF KeyInv
  <1>1. KeyTypeOK'
    BY <1>0 DEF Retire, KeyTypeOK
  <1>2. InTime' /\ ThrottleInv'
    BY <1>0 DEF Retire, InTime, InJwks, ThrottleInv
  <1>3. /\ published' = published \ {k} /\ call' = call /\ _jwks' = _jwks
        /\ _jwks_fetched_at' = _jwks_fetched_at
        /\ \A j \in Kids : j # k => since'[j] = since[j]
    BY <1>0 DEF Retire, KeyTypeOK
  <1>4. AnswerInv' /\ RecordedInv'
    BY <1>0, <1>3 DEF AnswerInv, RecordedInv, Missing, KeyTypeOK
  <1>5. LookupInv' /\ KeyPickup'
    BY <1>0, <1>3 DEF LookupInv, KeyPickup, Missing, KeyTypeOK
  <1> QED
    BY <1>1, <1>2, <1>4, <1>5 DEF KeyInv

-----------------------------------------------------------------------------
\* A step of a call: the others' calls are what they were.
LEMMA CallStep ==
  ASSUME KeyTypeOK, NEW t \in Threads, NEW c \in Calls, c.start <= now,
         call' = [call EXCEPT ![t] = c], UNCHANGED oktaVars
  PROVE  /\ call' \in [Threads -> Calls]
         /\ \A s \in Threads : call'[s].start <= now
         /\ call'[t] = c
         /\ \A s \in Threads : s # t => call'[s] = call[s]
  BY DEF KeyTypeOK

LEMMA EnterCall ==
  ASSUME KeyTypeOK, NEW k \in Kids \cup {NoKid}, NEW f \in BOOLEAN
  PROVE  [at |-> "jwks", kid |-> k, force |-> f, start |-> now, keys |-> {}] \in Calls
  BY DEF KeyTypeOK, Calls, Stages

LEMMA NextCall ==
  ASSUME KeyTypeOK, NEW t \in Threads, NEW a \in Stages, NEW ks \in SUBSET Kids
  PROVE  [at |-> a, kid |-> call[t].kid, force |-> call[t].force,
          start |-> call[t].start, keys |-> ks] \in Calls
  BY CallFacts DEF Calls

\* Entering jwks() for the first or the second time.
LEMMA EnterInv ==
  ASSUME KeyInv, NEW t \in Threads, NEW k \in Kids \cup {NoKid}, NEW f \in BOOLEAN,
         EnterJwks(t, k, f), UNCHANGED <<oktaVars, cacheVars>>
  PROVE  KeyInv'
  <1> USE KeyAssumption DEF oktaVars, cacheVars
  <1>0. /\ KeyTypeOK /\ InTime /\ AnswerInv /\ RecordedInv /\ LookupInv /\ KeyPickup
        /\ ThrottleInv
    BY DEF KeyInv
  <1>1. /\ call' \in [Threads -> Calls]
        /\ \A s \in Threads : call'[s].start <= now
        /\ call'[t].at = "jwks" /\ call'[t].start = now
        /\ \A s \in Threads : s # t => call'[s] = call[s]
    BY <1>0, EnterCall, CallStep DEF EnterJwks, KeyTypeOK
  <1>2. KeyTypeOK' /\ ThrottleInv'
    BY <1>0, <1>1 DEF KeyTypeOK, ThrottleInv
  <1>3. InTime'
    BY <1>0, <1>1 DEF InTime, InJwks, KeyTypeOK
  <1>4. AnswerInv' /\ RecordedInv' /\ LookupInv' /\ KeyPickup'
    BY <1>0, <1>1 DEF AnswerInv, RecordedInv, LookupInv, KeyPickup, Missing
  <1> QED
    BY <1>2, <1>3, <1>4 DEF KeyInv

\* A step to a stage that no part of the invariant is about.
LEMMA QuietInv ==
  ASSUME KeyInv, NEW t \in Threads, NEW c \in Calls, c.start <= now,
         call' = [call EXCEPT ![t] = c], UNCHANGED <<oktaVars, cacheVars>>,
         c.at = "fetch" => call[t].at = "jwks" /\ c.start = call[t].start,
         c.at \notin {"jwks", "got", "set", "check", "unknown"}
  PROVE  KeyInv'
  <1> USE KeyAssumption DEF oktaVars, cacheVars
  <1>0. /\ KeyTypeOK /\ InTime /\ AnswerInv /\ RecordedInv /\ LookupInv /\ KeyPickup
        /\ ThrottleInv
    BY DEF KeyInv
  <1>1. /\ call' \in [Threads -> Calls]
        /\ \A s \in Threads : call'[s].start <= now
        /\ call'[t] = c
        /\ \A s \in Threads : s # t => call'[s] = call[s]
    BY <1>0, CallStep
  <1>2. KeyTypeOK' /\ ThrottleInv'
    BY <1>0, <1>1 DEF KeyTypeOK, ThrottleInv
  <1>3. InTime'
    BY <1>0, <1>1 DEF InTime, InJwks
  <1>4. AnswerInv' /\ RecordedInv' /\ LookupInv' /\ KeyPickup'
    BY <1>0, <1>1 DEF AnswerInv, RecordedInv, LookupInv, KeyPickup, Missing
  <1> QED
    BY <1>2, <1>3, <1>4 DEF KeyInv

\* The conjuncts, for the steps below.
LEMMA Parts ==
  KeyInv <=> /\ KeyTypeOK /\ InTime /\ AnswerInv /\ RecordedInv /\ LookupInv
             /\ KeyPickup /\ ThrottleInv
  BY DEF KeyInv

LEMMA JwksInv ==
  ASSUME KeyInv, NEW t \in Threads, jwks(t) PROVE KeyInv'
  <1> USE KeyAssumption DEF oktaVars, cacheVars
  <1>0. /\ KeyTypeOK /\ InTime /\ AnswerInv /\ RecordedInv /\ LookupInv /\ KeyPickup
        /\ ThrottleInv
    BY Parts
  <1>1. CASE MustFetch(t)
    <2>1. call' = [call EXCEPT ![t] = [at |-> "fetch", kid |-> call[t].kid,
                     force |-> call[t].force, start |-> call[t].start, keys |-> {}]]
      BY <1>1 DEF jwks, Goto
    <2> QED
      BY <1>0, <2>1, CallFacts, NextCall, QuietInv DEF jwks, Stages
  <1>2. CASE ~MustFetch(t)
    <2>1. call' = [call EXCEPT ![t] = [at |-> "check", kid |-> call[t].kid,
                     force |-> call[t].force, start |-> call[t].start, keys |-> {}]]
      BY <1>2 DEF jwks, Goto
    <2>2. /\ call' \in [Threads -> Calls]
          /\ \A s \in Threads : call'[s].start <= now
          /\ call'[t].at = "check" /\ call'[t].force = call[t].force
          /\ call'[t].start = call[t].start
          /\ \A s \in Threads : s # t => call'[s] = call[s]
      BY <1>0, <2>1, CallFacts, NextCall, CallStep DEF jwks, Stages
    <2>3. KeyTypeOK' /\ ThrottleInv'
      BY <1>0, <2>2 DEF KeyTypeOK, ThrottleInv, jwks
    <2>4. InTime' /\ AnswerInv' /\ RecordedInv' /\ KeyPickup'
      BY <1>0, <2>2 DEF InTime, InJwks, AnswerInv, RecordedInv, KeyPickup, Missing, jwks
    <2>5. ASSUME NEW k \in Kids, call[t].force, Missing(k)
          PROVE  call[t].start < since[k] + Interval + FetchTime
      <3>1. _jwks_fetched_at <= since[k] + FetchTime
        BY <1>0, <2>5 DEF RecordedInv
      <3>2. call[t].start < _jwks_fetched_at + Interval
        BY <1>2, <2>5, <1>0, CallFacts DEF MustFetch, KeyTypeOK
      <3>3. /\ call[t].start \in Nat /\ since[k] \in Nat /\ _jwks_fetched_at \in Nat
        BY <1>0, CallFacts DEF KeyTypeOK
      <3> QED
        BY <3>1, <3>2, <3>3
    <2>6. LookupInv'
      BY <1>0, <2>2, <2>5 DEF LookupInv, Missing, jwks
    <2> QED
      BY <2>3, <2>4, <2>6, Parts DEF KeyInv
  <1> QED
    BY <1>1, <1>2

LEMMA FetchInv ==
  ASSUME KeyInv, NEW t \in Threads, FetchKeys(t) PROVE KeyInv'
  <1> USE KeyAssumption DEF oktaVars, cacheVars
  <1>0. /\ KeyTypeOK /\ InTime /\ AnswerInv /\ RecordedInv /\ LookupInv /\ KeyPickup
        /\ ThrottleInv
    BY Parts
  <1>1. CASE Outcome(t, "failed")
    <2>1. [at |-> "failed", kid |-> NoKid, force |-> FALSE, start |-> 0, keys |-> {}]
            \in Calls
      BY DEF Calls, Stages
    <2>2. 0 <= now
      BY <1>0 DEF KeyTypeOK
    <2> QED
      BY <1>1, <2>1, <2>2, QuietInv DEF FetchKeys, Outcome
  <1>2. CASE Goto(t, "got", published)
    <2>1. call' = [call EXCEPT ![t] = [at |-> "got", kid |-> call[t].kid,
                     force |-> call[t].force, start |-> call[t].start, keys |-> published]]
      BY <1>2 DEF Goto
    <2>2. published \in SUBSET Kids
      BY <1>0 DEF KeyTypeOK
    <2>3. /\ call' \in [Threads -> Calls]
          /\ \A s \in Threads : call'[s].start <= now
          /\ call'[t].at = "got" /\ call'[t].keys = published
          /\ call'[t].start = call[t].start
          /\ \A s \in Threads : s # t => call'[s] = call[s]
      BY <1>0, <2>1, <2>2, CallFacts, NextCall, CallStep DEF FetchKeys, Stages
    <2>4. KeyTypeOK' /\ ThrottleInv'
      BY <1>0, <2>3 DEF KeyTypeOK, ThrottleInv, FetchKeys
    <2>5. InTime' /\ RecordedInv' /\ LookupInv' /\ KeyPickup'
      BY <1>0, <2>3 DEF InTime, InJwks, RecordedInv, LookupInv, KeyPickup, Missing,
                        FetchKeys
    <2>6. AnswerInv'
      BY <1>0, <2>3 DEF AnswerInv, FetchKeys
    <2> QED
      BY <2>4, <2>5, <2>6 DEF KeyInv
  <1> QED
    BY <1>1, <1>2 DEF FetchKeys

\* The answer lacks k: it is at most one fetch old, and so is every call's start.
LEMMA SetJwksInv ==
  ASSUME KeyInv, NEW t \in Threads, SetJwks(t) PROVE KeyInv'
  <1> USE KeyAssumption DEF oktaVars
  <1>0. /\ KeyTypeOK /\ InTime /\ AnswerInv /\ RecordedInv /\ LookupInv /\ KeyPickup
        /\ ThrottleInv
    BY Parts
  <1>1. call' = [call EXCEPT ![t] = [at |-> "set", kid |-> call[t].kid,
                   force |-> call[t].force, start |-> call[t].start, keys |-> {}]]
    BY DEF SetJwks, Goto
  <1>2. /\ call' \in [Threads -> Calls]
        /\ \A s \in Threads : call'[s].start <= now
        /\ call'[t].at = "set" /\ call'[t].start = call[t].start
        /\ \A s \in Threads : s # t => call'[s] = call[s]
    BY <1>0, <1>1, CallFacts, NextCall, CallStep DEF SetJwks, Stages
  <1>3. call[t].keys \in SUBSET Kids
    BY <1>0, CallFacts
  <1>4. KeyTypeOK' /\ ThrottleInv'
    BY <1>0, <1>2, <1>3 DEF KeyTypeOK, ThrottleInv, SetJwks
  <1>5. InTime' /\ AnswerInv' /\ KeyPickup'
    BY <1>0, <1>2 DEF InTime, InJwks, AnswerInv, KeyPickup, SetJwks
  <1>6. ASSUME NEW k \in Kids, Missing(k)'
        PROVE  now <= since[k] + FetchTime
    <2>1. call[t].start <= since[k] /\ now <= call[t].start + FetchTime
      BY <1>0, <1>6 DEF AnswerInv, InTime, InJwks, Missing, SetJwks
    <2>2. call[t].start \in Nat /\ since[k] \in Nat /\ now \in Nat
      BY <1>0, CallFacts DEF KeyTypeOK
    <2> QED
      BY <2>1, <2>2
  <1>7. /\ now \in Nat /\ _jwks_fetched_at \in 0 .. now /\ since' = since
        /\ _jwks_fetched_at' = _jwks_fetched_at /\ since \in [Kids -> 0 .. now]
        /\ \A s \in Threads : call'[s].start \in Nat /\ call'[s].start <= now
    BY <1>0, <1>2 DEF SetJwks, KeyTypeOK, Calls
  <1>8. RecordedInv'
    <2> SUFFICES ASSUME NEW k \in Kids, Missing(k)'
                 PROVE  /\ _jwks_fetched_at <= since[k] + FetchTime
                        /\ \A s \in Threads : call'[s].start <= since[k] + FetchTime
      BY <1>7 DEF RecordedInv
    <2> QED
      BY <1>6, <1>7
  <1>9. LookupInv'
    <2> SUFFICES ASSUME NEW k \in Kids, Missing(k)', NEW s \in Threads
                 PROVE  call'[s].start < since[k] + Interval + FetchTime
      BY <1>7 DEF LookupInv
    <2> QED
      BY <1>6, <1>7
  <1> QED
    BY <1>4, <1>5, <1>8, <1>9 DEF KeyInv

LEMMA SetFetchedAtInv ==
  ASSUME KeyInv, NEW t \in Threads, SetFetchedAt(t) PROVE KeyInv'
  <1> USE KeyAssumption DEF oktaVars
  <1>0. /\ KeyTypeOK /\ InTime /\ AnswerInv /\ RecordedInv /\ LookupInv /\ KeyPickup
        /\ ThrottleInv
    BY Parts
  <1>1. call' = [call EXCEPT ![t] = [at |-> "check", kid |-> call[t].kid,
                   force |-> call[t].force, start |-> call[t].start, keys |-> {}]]
    BY DEF SetFetchedAt, Goto
  <1>2. /\ call' \in [Threads -> Calls]
        /\ \A s \in Threads : call'[s].start <= now
        /\ call'[t].at = "check" /\ call'[t].start = call[t].start
        /\ \A s \in Threads : s # t => call'[s] = call[s]
    BY <1>0, <1>1, CallFacts, NextCall, CallStep DEF SetFetchedAt, Stages
  <1>3. /\ call[t].start \in Nat /\ call[t].start <= now /\ now \in Nat
        /\ lastDone \in 0 .. now /\ since \in [Kids -> 0 .. now]
        /\ now <= call[t].start + FetchTime
    BY <1>0, CallFacts DEF KeyTypeOK, InTime, InJwks, SetFetchedAt
  <1>4. /\ _jwks_fetched_at' = call[t].start
        /\ lastDone' \in {call[t].start, lastDone}
        /\ UNCHANGED <<now, published, since, _jwks>>
    BY DEF SetFetchedAt, FetchedAt
  <1>5. KeyTypeOK'
    BY <1>0, <1>2, <1>3, <1>4 DEF KeyTypeOK
  <1>6. ThrottleInv'
    BY <1>3, <1>4 DEF ThrottleInv
  <1>7. InTime' /\ AnswerInv' /\ KeyPickup'
    BY <1>0, <1>2, <1>4 DEF InTime, InJwks, AnswerInv, KeyPickup
  <1>8. \A k \in Kids : Missing(k) => call[t].start <= since[k] + FetchTime
    BY <1>0 DEF RecordedInv, SetFetchedAt
  <1>9. RecordedInv'
    BY <1>0, <1>2, <1>4, <1>8 DEF RecordedInv, Missing
  <1>10. LookupInv'
    <2> SUFFICES ASSUME NEW s \in Threads, NEW k \in Kids, Missing(k),
                        call'[s].at = "check", call'[s].force
                 PROVE  call'[s].start < since[k] + Interval + FetchTime
      BY <1>4 DEF LookupInv, Missing
    <2>1. CASE s = t
      BY <2>1, <1>2, <1>3, <1>8
    <2>2. CASE s # t
      BY <2>2, <1>0, <1>2 DEF LookupInv
    <2> QED
      BY <2>1, <2>2
  <1> QED
    BY <1>5, <1>6, <1>7, <1>9, <1>10 DEF KeyInv

LEMMA CheckInv ==
  ASSUME KeyInv, NEW t \in Threads, Check(t) PROVE KeyInv'
  <1> USE KeyAssumption
  <1>0. /\ KeyTypeOK /\ InTime /\ AnswerInv /\ RecordedInv /\ LookupInv /\ KeyPickup
        /\ ThrottleInv
    BY Parts
  <1>1. CASE Outcome(t, "verified")
    <2>1. [at |-> "verified", kid |-> NoKid, force |-> FALSE, start |-> 0, keys |-> {}]
            \in Calls
      BY DEF Calls, Stages
    <2>2. 0 <= now
      BY <1>0 DEF KeyTypeOK
    <2> QED
      BY <1>1, <2>1, <2>2, QuietInv DEF Check, Outcome
  <1>2. CASE EnterJwks(t, call[t].kid, TRUE)
    BY <1>0, <1>2, EnterInv, CallFacts DEF Check
  <1>3. CASE call[t].kid \notin _jwks /\ call[t].force /\ Goto(t, "unknown", {})
    <2> USE DEF oktaVars, cacheVars
    <2>1. call' = [call EXCEPT ![t] = [at |-> "unknown", kid |-> call[t].kid,
                     force |-> call[t].force, start |-> call[t].start, keys |-> {}]]
      BY <1>3 DEF Goto
    <2>2. /\ call' \in [Threads -> Calls]
          /\ \A s \in Threads : call'[s].start <= now
          /\ call'[t].at = "unknown" /\ call'[t].start = call[t].start
          /\ call'[t].kid = call[t].kid
          /\ \A s \in Threads : s # t => call'[s] = call[s]
      BY <1>0, <2>1, CallFacts, NextCall, CallStep DEF Check, Stages
    <2>3. KeyTypeOK' /\ ThrottleInv'
      BY <1>0, <2>2 DEF KeyTypeOK, ThrottleInv, Check
    <2>4. InTime' /\ AnswerInv' /\ RecordedInv' /\ LookupInv'
      BY <1>0, <2>2 DEF InTime, InJwks, AnswerInv, RecordedInv, LookupInv, Missing, Check
    <2>5. call[t].kid \in published =>
            call[t].start < since[call[t].kid] + Interval + FetchTime
      BY <1>0, <1>3 DEF LookupInv, Missing, Check, KeyTypeOK
    <2>6. KeyPickup'
      BY <1>0, <2>2, <2>5 DEF KeyPickup, Check
    <2> QED
      BY <2>3, <2>4, <2>6 DEF KeyInv
  <1> QED
    BY <1>1, <1>2, <1>3 DEF Check

LEMMA ReturnInv ==
  ASSUME KeyInv, NEW t \in Threads, Return(t) PROVE KeyInv'
  <1>1. NoCall \in Calls /\ NoCall.start = 0 /\ NoCall.at = "idle"
    BY DEF NoCall, Calls, Stages
  <1>2. 0 <= now
    BY DEF KeyInv, KeyTypeOK
  <1> QED
    BY <1>1, <1>2, QuietInv DEF Return

LEMMA KeyNextInv == ASSUME KeyInv, [KeyNext]_keyVars PROVE KeyInv'
  <1>1. CASE Okta
    BY <1>1, TickInv, PublishInv, RetireInv DEF Okta
  <1>2. ASSUME NEW t \in Threads, KeyStep(t) PROVE KeyInv'
    BY <1>2, JwksInv, FetchInv, SetJwksInv, SetFetchedAtInv, CheckInv DEF KeyStep
  <1>3. ASSUME NEW t \in Threads, Return(t) PROVE KeyInv'
    BY <1>3, ReturnInv
  <1>4. ASSUME NEW t \in Threads, NEW k \in Kids, verify_id_token(t, k) PROVE KeyInv'
    BY <1>4, EnterInv DEF verify_id_token
  <1>5. CASE UNCHANGED keyVars
    BY <1>5 DEF keyVars, oktaVars, cacheVars, KeyInv, KeyTypeOK, InTime, InJwks,
                AnswerInv, RecordedInv, LookupInv, KeyPickup, ThrottleInv, Missing
  <1> QED
    BY <1>1, <1>2, <1>3, <1>4, <1>5 DEF KeyNext

\* The key set and its calls have their types, and recorded times are past.
THEOREM KeyTypeCorrect == KeySpec => []KeyTypeOK
  <1>1. KeyInv => KeyTypeOK
    BY DEF KeyInv
  <1> QED
    BY <1>1, KeyInitInv, KeyNextInv, PTL DEF KeySpec

\* A key that Okta rotates in is picked up in an interval and a fetch, for any
\* number of threads that read, fetch and overwrite each other.
THEOREM KeyPickupHolds == KeySpec => []KeyPickup
  <1>1. KeyInv => KeyPickup
    BY DEF KeyInv
  <1> QED
    BY <1>1, KeyInitInv, KeyNextInv, PTL DEF KeySpec

\* A second lookup has a key set to look in: what Okta publishes is never empty.
LoadedInv ==
  /\ published # {}
  /\ \A t \in Threads :
       /\ call[t].at = "got" => call[t].keys # {}
       /\ call[t].at \in {"set", "check"} \/ call[t].force => _jwks # {}

LEMMA LoadedNext == ASSUME KeyTypeOK, LoadedInv, [KeyNext]_keyVars PROVE LoadedInv'
  <1> USE DEF LoadedInv, oktaVars, cacheVars
  <1>0. call \in [Threads -> Calls]
    BY DEF KeyTypeOK
  <1>1. CASE Okta
    BY <1>1 DEF Okta, Tick, Publish, Retire
  <1>2. ASSUME NEW s \in Threads, jwks(s) PROVE LoadedInv'
    BY <1>0, <1>2 DEF jwks, MustFetch, Goto
  <1>3. ASSUME NEW s \in Threads, FetchKeys(s) PROVE LoadedInv'
    BY <1>0, <1>3 DEF FetchKeys, Goto, Outcome
  <1>4. ASSUME NEW s \in Threads, SetJwks(s) PROVE LoadedInv'
    BY <1>0, <1>4 DEF SetJwks, Goto
  <1>5. ASSUME NEW s \in Threads, SetFetchedAt(s) PROVE LoadedInv'
    BY <1>0, <1>5 DEF SetFetchedAt, Goto
  <1>6. ASSUME NEW s \in Threads, Check(s) PROVE LoadedInv'
    BY <1>0, <1>6 DEF Check, Goto, Outcome, EnterJwks
  <1>7. ASSUME NEW s \in Threads, Return(s) PROVE LoadedInv'
    BY <1>0, <1>7 DEF Return, NoCall
  <1>8. ASSUME NEW s \in Threads, NEW k \in Kids, verify_id_token(s, k) PROVE LoadedInv'
    BY <1>0, <1>8 DEF verify_id_token, EnterJwks
  <1>9. CASE UNCHANGED keyVars
    BY <1>9 DEF keyVars
  <1> QED
    BY <1>1, <1>2, <1>3, <1>4, <1>5, <1>6, <1>7, <1>8, <1>9 DEF KeyNext, KeyStep

\* Forced refetches keep their distance from those that are complete.
THEOREM RefetchThrottledHolds == KeySpec => RefetchThrottled
  <1>1. ASSUME KeyInv, LoadedInv, [KeyNext]_keyVars, NEW t \in Threads,
               call[t].at = "jwks", call[t].force, call'[t].at = "fetch"
        PROVE  call[t].start + FetchTime >= lastDone + Interval
    <2>1. KeyTypeOK /\ ThrottleInv /\ call \in [Threads -> Calls]
      BY <1>1 DEF KeyInv, KeyTypeOK
    <2>2. PICK s \in Threads : jwks(s)
      <3>1. call' # call
        BY <1>1
      <3>2. \A s \in Threads :
              (\/ FetchKeys(s) \/ SetJwks(s) \/ SetFetchedAt(s) \/ Check(s) \/ Return(s)
               \/ \E k \in Kids : verify_id_token(s, k))
              => call'[t].at # "fetch"
        BY <1>1, <2>1 DEF FetchKeys, SetJwks, SetFetchedAt, Check, Return, verify_id_token,
                    Goto, Outcome, EnterJwks, NoCall
      <3>3. ~Okta
        BY <3>1 DEF Okta, Tick, Publish, Retire
      <3>4. ~UNCHANGED keyVars
        BY <3>1 DEF keyVars
      <3> QED
        BY <1>1, <3>2, <3>3, <3>4 DEF KeyNext, KeyStep
    <2>3. s = t
      BY <1>1, <2>1, <2>2 DEF jwks, Goto
    <2>4. MustFetch(t)
      BY <1>1, <2>1, <2>2, <2>3 DEF jwks, Goto
    <2>5. /\ call[t].start \in Nat /\ _jwks_fetched_at \in Nat /\ lastDone \in Nat
          /\ lastDone <= _jwks_fetched_at + FetchTime
      <3>1. now \in Nat /\ _jwks_fetched_at \in 0 .. now /\ lastDone \in 0 .. now
        BY <2>1 DEF KeyTypeOK
      <3> QED
        BY <3>1, <2>1, CallFacts DEF ThrottleInv
    <2>6. call[t].start >= _jwks_fetched_at + Interval
      BY <1>1, <2>4 DEF MustFetch, LoadedInv
    <2> QED
      BY <2>5, <2>6, KeyAssumption
  <1>2. KeyInit => LoadedInv
    BY DEF KeyInit, LoadedInv, NoCall
  <1>3. KeyInv => KeyTypeOK
    BY DEF KeyInv
  <1>4. KeyInv /\ LoadedInv /\ [KeyNext]_keyVars =>
          [\A t \in Threads :
             call[t].at = "jwks" /\ call[t].force /\ call'[t].at = "fetch" =>
               call[t].start + FetchTime >= lastDone + Interval]_keyVars
    BY <1>1
  <1> QED
    BY <1>2, <1>3, <1>4, KeyInitInv, KeyNextInv, LoadedNext, PTL
    DEF KeySpec, RefetchThrottled

-----------------------------------------------------------------------------
(* The fingerprint.  A result other than what the gateway presents was      *)
(* fetched before the change, and its expiry counts from before the fetch.  *)

FpInv ==
  /\ FpTypeOK
  /\ changed <= now /\ \A t \in Threads : page[t].start <= now
  /\ _cache.expires <= now + ttl(_cache.result)
  /\ _cache.result # gateway => _cache.expires <= changed + ttl(_cache.result)
  /\ \A t \in Threads :
       page[t].at = "got" /\ page[t].result # gateway => page[t].start <= changed
  /\ FingerprintSettles

LEMMA TtlNat == \A r \in Results : ttl(r) \in Nat \ {0}
  BY FingerprintAssumption DEF ttl

LEMMA FpInitInv == FpInit => FpInv
  BY TtlNat, FingerprintAssumption
  DEF FpInit, FpInv, FpTypeOK, FingerprintSettles, NoEntry, NoPage, Results

LEMMA FpChangeInv == ASSUME FpInv, FpTick \/ \E r \in Results : Change(r) PROVE FpInv'
  <1> USE TtlNat DEF FpInv
  <1>1. CASE FpTick
    <2>1. \A t \in Threads : page[t].start <= now'
      BY <1>1 DEF FpTick, FpTypeOK
    <2>2. _cache.expires <= now' + ttl(_cache.result)
      BY <1>1 DEF FpTick, FpTypeOK
    <2> QED
      BY <1>1, <2>1, <2>2 DEF FpTick, FpTypeOK, FingerprintSettles
  <1>2. ASSUME NEW r \in Results, Change(r) PROVE FpInv'
    <2>1. /\ \A t \in Threads : page[t].start \in Nat /\ page[t].start <= now
                                /\ ttl(page[t].result) \in Nat \ {0}
          /\ now \in Nat
      BY DEF FpTypeOK
    <2>2. FpTypeOK' /\ changed' <= now'
      BY <1>2 DEF Change, FpTypeOK
    <2>3. _cache.result # gateway' => _cache.expires <= now + ttl(_cache.result)
      BY <1>2 DEF Change, FpTypeOK
    <2>4. ASSUME NEW t \in Threads PROVE page[t].start < now + ttl(page[t].result)
      <3> DEFINE s == page[t].start
                 d == ttl(page[t].result)
      <3>1. s \in Nat /\ s <= now /\ d \in Nat \ {0} /\ now \in Nat
        BY <2>1
      <3> HIDE DEF s, d
      <3>2. s < now + d
        BY <3>1
      <3> QED
        BY <3>2 DEF s, d
    <2>5. /\ changed' = now /\ gateway' = r
          /\ now' = now /\ _cache' = _cache /\ page' = page
      BY <1>2 DEF Change
    <2>6. FingerprintSettles'
      <3>1. \A t \in Threads : page'[t].start < changed' + ttl(page'[t].result)
        BY <2>4, <2>5
      <3> QED
        BY <3>1 DEF FingerprintSettles, ttl
    <2>7. \A t \in Threads : page'[t].start <= changed' /\ page'[t].start <= now'
      BY <2>1, <2>5
    <2>8. /\ _cache'.expires <= now' + ttl(_cache'.result)
          /\ _cache'.result # gateway' => _cache'.expires <= changed' + ttl(_cache'.result)
      BY <2>3, <2>5
    <2> QED
      BY <2>2, <2>6, <2>7, <2>8 DEF FpInv
  <1> QED
    BY <1>1, <1>2

LEMMA FpStepInv ==
  ASSUME FpInv, NEW t \in Threads,
         \/ get_fingerprint(t) \/ Cached(t) \/ FetchLeaf(t) \/ SetCache(t) \/ Answer(t)
  PROVE  FpInv'
  <1> USE TtlNat DEF FpInv
  <1>0. /\ page \in [Threads -> [at : {"idle", "cached", "fetch", "got", "shown"},
                                 start : Nat, result : Results]]
        /\ Failure \in Results /\ now \in Nat /\ gateway \in Results /\ changed \in Nat
        /\ _cache \in [expires : Nat, result : Results]
    BY DEF FpTypeOK, Results
  <1>1. CASE get_fingerprint(t)
    BY <1>0, <1>1 DEF get_fingerprint, FpTypeOK, FingerprintSettles
  <1>2. CASE Cached(t)
    <2>1. CASE Valid(t)
      <3>1. page' = [page EXCEPT ![t] = [at |-> "shown", start |-> page[t].start,
                                         result |-> _cache.result]]
        BY <1>2, <2>1 DEF Cached, To
      <3>2. FpTypeOK'
        BY <1>0, <1>2, <3>1 DEF Cached, FpTypeOK
      <3>3. _cache.result # gateway => page[t].start < changed + ttl(_cache.result)
        <4>1. /\ page[t].start \in Nat /\ _cache.expires \in Nat
              /\ ttl(_cache.result) \in Nat
          BY <1>0
        <4> QED
          BY <1>0, <2>1, <4>1 DEF Valid
      <3> QED
        BY <1>0, <1>2, <3>1, <3>2, <3>3 DEF Cached, FingerprintSettles
    <2>2. CASE ~Valid(t)
      BY <1>0, <1>2, <2>2 DEF Cached, To, FpTypeOK, FingerprintSettles
    <2> QED
      BY <2>1, <2>2
  <1>3. CASE FetchLeaf(t)
    BY <1>0, <1>3 DEF FetchLeaf, To, FpTypeOK, FingerprintSettles
  <1>4. CASE SetCache(t)
    <2>1. /\ page[t].start \in Nat /\ page[t].result \in Results
          /\ ttl(page[t].result) \in Nat
      BY <1>0
    <2>2. page[t].result # gateway => page[t].start <= changed
      BY <1>4 DEF SetCache
    <2>3. /\ _cache' = [expires |-> page[t].start + ttl(page[t].result),
                        result |-> page[t].result]
          /\ page' = [page EXCEPT ![t] = [at |-> "shown", start |-> page[t].start,
                                          result |-> page[t].result]]
          /\ UNCHANGED <<now, gateway, changed>>
      BY <1>4 DEF SetCache, Entry, To
    <2>4. FpTypeOK'
      BY <1>0, <2>1, <2>3 DEF FpTypeOK
    <2>5. _cache'.result # gateway' => _cache'.expires <= changed' + ttl(_cache'.result)
      BY <1>0, <2>1, <2>2, <2>3
    <2>6. _cache'.expires <= now' + ttl(_cache'.result)
      BY <1>0, <2>1, <2>3
    <2> QED
      BY <1>0, <2>1, <2>2, <2>3, <2>4, <2>5, <2>6 DEF FingerprintSettles
  <1>5. CASE Answer(t)
    BY <1>0, <1>5 DEF Answer, NoPage, FpTypeOK, FingerprintSettles
  <1> QED
    BY <1>1, <1>2, <1>3, <1>4, <1>5

\* A changed gateway is shown a time to live later, for any number of threads
\* and however long their fetches take.
THEOREM FingerprintSettlesHolds == FpSpec => []FingerprintSettles
  <1>1. ASSUME FpInv, [FpNext]_fpVars PROVE FpInv'
    <2>1. CASE UNCHANGED fpVars
      BY <1>1, <2>1 DEF fpVars, FpInv, FpTypeOK, FingerprintSettles
    <2> QED
      BY <1>1, <2>1, FpChangeInv, FpStepInv DEF FpNext
  <1>2. FpInv => FingerprintSettles
    BY DEF FpInv
  <1> QED
    BY <1>1, <1>2, FpInitInv, PTL DEF FpSpec

=============================================================================
