-------------------------- MODULE FingerprintCache --------------------------
(***************************************************************************)
(* The certificate page's one cache entry (fingerprint.py:                 *)
(* get_fingerprint): a result and when it expires, assigned together, but  *)
(* by whichever thread is last.  The expiry counts from the time read      *)
(* before the fetch, and a failure is kept for a shorter time.             *)
(***************************************************************************)
EXTENDS PortalProcess

CONSTANTS
  Certs,         \* fingerprints of certificates of the gateway
  Failure,       \* {"ok": False, ...}
  SuccessTtl, FailureTtl

ASSUME FingerprintAssumption ==
  /\ Failure \notin Certs
  /\ SuccessTtl \in Nat \ {0} /\ FailureTtl \in Nat \ {0}

VARIABLES
  gateway,       \* the certificate it presents; Failure: none that verifies
  changed,       \* since when
  _cache,
  page           \* thread -> its call of get_fingerprint

fpVars == <<now, gateway, changed, _cache, page>>

Results == Certs \cup {Failure}
ttl(r) == IF r = Failure THEN FailureTtl ELSE SuccessTtl

\* An entry that expires at 0 stands for None: no time is before it.
NoEntry == [expires |-> 0, result |-> Failure]
NoPage == [at |-> "idle", start |-> 0, result |-> Failure]

FpInit ==
  /\ now = 0
  /\ gateway \in Results
  /\ changed = 0
  /\ _cache = NoEntry
  /\ page = [t \in Threads |-> NoPage]

-----------------------------------------------------------------------------
\* Fetches may take as long as they like.
FpTick ==
  /\ now < MaxTime
  /\ now' = now + 1
  /\ UNCHANGED <<gateway, changed, _cache, page>>

\* The gateway goes down, comes back, or gets another certificate.
Change(r) ==
  /\ r # gateway
  /\ gateway' = r
  /\ changed' = now
  /\ UNCHANGED <<now, _cache, page>>

To(t, at, r) ==
  page' = [page EXCEPT ![t] = [at |-> at, start |-> page[t].start, result |-> r]]

get_fingerprint(t) ==
  /\ page[t].at = "idle"
  /\ page' = [page EXCEPT ![t] = [at |-> "cached", start |-> now, result |-> Failure]]
  /\ UNCHANGED <<now, gateway, changed, _cache>>

\* Faulty: an expired entry is served until the next fetch.
Valid_Always(t) == _cache.expires > 0

Valid(t) == page[t].start < _cache.expires

Cached(t) ==
  /\ page[t].at = "cached"
  /\ IF Valid(t) THEN To(t, "shown", _cache.result) ELSE To(t, "fetch", Failure)
  /\ UNCHANGED <<now, gateway, changed, _cache>>

FetchLeaf(t) ==
  /\ page[t].at = "fetch"
  /\ To(t, "got", gateway)
  /\ UNCHANGED <<now, gateway, changed, _cache>>

\* Faulty: the entry is kept from the time the fetch is over.
Entry_FromNow(t) == [expires |-> now + ttl(page[t].result), result |-> page[t].result]

Entry(t) == [expires |-> page[t].start + ttl(page[t].result), result |-> page[t].result]

SetCache(t) ==
  /\ page[t].at = "got"
  /\ _cache' = Entry(t)
  /\ To(t, "shown", page[t].result)
  /\ UNCHANGED <<now, gateway, changed>>

Answer(t) ==
  /\ page[t].at = "shown"
  /\ page' = [page EXCEPT ![t] = NoPage]
  /\ UNCHANGED <<now, gateway, changed, _cache>>

FpNext ==
  \/ FpTick
  \/ \E r \in Results : Change(r)
  \/ \E t \in Threads :
       \/ get_fingerprint(t) \/ Cached(t) \/ FetchLeaf(t)
       \/ SetCache(t) \/ Answer(t)

FpSpec == FpInit /\ [][FpNext]_fpVars

-----------------------------------------------------------------------------
\* The variables have their types.
FpTypeOK ==
  /\ now \in Nat
  /\ gateway \in Results
  /\ changed \in Nat
  /\ _cache \in [expires : Nat, result : Results]
  /\ page \in [Threads -> [at : {"idle", "cached", "fetch", "got", "shown"},
                           start : Nat, result : Results]]

\* "recovery shows within half a minute": a page opened later than its result's
\* time to live after a change of the gateway shows the gateway as it is,
\* however slow a fetch was that had begun before and whoever wrote last.
FingerprintSettles ==
  \A t \in Threads :
    page[t].at = "shown" /\ page[t].result # gateway =>
      page[t].start < changed + ttl(page[t].result)

=============================================================================
