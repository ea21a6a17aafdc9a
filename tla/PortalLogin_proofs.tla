------------------------- MODULE PortalLogin_proofs -------------------------
(***************************************************************************)
(* Signing in, for any number of tabs, logins, people and keys.            *)
(***************************************************************************)
EXTENDS PortalLogin, ProcessCaches_proofs

\* The key set of a process that serves logins is KeyCache's.
THEOREM LoginUsesKeyCache == Spec => KeySpec
  <1>1. Init => KeyInit
    BY DEF Init
  <1>2. [Next]_vars => [KeyNext]_keyVars
    <2> SUFFICES ASSUME [Next]_vars PROVE [KeyNext]_keyVars
      OBVIOUS
    <2>1. CASE Okta
      BY <2>1 DEF KeyNext
    <2>2. CASE CookieExpires
      BY <2>2 DEF CookieExpires
    <2>3. ASSUME NEW t \in Tabs,
                 \/ Authenticate(t) \/ Receive(t) \/ Lose(t) \/ login(t) \/ callback(t)
                 \/ discovery(t) \/ authorize_url(t)
          PROVE  UNCHANGED keyVars
      BY <2>3 DEF Authenticate, Receive, Lose, login, callback, discovery, authorize_url
    <2>4. ASSUME NEW t \in Tabs, KeyStep(t) PROVE [KeyNext]_keyVars
      BY <2>4 DEF KeyNext, Tabs
    <2>5. ASSUME NEW t \in Tabs, exchange_code(t) PROVE [KeyNext]_keyVars
      BY <2>5 DEF exchange_code, KeyNext, Tabs
    <2>6. ASSUME NEW t \in Tabs, verified(t) PROVE [KeyNext]_keyVars
      BY <2>6 DEF verified, KeyNext, Tabs
    <2> QED
      BY <2>1, <2>2, <2>3, <2>4, <2>5, <2>6 DEF Next, vars
  <1> QED
    BY <1>1, <1>2, PTL DEF Spec, KeySpec

\* So a process that serves logins picks a rotated key up, and throttles.
THEOREM LoginPicksKeyUp == Spec => []KeyPickup /\ RefetchThrottled
  BY LoginUsesKeyCache, KeyPickupHolds, RefetchThrottledHolds, PTL

-----------------------------------------------------------------------------
\* A code is offered with the transaction that the cookie held.
Offered(r) ==
  /\ r.at = "exchange_code" => r.txn = r.login
  /\ r.at \in {"exchange_code", "verify"} => r.login # None

OfferInv == \A t \in Tabs : Offered(req[t])

\* Who may still be sent to Okta for login l: the handler, its reply, the tab.
Asks(t, l) ==
  \/ req[t].at \in {"authorize_url", "reply"} /\ req[t].login = l
     /\ (req[t].at = "reply" => req[t].show = "okta")
  \/ tab[t].at = "okta" /\ tab[t].login = l

AskInv ==
  /\ \A t \in Tabs : tab[t].at = "okta" => req[t].at = "idle"
  /\ \A t \in Tabs : \A l \in Logins : Asks(t, l) => okta[l].at = "asked"
  /\ \A s, t \in Tabs : \A l \in Logins : Asks(s, l) /\ Asks(t, l) => s = t

\* Who may still open a session, or has opened it, for a login whose code is spent.
Opens(t, l) ==
  \/ req[t].at = "verify" /\ req[t].login = l
  \/ req[t].setSession # Keep /\ req[t].setSession.login = l

Genuine(x) ==
  /\ okta[x.login].at = "spent" /\ okta[x.login].user = x.user
  /\ x.user \in Members

OpenInv ==
  /\ \A t \in Tabs : req[t].setSession # Keep => req[t].at = "reply"
  /\ \A t \in Tabs : \A l \in Logins : Opens(t, l) => okta[l].at = "spent"
  /\ \A s, t \in Tabs : \A l \in Logins : Opens(s, l) /\ Opens(t, l) => s = t
  /\ \A t \in Tabs : req[t].setSession # Keep => Genuine(req[t].setSession)
  /\ portal_session # None => Genuine(portal_session)
  /\ \A t \in Tabs : portal_session # None => ~Opens(t, portal_session.login)

LoginInv == LoginTypeOK /\ OfferInv /\ AskInv /\ OpenInv

LEMMA LoginGoals == LoginInv => CodeMeetsItsVerifier /\ OneSessionPerLogin
  <1> SUFFICES ASSUME LoginInv PROVE CodeMeetsItsVerifier /\ OneSessionPerLogin
    OBVIOUS
  <1>1. CodeMeetsItsVerifier
    BY DEF LoginInv, OfferInv, Offered, CodeMeetsItsVerifier
  <1>2. OneSessionPerLogin
    BY DEF LoginInv, OpenInv, OneSessionPerLogin, Holders, Opens, Genuine
  <1> QED
    BY <1>1, <1>2

LEMMA LoginInit == Init => LoginInv
  <1> SUFFICES ASSUME Init PROVE LoginInv
    OBVIOUS
  <1> USE LoginAssumption
  <1>1. KeyTypeOK /\ \A t \in Tabs : call[t].at = "idle"
    BY KeyInitInv DEF Init, KeyInv, KeyInit, NoCall, Tabs
  <1>2. LoginTypeOK
    BY <1>1 DEF Init, LoginTypeOK, Page, Pages, Idle, Request, Requests, LoginRecords
  <1>3. OfferInv /\ AskInv /\ OpenInv
    BY DEF Init, OfferInv, Offered, AskInv, OpenInv, Asks, Opens, Page, Idle, Request
  <1> QED
    BY <1>2, <1>3 DEF LoginInv

-----------------------------------------------------------------------------
(* The steps.  Most replace one request by another that asks and opens no   *)
(* more than it did; Okta may void or grant a code in them.                 *)

AsksR(r, l) ==
  /\ r.at \in {"authorize_url", "reply"} /\ r.login = l
  /\ r.at = "reply" => r.show = "okta"

OpensR(r, l) ==
  \/ r.at = "verify" /\ r.login = l
  \/ r.setSession # Keep /\ r.setSession.login = l

CodeSpent(l) ==
  /\ l \in Logins /\ okta[l].at = "code"
  /\ okta' = [okta EXCEPT ![l] = [at |-> "spent", user |-> okta[l].user]]

LEMMA ReqChange ==
  ASSUME LoginInv, NEW t \in Tabs, NEW r \in Requests,
         req' = [req EXCEPT ![t] = r], UNCHANGED browserVars,
         okta' = okta \/ \E l \in Logins : CodeSpent(l),
         Offered(r),
         tab[t].at = "okta" => r.at = "idle",
         \A l \in Logins : AsksR(r, l) => Asks(t, l),
         \A l \in Logins : OpensR(r, l) =>
           okta'[l].at = "spent" /\ (Opens(t, l) \/ okta[l].at = "code"),
         r.setSession # Keep => r.at = "reply" /\ Genuine(r.setSession)
  PROVE  OfferInv' /\ AskInv' /\ OpenInv' /\ req' \in [Tabs -> Requests]
  <1> USE DEF LoginInv, browserVars
  <1>0. /\ req \in [Tabs -> Requests] /\ okta \in [Logins -> LoginRecords]
        /\ portal_session \in Sessions \cup {None}
    BY DEF LoginTypeOK
  <1>1. req'[t] = r /\ \A s \in Tabs : s # t => req'[s] = req[s]
    BY <1>0
  <1>2. /\ \A l \in Logins : okta[l].at = "asked" => okta'[l] = okta[l]
        /\ \A l \in Logins : okta[l].at = "spent" => okta'[l] = okta[l]
    BY <1>0 DEF CodeSpent
  <1>3. \A l \in Logins : Asks(t, l)' => Asks(t, l)
    BY <1>1 DEF Asks, AsksR
  <1>4. \A s \in Tabs : \A l \in Logins : s # t => (Asks(s, l)' <=> Asks(s, l))
    BY <1>1 DEF Asks
  <1>5. \A s \in Tabs : \A l \in Logins : s # t => (Opens(s, l)' <=> Opens(s, l))
    BY <1>1 DEF Opens
  <1>6. \A l \in Logins : Opens(t, l)' <=> OpensR(r, l)
    BY <1>1 DEF Opens, OpensR
  <1>7. OfferInv'
    BY <1>1 DEF OfferInv, Offered
  <1>8. AskInv'
    BY <1>1, <1>2, <1>3, <1>4 DEF AskInv
  <1>9. \A x \in Sessions : Genuine(x) =>
          /\ okta'[x.login].at = "spent" /\ okta'[x.login].user = x.user
          /\ x.user \in Members
    BY <1>2 DEF Genuine, Sessions
  <1>10. \A s \in Tabs : req[s].setSession \in Sessions \cup {Keep}
    BY <1>0 DEF Requests
  <1>11. OpenInv'
    <2>1. \A s \in Tabs : req'[s].setSession # Keep =>
            req'[s].at = "reply" /\ Genuine(req[s].setSession)'
      <3>1. CASE r.setSession # Keep
        BY <1>1, <1>9, <1>10, <3>1 DEF OpenInv, Requests, Genuine
      <3>2. CASE r.setSession = Keep
        BY <1>1, <1>9, <1>10, <3>2 DEF OpenInv, Genuine
      <3> QED
        BY <3>1, <3>2
    <2>2. \A s \in Tabs : \A l \in Logins : Opens(s, l)' => okta'[l].at = "spent"
      BY <1>2, <1>5, <1>6 DEF OpenInv
    <2>3. \A s, u \in Tabs : \A l \in Logins : Opens(s, l)' /\ Opens(u, l)' => s = u
      BY <1>5, <1>6 DEF OpenInv
    <2>4. portal_session' # None => Genuine(portal_session)'
      BY <1>0, <1>9 DEF OpenInv, Genuine
    <2>5. ASSUME NEW s \in Tabs, portal_session # None
          PROVE  ~Opens(s, portal_session.login)'
      <3>1. portal_session.login \in Logins /\ okta[portal_session.login].at = "spent"
        BY <1>0, <2>5 DEF Sessions, OpenInv, Genuine
      <3> QED
        BY <2>5, <3>1, <1>5, <1>6 DEF OpenInv
    <2>6. \A s \in Tabs : portal_session' # None => ~Opens(s, portal_session.login)'
      BY <2>5
    <2> QED
      BY <2>1, <2>2, <2>3, <2>4, <2>6 DEF OpenInv
  <1> QED
    BY <1>0, <1>7, <1>8, <1>11

\* A record that the handlers put in req is a request.
LEMMA Records ==
  ASSUME LoginInv
  PROVE  /\ Idle \in Requests
         /\ \A a \in {"authorize_url", "exchange_code", "verify"} :
              \A x, l \in Logins \cup {None} : Request(a, x, l) \in Requests
         /\ \A l \in Logins \cup {None}, st \in Logins \cup {None, Keep},
               ss \in Sessions \cup {Keep}, p \in Pages :
              [at |-> "reply", txn |-> None, login |-> l, setTxn |-> st,
               setSession |-> ss, show |-> p] \in Requests
         /\ \A t \in Tabs : /\ req[t] \in Requests
                            /\ req[t].login \in Logins \cup {None}
                            /\ req[t].txn \in Logins \cup {None}
                            /\ tab[t].login \in Logins \cup {None}
  BY LoginAssumption DEF LoginInv, LoginTypeOK, Requests, Request, Idle, Pages

\* The rest of the type invariant, for a step that changes one request.
LEMMA ReqTypes ==
  ASSUME LoginInv, KeyTypeOK', NEW t \in Tabs, NEW r \in Requests,
         req' = [req EXCEPT ![t] = r], UNCHANGED browserVars,
         okta' = okta \/ \E l \in Logins : CodeSpent(l),
         issuer' \in {"unknown", "adopted"} \cup Tabs,
         \A s \in Tabs : issuer' = s => s = t \/ issuer = s,
         issuer' = t => r.at \in {"authorize_url", "exchange_code"},
         \A s \in Tabs : s # t => call'[s] = call[s],
         r.at = "verify" <=> call'[t].at # "idle"
  PROVE  LoginTypeOK'
  <1>1. LoginTypeOK
    BY DEF LoginInv
  <1>2. okta' \in [Logins -> LoginRecords]
    BY <1>1 DEF LoginTypeOK, CodeSpent, LoginRecords
  <1>3. \A s \in Tabs : s # t => req'[s] = req[s]
    BY <1>1 DEF LoginTypeOK
  <1>4. req'[t] = r /\ req' \in [Tabs -> Requests]
    BY <1>1 DEF LoginTypeOK
  <1> QED
    BY <1>1, <1>2, <1>3, <1>4 DEF LoginTypeOK, browserVars

LEMMA LoseInv == ASSUME LoginInv, KeyTypeOK', NEW t \in Tabs, Lose(t) PROVE LoginInv'
  <1>1. /\ Idle.at = "idle" /\ Idle.setSession = Keep /\ Idle \in Requests /\ Offered(Idle)
        /\ \A l \in Logins : ~AsksR(Idle, l) /\ ~OpensR(Idle, l)
    BY Records DEF Idle, Request, AsksR, OpensR, Offered
  <1>2. LoginTypeOK'
    BY <1>1, ReqTypes DEF Lose, keyVars, LoginInv, LoginTypeOK
  <1>3. OfferInv' /\ AskInv' /\ OpenInv'
    BY <1>1, ReqChange DEF Lose
  <1> QED
    BY <1>2, <1>3 DEF LoginInv

\* A reply that sets no session and sends no one to Okta.
LEMMA PlainReplyInv ==
  ASSUME LoginInv, KeyTypeOK', NEW t \in Tabs, NEW l \in Logins \cup {None},
         NEW st \in Logins \cup {None, Keep}, NEW p \in Pages \ {"okta"},
         Reply(t, l, st, Keep, p), UNCHANGED browserVars, tab[t].at # "okta",
         okta' = okta \/ \E k \in Logins : CodeSpent(k),
         issuer' = issuer, issuer # t,
         \A s \in Tabs : s # t => call'[s] = call[s], call'[t].at = "idle"
  PROVE  LoginInv'
  <1> DEFINE r == [at |-> "reply", txn |-> None, login |-> l, setTxn |-> st,
                   setSession |-> Keep, show |-> p]
  <1>1. r \in Requests
    BY Records
  <1>2. /\ r.at = "reply" /\ r.setSession = Keep /\ Offered(r)
        /\ \A k \in Logins : ~AsksR(r, k) /\ ~OpensR(r, k)
    BY DEF AsksR, OpensR, Offered
  <1>3. req' = [req EXCEPT ![t] = r]
    BY DEF Reply
  <1>4. issuer \in {"unknown", "adopted"} \cup Tabs
    BY DEF LoginInv, LoginTypeOK
  <1> HIDE DEF r
  <1>5. LoginTypeOK'
    BY <1>1, <1>2, <1>3, <1>4, ReqTypes
  <1>6. OfferInv' /\ AskInv' /\ OpenInv'
    BY <1>1, <1>2, <1>3, ReqChange
  <1> QED
    BY <1>5, <1>6 DEF LoginInv

LEMMA TypeFacts ==
  ASSUME LoginInv
  PROVE  /\ req \in [Tabs -> Requests] /\ okta \in [Logins -> LoginRecords]
         /\ portal_session \in Sessions \cup {None}
         /\ portal_txn \in Logins \cup {None}
         /\ tab \in [Tabs -> [at : Pages, login : Logins \cup {None}]]
         /\ issuer \in {"unknown", "adopted"} \cup Tabs
         /\ {"unknown", "adopted"} \cap Tabs = {} /\ None # Keep
         /\ \A t \in Tabs :
              /\ issuer = t => req[t].at \in {"authorize_url", "exchange_code"}
              /\ req[t].at = "verify" <=> call[t].at # "idle"
              /\ tab[t].at = "okta" => req[t].at = "idle"
  BY LoginAssumption DEF LoginInv, LoginTypeOK, AskInv

LEMMA CallbackInv == ASSUME LoginInv, KeyTypeOK', NEW t \in Tabs, callback(t) PROVE LoginInv'
  <1>1. /\ req[t].at = "idle" /\ call[t].at = "idle" /\ issuer # t /\ tab[t].at # "okta"
        /\ call' = call /\ okta' = okta /\ issuer' = issuer /\ UNCHANGED browserVars
        /\ tab[t].login # None
    BY TypeFacts DEF callback, keyVars
  <1>2. CASE Reply(t, None, Keep, Keep, "refused")
    BY <1>1, <1>2, PlainReplyInv DEF Pages
  <1>3. CASE Reply(t, tab[t].login, Keep, Keep, "refused")
    BY <1>1, <1>3, PlainReplyInv, Records DEF Pages
  <1>4. CASE StateMatches(t) /\ Send(t, "exchange_code", tab[t].login)
    <2> DEFINE r == Request("exchange_code", portal_txn, tab[t].login)
    <2>1. r \in Requests /\ req' = [req EXCEPT ![t] = r]
      BY <1>4, TypeFacts, Records DEF Send
    <2>2. /\ r.at = "exchange_code" /\ r.setSession = Keep /\ Offered(r)
          /\ \A k \in Logins : ~AsksR(r, k) /\ ~OpensR(r, k)
      BY <1>1, <1>4 DEF AsksR, OpensR, Offered, Request, StateMatches
    <2> HIDE DEF r
    <2>3. LoginTypeOK'
      BY <1>1, <2>1, <2>2, TypeFacts, ReqTypes
    <2>4. OfferInv' /\ AskInv' /\ OpenInv'
      BY <1>1, <2>1, <2>2, ReqChange
    <2> QED
      BY <2>3, <2>4 DEF LoginInv
  <1> QED
    BY <1>2, <1>3, <1>4 DEF callback

LEMMA DiscoveryInv ==
  ASSUME LoginInv, KeyTypeOK', NEW t \in Tabs, discovery(t) PROVE LoginInv'
  <1>1. /\ req[t].at \in {"authorize_url", "exchange_code"} /\ call[t].at = "idle"
        /\ tab[t].at # "okta" /\ UNCHANGED <<call, okta, portal_txn, portal_session, tab>>
    BY TypeFacts DEF discovery, keyVars, browserVars
  <1>2. CASE Refuse(t) /\ issuer' = issuer /\ issuer = "unknown"
    BY <1>1, <1>2, PlainReplyInv, Records, TypeFacts DEF Refuse, Pages, browserVars
  <1>3. CASE req' = req /\ issuer' \in {t, "adopted"}
    <2>1. LoginTypeOK'
      BY <1>1, <1>3, TypeFacts DEF LoginTypeOK, LoginInv
    <2>2. OfferInv' /\ AskInv' /\ OpenInv'
      BY <1>1, <1>3 DEF LoginInv, OfferInv, Offered, AskInv, OpenInv, Asks, Opens, Genuine
    <2> QED
      BY <2>1, <2>2 DEF LoginInv
  <1> QED
    BY <1>2, <1>3 DEF discovery

LEMMA AuthorizeInv ==
  ASSUME LoginInv, KeyTypeOK', NEW t \in Tabs, authorize_url(t) PROVE LoginInv'
  <1> DEFINE r == [at |-> "reply", txn |-> None, login |-> req[t].login,
                   setTxn |-> req[t].login, setSession |-> Keep, show |-> "okta"]
  <1>1. /\ req[t].at = "authorize_url" /\ call[t].at = "idle" /\ issuer # t
        /\ tab[t].at # "okta" /\ UNCHANGED <<call, okta, issuer>> /\ UNCHANGED browserVars
    BY TypeFacts DEF authorize_url, keyVars, Discovered
  <1>2. r \in Requests /\ req' = [req EXCEPT ![t] = r]
    BY Records DEF authorize_url, Reply, Pages
  <1>3. /\ r.at = "reply" /\ r.setSession = Keep /\ Offered(r)
        /\ \A l \in Logins : AsksR(r, l) => Asks(t, l)
        /\ \A l \in Logins : ~OpensR(r, l)
    BY <1>1 DEF AsksR, OpensR, Asks, Offered
  <1> HIDE DEF r
  <1>4. LoginTypeOK'
    BY <1>1, <1>2, <1>3, TypeFacts, ReqTypes
  <1>5. OfferInv' /\ AskInv' /\ OpenInv'
    BY <1>1, <1>2, <1>3, ReqChange
  <1> QED
    BY <1>4, <1>5 DEF LoginInv

LEMMA ExchangeInv ==
  ASSUME LoginInv, KeyTypeOK', NEW t \in Tabs, exchange_code(t) PROVE LoginInv'
  <1> DEFINE l == req[t].login
  <1>1. /\ req[t].at = "exchange_code" /\ call[t].at = "idle" /\ issuer # t
        /\ tab[t].at # "okta" /\ issuer' = issuer /\ UNCHANGED browserVars
    BY TypeFacts DEF exchange_code, Discovered
  <1>2. l \in Logins
    BY <1>1, Records DEF LoginInv, OfferInv, Offered
  <1>3. okta' = okta \/ CodeSpent(l)
    BY <1>2 DEF exchange_code, CodeSpent
  <1>4. CASE Refuse(t) /\ UNCHANGED keyVars
    BY <1>1, <1>2, <1>3, <1>4, PlainReplyInv, Records DEF Refuse, Pages, keyVars
  <1>5. CASE /\ okta[l].at = "code" /\ req[t].txn = l
             /\ okta' = [okta EXCEPT ![l] = [at |-> "spent", user |-> okta[l].user]]
             /\ \E k \in Kids : k \in published /\ verify_id_token(t, k)
             /\ req' = [req EXCEPT ![t] = Request("verify", req[t].txn, l)]
    <2> DEFINE r == Request("verify", req[t].txn, l)
    <2>1. r \in Requests /\ req' = [req EXCEPT ![t] = r]
      BY <1>5, Records
    <2>2. /\ r.at = "verify" /\ r.setSession = Keep /\ Offered(r)
          /\ \A k \in Logins : ~AsksR(r, k) /\ (OpensR(r, k) => k = l)
      BY <1>2, LoginAssumption DEF AsksR, OpensR, Offered, Request
    <2>3. call'[t].at = "jwks" /\ \A s \in Tabs : s # t => call'[s] = call[s]
      BY <1>5 DEF verify_id_token, EnterJwks, LoginInv, LoginTypeOK, KeyTypeOK, Tabs
    <2>4. okta'[l].at = "spent"
      BY <1>2, <1>5, TypeFacts
    <2> HIDE DEF r
    <2>5. LoginTypeOK'
      BY <1>1, <1>2, <1>3, <2>1, <2>2, <2>3, TypeFacts, ReqTypes
    <2>6. OfferInv' /\ AskInv' /\ OpenInv'
      BY <1>1, <1>2, <1>3, <1>5, <2>1, <2>2, <2>4, ReqChange
    <2> QED
      BY <2>5, <2>6 DEF LoginInv
  <1> QED
    BY <1>4, <1>5 DEF exchange_code

LEMMA VerifiedInv ==
  ASSUME LoginInv, KeyTypeOK', NEW t \in Tabs, verified(t) PROVE LoginInv'
  <1> DEFINE l == req[t].login
             u == okta[l].user
             x == [login |-> l, user |-> u]
  <1>1. /\ req[t].at = "verify" /\ issuer # t /\ tab[t].at # "okta"
        /\ okta' = okta /\ issuer' = issuer /\ UNCHANGED browserVars
    BY TypeFacts DEF verified
  <1>2. call'[t].at = "idle" /\ \A s \in Tabs : s # t => call'[s] = call[s]
    BY DEF verified, Return, NoCall, LoginInv, LoginTypeOK, KeyTypeOK, Tabs
  <1>3. l \in Logins
    BY <1>1, Records DEF LoginInv, OfferInv, Offered
  <1>4. CASE Refuse(t)
    BY <1>1, <1>2, <1>4, PlainReplyInv, Records DEF Refuse, Pages
  <1>5. CASE Reply(t, l, None, Keep, "denied")
    BY <1>1, <1>2, <1>3, <1>5, PlainReplyInv DEF Pages
  <1>6. CASE u \in Members /\ Reply(t, l, None, x, "portal")
    <2> DEFINE r == [at |-> "reply", txn |-> None, login |-> l, setTxn |-> None,
                     setSession |-> x, show |-> "portal"]
    <2>1. x \in Sessions /\ x # Keep
      BY <1>3, <1>6, LoginAssumption DEF Sessions
    <2>2. r \in Requests /\ req' = [req EXCEPT ![t] = r]
      BY <1>3, <1>6, <2>1, Records DEF Reply, Pages
    <2>3. Opens(t, l) /\ okta[l].at = "spent"
      BY <1>1, <1>3 DEF Opens, LoginInv, OpenInv
    <2>4. Genuine(x)
      BY <1>6, <2>3 DEF Genuine
    <2>5. /\ r.at = "reply" /\ Offered(r) /\ r.setSession = x
          /\ \A k \in Logins : ~AsksR(r, k) /\ (OpensR(r, k) => k = l)
      BY <2>1 DEF AsksR, OpensR, Offered
    <2> HIDE DEF r, x
    <2>6. LoginTypeOK'
      BY <1>1, <1>2, <2>2, <2>5, TypeFacts, ReqTypes
    <2>7. OfferInv' /\ AskInv' /\ OpenInv'
      BY <1>1, <2>2, <2>3, <2>4, <2>5, ReqChange
    <2> QED
      BY <2>6, <2>7 DEF LoginInv
  <1> QED
    BY <1>4, <1>5, <1>6 DEF verified, is_authorized

\* A login begins with a state that nothing else holds.
LEMMA LoginStepInv ==
  ASSUME LoginInv, KeyTypeOK', NEW t \in Tabs, login(t) PROVE LoginInv'
  <1>1. PICK l \in Drawn : /\ okta' = [okta EXCEPT ![l] = [at |-> "asked", user |-> None]]
                           /\ Send(t, "authorize_url", l)
    BY DEF login
  <1> DEFINE r == Request("authorize_url", portal_txn, l)
  <1>2. /\ req[t].at = "idle" /\ tab[t].at # "okta" /\ call' = call /\ issuer' = issuer
        /\ UNCHANGED browserVars
    BY DEF login, keyVars
  <1>3. l \in Logins /\ okta[l].at = "unused"
    BY DEF Drawn
  <1>4. /\ r \in Requests /\ r.at = "authorize_url" /\ r.login = l /\ r.setSession = Keep
        /\ Offered(r)
    BY <1>3, Records, TypeFacts DEF Request, Offered
  <1>5. req' \in [Tabs -> Requests] /\ req'[t] = r /\ \A s \in Tabs : s # t => req'[s] = req[s]
    BY <1>1, <1>4, TypeFacts DEF Send
  <1>6. /\ okta' \in [Logins -> LoginRecords] /\ okta'[l].at = "asked"
        /\ \A k \in Logins : k # l => okta'[k] = okta[k]
    BY <1>1, <1>3, TypeFacts DEF LoginRecords
  <1> HIDE DEF r
  <1>7. LoginTypeOK'
    BY <1>2, <1>4, <1>5, <1>6, TypeFacts DEF LoginInv, LoginTypeOK, browserVars
  <1>8. OfferInv'
    BY <1>4, <1>5 DEF LoginInv, OfferInv
  <1>9. AskInv'
    <2>1. \A s \in Tabs : \A k \in Logins :
            Asks(s, k)' <=> (s = t /\ k = l) \/ (s # t /\ Asks(s, k))
      BY <1>2, <1>4, <1>5 DEF Asks, browserVars
    <2>2. \A s \in Tabs : ~Asks(s, l)
      BY <1>3 DEF LoginInv, AskInv
    <2>3. \A s \in Tabs : tab'[s].at = "okta" => req'[s].at = "idle"
      BY <1>2, <1>5, TypeFacts DEF browserVars
    <2>4. \A s \in Tabs : \A k \in Logins : Asks(s, k)' => okta'[k].at = "asked"
      BY <1>6, <2>1, <2>2 DEF LoginInv, AskInv
    <2>5. \A s, v \in Tabs : \A k \in Logins : Asks(s, k)' /\ Asks(v, k)' => s = v
      BY <2>1, <2>2 DEF LoginInv, AskInv
    <2> QED
      BY <2>3, <2>4, <2>5 DEF AskInv
  <1>10. OpenInv'
    <2>1. \A s \in Tabs : \A k \in Logins : Opens(s, k)' => s # t /\ k # l /\ Opens(s, k)
      <3>1. \A s \in Tabs : ~Opens(s, l)
        BY <1>3 DEF LoginInv, OpenInv
      <3> QED
        BY <3>1, <1>4, <1>5 DEF Opens
    <2>2. \A x \in Sessions : Genuine(x) =>
            /\ okta'[x.login].at = "spent" /\ okta'[x.login].user = x.user
            /\ x.user \in Members
      BY <1>3, <1>6 DEF Genuine, Sessions
    <2>3. \A s \in Tabs : req'[s].setSession # Keep =>
            s # t /\ req'[s].at = "reply" /\ Genuine(req'[s].setSession)
      BY <1>4, <1>5 DEF LoginInv, OpenInv
    <2>4. \A s \in Tabs : req'[s].setSession # Keep => Genuine(req[s].setSession)'
      BY <2>2, <2>3, <1>5 DEF Requests, Genuine
    <2>5. portal_session' # None => Genuine(portal_session)'
      BY <1>2, <2>2, TypeFacts DEF LoginInv, OpenInv, Genuine, browserVars
    <2>6. \A s \in Tabs : portal_session' # None => ~Opens(s, portal_session.login)'
      <3> SUFFICES ASSUME NEW s \in Tabs, portal_session # None
                   PROVE  ~Opens(s, portal_session.login)'
        BY <1>2 DEF browserVars
      <3>1. portal_session.login \in Logins /\ ~Opens(s, portal_session.login)
        BY TypeFacts DEF Sessions, LoginInv, OpenInv
      <3> QED
        BY <3>1, <2>1, <1>2 DEF browserVars
    <2>7. \A s \in Tabs : \A k \in Logins : Opens(s, k)' => okta'[k].at = "spent"
      BY <2>1, <1>6 DEF LoginInv, OpenInv
    <2>8. \A s, v \in Tabs : \A k \in Logins : Opens(s, k)' /\ Opens(v, k)' => s = v
      BY <2>1 DEF LoginInv, OpenInv
    <2> QED
      BY <2>3, <2>4, <2>5, <2>6, <2>7, <2>8 DEF OpenInv
  <1> QED
    BY <1>7, <1>8, <1>9, <1>10 DEF LoginInv

\* The browser applies a reply: what the request asked and opened, its tab does.
LEMMA ReceiveInv ==
  ASSUME LoginInv, KeyTypeOK', NEW t \in Tabs, Receive(t) PROVE LoginInv'
  <1> USE TypeFacts
  <1> DEFINE r == req[t]
  <1>1. /\ r \in Requests /\ r.at = "reply" /\ call' = call /\ okta' = okta /\ issuer' = issuer
    BY DEF Receive, keyVars
  <1>2. /\ r.setTxn \in Logins \cup {None, Keep} /\ r.setSession \in Sessions \cup {Keep}
        /\ r.show \in Pages /\ r.login \in Logins \cup {None}
    BY <1>1 DEF Requests
  <1>3. /\ portal_txn' \in Logins \cup {None} /\ portal_session' \in Sessions \cup {None}
    BY <1>2 DEF Receive, Applied
  <1>4. /\ req' \in [Tabs -> Requests] /\ req'[t] = Idle
        /\ \A s \in Tabs : s # t => req'[s] = req[s] /\ tab'[s] = tab[s]
        /\ tab' \in [Tabs -> [at : Pages, login : Logins \cup {None}]]
        /\ tab'[t] = [at |-> r.show, login |-> r.login]
    BY <1>2, Records DEF Receive, Page
  <1>5. Idle.at = "idle" /\ Idle.setSession = Keep
    BY DEF Idle, Request
  <1>6. LoginTypeOK'
    BY <1>1, <1>3, <1>4, <1>5 DEF LoginInv, LoginTypeOK
  <1>7. OfferInv'
    BY <1>4, <1>5 DEF LoginInv, OfferInv, Offered
  <1>8. AskInv'
    <2>1. \A s \in Tabs : \A l \in Logins : Asks(s, l)' => Asks(s, l)
      BY <1>1, <1>4, <1>5 DEF Asks
    <2>2. \A s \in Tabs : tab'[s].at = "okta" => req'[s].at = "idle"
      BY <1>4, <1>5
    <2> QED
      BY <1>1, <2>1, <2>2 DEF LoginInv, AskInv
  <1>9. OpenInv'
    <2>1. \A s \in Tabs : \A l \in Logins : Opens(s, l)' => s # t /\ Opens(s, l)
      BY <1>4, <1>5 DEF Opens
    <2>2. \A s \in Tabs : req'[s].setSession # Keep =>
            req'[s].at = "reply" /\ Genuine(req[s].setSession)'
      BY <1>1, <1>4, <1>5 DEF LoginInv, OpenInv, Genuine
    <2>3. \/ r.setSession = Keep /\ portal_session' = portal_session
          \/ r.setSession # Keep /\ portal_session' = r.setSession
      BY DEF Receive, Applied
    <2>4. portal_session' # None => Genuine(portal_session)'
      BY <1>1, <2>3 DEF LoginInv, OpenInv, Genuine
    <2>5. ASSUME NEW s \in Tabs, portal_session' # None
          PROVE  ~Opens(s, portal_session.login)'
      <3>1. CASE r.setSession = Keep
        <4>1. portal_session' = portal_session /\ portal_session.login \in Logins
          BY <2>3, <2>5, <3>1 DEF Sessions
        <4> QED
          BY <2>1, <2>5, <4>1 DEF LoginInv, OpenInv
      <3>2. CASE r.setSession # Keep
        <4>1. portal_session' = r.setSession /\ r.setSession.login \in Logins
          BY <1>2, <2>3, <3>2 DEF Sessions
        <4>2. Opens(t, r.setSession.login)
          BY <3>2 DEF Opens
        <4> QED
          BY <2>1, <4>1, <4>2 DEF LoginInv, OpenInv
      <3> QED
        BY <3>1, <3>2
    <2> QED
      BY <1>1, <2>1, <2>2, <2>4, <2>5 DEF LoginInv, OpenInv
  <1> QED
    BY <1>6, <1>7, <1>8, <1>9 DEF LoginInv

\* Okta's page asks for one login only, which nothing has opened yet.
LEMMA AuthenticateInv ==
  ASSUME LoginInv, KeyTypeOK', NEW t \in Tabs, Authenticate(t) PROVE LoginInv'
  <1> USE TypeFacts
  <1> DEFINE l == tab[t].login
  <1>1. /\ tab[t].at = "okta" /\ call' = call /\ issuer' = issuer /\ req' = req
        /\ portal_txn' = portal_txn /\ portal_session' = portal_session
    BY DEF Authenticate, keyVars
  <1>2. PICK a \in {"code", "error?"} : tab' = [tab EXCEPT ![t] = Page(a, l)]
    BY DEF Authenticate
  <1>3. /\ tab' \in [Tabs -> [at : Pages, login : Logins \cup {None}]]
        /\ tab'[t].at # "okta" /\ \A s \in Tabs : s # t => tab'[s] = tab[s]
    <2>1. a \in Pages /\ a # "okta" /\ l \in Logins \cup {None}
      BY Records DEF Pages
    <2> QED
      BY <1>2, <2>1 DEF Page
  <1>4. /\ okta' \in [Logins -> LoginRecords]
        /\ \A k \in Logins : okta'[k] # okta[k] => k = l /\ okta[k].at = "asked"
    <2>1. l \in Logins => okta[l].at = "asked"
      BY <1>1 DEF LoginInv, AskInv, Asks
    <2>2. CASE okta' = okta
      BY <2>2
    <2>3. ASSUME NEW u \in Users, okta' = [okta EXCEPT ![l] = [at |-> "code", user |-> u]]
          PROVE  /\ okta' \in [Logins -> LoginRecords]
                 /\ \A k \in Logins : okta'[k] # okta[k] => k = l
      BY <2>3 DEF LoginRecords
    <2> QED
      BY <2>1, <2>2, <2>3 DEF Authenticate
  <1>5. LoginTypeOK'
    BY <1>1, <1>3, <1>4 DEF LoginInv, LoginTypeOK
  <1>6. OfferInv'
    BY <1>1 DEF LoginInv, OfferInv, Offered
  <1>7. AskInv'
    <2>1. \A s \in Tabs : \A k \in Logins : Asks(s, k)' => s # t /\ Asks(s, k)
      BY <1>1, <1>3 DEF Asks
    <2>2. \A s \in Tabs : \A k \in Logins : Asks(s, k)' => okta'[k].at = "asked"
      <3> SUFFICES ASSUME NEW s \in Tabs, NEW k \in Logins, Asks(s, k)'
                   PROVE  okta'[k].at = "asked"
        OBVIOUS
      <3>1. s # t /\ Asks(s, k)
        BY <2>1
      <3>2. k # l
        BY <1>1, <3>1 DEF LoginInv, AskInv, Asks
      <3>3. okta[k].at = "asked"
        BY <3>1 DEF LoginInv, AskInv
      <3> QED
        BY <1>4, <3>2, <3>3
    <2>3. \A s \in Tabs : tab'[s].at = "okta" => req'[s].at = "idle"
      BY <1>1, <1>3
    <2>4. \A r, s \in Tabs : \A k \in Logins : Asks(r, k)' /\ Asks(s, k)' => r = s
      BY <2>1 DEF LoginInv, AskInv
    <2> QED
      BY <2>2, <2>3, <2>4 DEF AskInv
  <1>8. OpenInv'
    <2>1. \A s \in Tabs : \A k \in Logins : Opens(s, k)' <=> Opens(s, k)
      BY <1>1 DEF Opens
    <2>2. \A x \in Sessions : Genuine(x) =>
            /\ okta'[x.login].at = "spent" /\ okta'[x.login].user = x.user
            /\ x.user \in Members
      BY <1>4 DEF Genuine, Sessions
    <2>3. \A s \in Tabs : req[s].setSession # Keep => Genuine(req[s].setSession)'
      BY <1>1, <2>2 DEF LoginInv, OpenInv, Requests, Genuine
    <2>4. portal_session # None => Genuine(portal_session)'
      BY <1>1, <2>2 DEF LoginInv, OpenInv, Genuine
    <2>5. \A s \in Tabs : portal_session # None => ~Opens(s, portal_session.login)'
      BY <1>1, <2>1 DEF Sessions, LoginInv, OpenInv
    <2>6. \A s \in Tabs : \A k \in Logins : Opens(s, k)' => okta'[k].at = "spent"
      BY <1>4, <2>1 DEF LoginInv, OpenInv
    <2> QED
      BY <1>1, <2>1, <2>3, <2>4, <2>5, <2>6 DEF LoginInv, OpenInv
  <1> QED
    BY <1>5, <1>6, <1>7, <1>8 DEF LoginInv

LEMMA ExpireInv == ASSUME LoginInv, KeyTypeOK', CookieExpires PROVE LoginInv'
  <1>1. /\ call' = call /\ tab' = tab /\ req' = req /\ okta' = okta /\ issuer' = issuer
        /\ portal_txn' \in {portal_txn, None} /\ portal_session' \in {portal_session, None}
    BY DEF CookieExpires, keyVars
  <1>2. LoginTypeOK'
    BY <1>1 DEF LoginInv, LoginTypeOK
  <1>3. OfferInv' /\ AskInv'
    BY <1>1 DEF LoginInv, OfferInv, Offered, AskInv, Asks
  <1>4. OpenInv'
    BY <1>1 DEF LoginInv, OpenInv, Opens, Genuine
  <1> QED
    BY <1>2, <1>3, <1>4 DEF LoginInv

\* A step of the key set leaves the logins alone, and ends no call.
LEMMA KeyStepInv ==
  ASSUME LoginInv, KeyTypeOK', UNCHANGED loginVars,
         Okta \/ UNCHANGED keyVars \/ \E t \in Tabs : KeyStep(t)
  PROVE  LoginInv'
  <1>1. /\ tab' = tab /\ req' = req /\ okta' = okta /\ issuer' = issuer
        /\ portal_txn' = portal_txn /\ portal_session' = portal_session
    BY DEF loginVars, browserVars
  <1>2. \A s \in Tabs : call'[s].at # "idle" <=> call[s].at # "idle"
    <2>1. CASE Okta \/ UNCHANGED keyVars
      BY <2>1 DEF Okta, Tick, Publish, Retire, keyVars
    <2>2. ASSUME NEW t \in Tabs, KeyStep(t)
          PROVE  \A s \in Tabs : call'[s].at # "idle" <=> call[s].at # "idle"
      <3>1. call \in [Tabs -> Calls]
        BY DEF LoginInv, LoginTypeOK, KeyTypeOK, Tabs
      <3>2. call[t].at # "idle"
        BY <2>2 DEF KeyStep, jwks, FetchKeys, SetJwks, SetFetchedAt, Check
      <3>3. PICK c : c.at # "idle" /\ call' = [call EXCEPT ![t] = c]
        BY <2>2 DEF KeyStep, jwks, FetchKeys, SetJwks, SetFetchedAt, Check, Goto, Outcome,
                    EnterJwks
      <3> QED
        BY <3>1, <3>2, <3>3
    <2> QED
      BY <2>1, <2>2
  <1>3. LoginTypeOK'
    BY <1>1, <1>2 DEF LoginInv, LoginTypeOK
  <1>4. OfferInv' /\ AskInv' /\ OpenInv'
    BY <1>1 DEF LoginInv, OfferInv, Offered, AskInv, Asks, OpenInv, Opens, Genuine
  <1> QED
    BY <1>3, <1>4 DEF LoginInv

LEMMA LoginNext == ASSUME LoginInv, KeyTypeOK', [Next]_vars PROVE LoginInv'
  <1>1. CASE Okta /\ UNCHANGED loginVars
    BY <1>1, KeyStepInv
  <1>2. CASE CookieExpires
    BY <1>2, ExpireInv
  <1>3. ASSUME NEW t \in Tabs,
               \/ Authenticate(t) \/ Receive(t) \/ Lose(t) \/ login(t) \/ callback(t)
        PROVE  LoginInv'
    BY <1>3, AuthenticateInv, ReceiveInv, LoseInv, LoginStepInv, CallbackInv
  <1>4. ASSUME NEW t \in Tabs, discovery(t) \/ authorize_url(t) \/ exchange_code(t) \/ verified(t)
        PROVE  LoginInv'
    BY <1>4, DiscoveryInv, AuthorizeInv, ExchangeInv, VerifiedInv
  <1>5. ASSUME NEW t \in Tabs, KeyStep(t) /\ UNCHANGED loginVars PROVE LoginInv'
    BY <1>5, KeyStepInv
  <1>6. CASE UNCHANGED vars
    BY <1>6, KeyStepInv DEF vars
  <1> QED
    BY <1>1, <1>2, <1>3, <1>4, <1>5, <1>6 DEF Next

-----------------------------------------------------------------------------
LEMMA LoginInvariant == Spec => []LoginInv
  <1>1. Spec => []KeyTypeOK
    BY LoginUsesKeyCache, KeyTypeCorrect, PTL
  <1>2. Init => LoginInv
    BY LoginInit
  <1>3. LoginInv /\ KeyTypeOK' /\ [Next]_vars => LoginInv'
    BY LoginNext
  <1> QED
    BY <1>1, <1>2, <1>3, PTL DEF Spec

\* The variables have their types; issuer and key set are used after they are set.
THEOREM LoginTypeCorrect == Spec => []LoginTypeOK
  <1>1. LoginInv => LoginTypeOK
    BY DEF LoginInv
  <1> QED
    BY <1>1, LoginInvariant, PTL

\* A code reaches Okta with the verifier of its own login, however tabs interleave.
THEOREM CodeMeetsItsVerifierHolds == Spec => []CodeMeetsItsVerifier
  BY LoginGoals, LoginInvariant, PTL

\* One login opens one session at most, for the member who authenticated in it.
THEOREM OneSessionPerLoginHolds == Spec => []OneSessionPerLogin
  BY LoginGoals, LoginInvariant, PTL

=============================================================================
