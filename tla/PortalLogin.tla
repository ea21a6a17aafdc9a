---------------------------- MODULE PortalLogin -----------------------------
(***************************************************************************)
(* Signing in to the portal (views/auth.py: login, callback) in several    *)
(* tabs of one browser, served by threads of one process that share the    *)
(* discovery document and the key set (KeyCache).  The portal keeps no     *)
(* login: state, nonce and verifier of the browser's latest one are in     *)
(* the one cookie portal_txn, signed.                                      *)
(***************************************************************************)
EXTENDS KeyCache

CONSTANTS
  Logins,        \* what login() draws: a state, a nonce and a verifier
  Users,
  Members,       \* users in an access group
  None,          \* no cookie
  Keep           \* a cookie that a reply leaves alone

Tabs == Threads

Sessions == [login : Logins, user : Users]

ASSUME LoginAssumption ==
  /\ Members \subseteq Users
  /\ None # Keep
  /\ {None, Keep} \cap (Logins \cup Sessions) = {}
  /\ {"unknown", "adopted"} \cap Tabs = {}

VARIABLES
  portal_txn,    \* the cookie, as the browser holds it
  portal_session,
  tab,           \* tab -> what it shows, and the login of its address
  req,           \* tab -> its request, from sending to the reply
  okta,          \* login -> what Okta knows of it, and who authenticated
  issuer         \* "unknown": no _discovery; a thread: it has assigned it,
                 \* but not yet config.issuer; "adopted": both

browserVars == <<portal_txn, portal_session, tab>>
loginVars == <<browserVars, req, okta, issuer>>
vars == <<keyVars, loginVars>>

\* "okta": Okta's page; "code", "error?": sent back by Okta, the callback not
\* answered yet; "refused": an answer with an error, which a reload asks again.
Pages == {"blank", "okta", "code", "error?", "refused", "denied", "portal"}
Page(p, l) == [at |-> p, login |-> l]

Requests ==
  [at : {"idle", "authorize_url", "exchange_code", "verify", "reply"},
   txn : Logins \cup {None}, login : Logins \cup {None},
   setTxn : Logins \cup {None, Keep}, setSession : Sessions \cup {Keep},
   show : Pages]
Request(at, x, l) == [at |-> at, txn |-> x, login |-> l,
                      setTxn |-> Keep, setSession |-> Keep, show |-> "blank"]
Idle == Request("idle", None, None)

Init ==
  /\ KeyInit
  /\ portal_txn = None
  /\ portal_session = None
  /\ tab = [t \in Tabs |-> Page("blank", None)]
  /\ req = [t \in Tabs |-> Idle]
  /\ okta = [l \in Logins |-> [at |-> "unused", user |-> None]]
  /\ issuer = "unknown"

-----------------------------------------------------------------------------
(* Okta and the browser (external).                                        *)

\* The user of the tab authenticates, or gives up and is sent back with an error.
Authenticate(t) ==
  LET l == tab[t].login IN
  /\ tab[t].at = "okta" /\ req[t].at = "idle"
  /\ \/ \E u \in Users :
          /\ okta' = [okta EXCEPT ![l] = [at |-> "code", user |-> u]]
          /\ tab' = [tab EXCEPT ![t] = Page("code", l)]
     \/ tab' = [tab EXCEPT ![t] = Page("error?", l)] /\ UNCHANGED okta
  /\ UNCHANGED <<keyVars, portal_txn, portal_session, req, issuer>>

\* A cookie ends with its max-age, which is what it is signed for.
CookieExpires ==
  /\ \/ portal_txn # None /\ portal_txn' = None /\ UNCHANGED portal_session
     \/ portal_session # None /\ portal_session' = None /\ UNCHANGED portal_txn
  /\ UNCHANGED <<keyVars, tab, req, okta, issuer>>

Applied(set, old) == IF set = Keep THEN old ELSE set

Receive(t) ==
  /\ req[t].at = "reply"
  /\ portal_txn' = Applied(req[t].setTxn, portal_txn)
  /\ portal_session' = Applied(req[t].setSession, portal_session)
  /\ tab' = [tab EXCEPT ![t] = Page(req[t].show, req[t].login)]
  /\ req' = [req EXCEPT ![t] = Idle]
  /\ UNCHANGED <<keyVars, okta, issuer>>

\* The tab keeps its address and may ask again.
Lose(t) ==
  /\ req[t].at = "reply"
  /\ req' = [req EXCEPT ![t] = Idle]
  /\ UNCHANGED <<keyVars, browserVars, okta, issuer>>

-----------------------------------------------------------------------------
(* The handlers.  A request carries the cookie as it is when it is sent.    *)

Send(t, at, l) == req' = [req EXCEPT ![t] = Request(at, portal_txn, l)]

Reply(t, l, setTxn, setSession, show) ==
  req' = [req EXCEPT ![t] = [at |-> "reply", txn |-> None, login |-> l,
            setTxn |-> setTxn, setSession |-> setSession, show |-> show]]

\* error_page, or the last-resort page of an exception: the cookies stay, and so
\* does the address, which is that of a callback or not.
Refuse(t) ==
  Reply(t, IF req[t].at = "authorize_url" THEN None ELSE req[t].login,
        Keep, Keep, "refused")

\* Faulty: a pending transaction is used again.
Drawn_Reused == {l \in Logins : okta[l].at = "unused" \/ l = portal_txn}

Drawn == {l \in Logins : okta[l].at = "unused"}

login(t) ==
  /\ req[t].at = "idle" /\ tab[t].at \notin {"okta", "code", "error?"}
  /\ \E l \in Drawn :
       /\ okta' = [okta EXCEPT ![l] = [at |-> "asked", user |-> None]]
       /\ Send(t, "authorize_url", l)
  /\ UNCHANGED <<keyVars, browserVars, issuer>>

\* Faulty: the state is not compared.
StateMatches_Any(t) == portal_txn # None

StateMatches(t) == portal_txn = tab[t].login

callback(t) ==
  /\ req[t].at = "idle" /\ tab[t].at \in {"code", "error?", "refused", "denied"}
  /\ tab[t].login # None
  /\ \/ tab[t].at = "error?" /\ Reply(t, None, Keep, Keep, "refused")
     \/ tab[t].at # "error?" /\ StateMatches(t) /\ Send(t, "exchange_code", tab[t].login)
     \/ tab[t].at # "error?" /\ ~StateMatches(t)
        /\ Reply(t, tab[t].login, Keep, Keep, "refused")
  /\ UNCHANGED <<keyVars, browserVars, okta, issuer>>

\* Threads that read the document together assign the same one.
discovery(t) ==
  /\ req[t].at \in {"authorize_url", "exchange_code"}
  /\ \/ issuer = "unknown" /\ issuer' = t /\ UNCHANGED req
     \/ issuer = "unknown" /\ Refuse(t) /\ UNCHANGED issuer
     \/ issuer = t /\ issuer' = "adopted" /\ UNCHANGED req
  /\ UNCHANGED <<keyVars, browserVars, okta>>

\* Faulty: the document is used before its issuer is adopted.
Discovered_Early(t) == issuer # "unknown"

Discovered(t) == issuer \notin {"unknown", t}

authorize_url(t) ==
  /\ req[t].at = "authorize_url" /\ Discovered(t)
  /\ Reply(t, req[t].login, req[t].login, Keep, "okta")
  /\ UNCHANGED <<keyVars, browserVars, okta, issuer>>

\* Okta grants a code once, to the verifier of its login.  The answer may be
\* lost, and a code offered with another verifier is void.
exchange_code(t) ==
  LET l == req[t].login IN
  /\ req[t].at = "exchange_code" /\ Discovered(t)
  /\ \/ /\ okta[l].at = "code" /\ req[t].txn = l
        /\ okta' = [okta EXCEPT ![l] = [at |-> "spent", user |-> okta[l].user]]
        /\ \E k \in Kids : k \in published /\ verify_id_token(t, k)
        /\ req' = [req EXCEPT ![t] = Request("verify", req[t].txn, l)]
     \/ /\ Refuse(t)
        /\ \/ okta[l].at = "code" /\ okta' = [okta EXCEPT ![l] = [at |-> "spent", user |-> okta[l].user]]
           \/ UNCHANGED okta
        /\ UNCHANGED keyVars
  /\ UNCHANGED <<browserVars, issuer>>

\* The groups are those of the token, and of userinfo when the token holds none.
is_authorized(u) == u \in Members

\* The verified claims are of the login of txn; the issuer they name may be
\* another than the configured one.  A member is denied when the token holds no
\* groups and userinfo fails.
verified(t) ==
  LET l == req[t].login
      u == okta[l].user IN
  /\ req[t].at = "verify" /\ Return(t)
  /\ \/ /\ call[t].at = "verified"
        /\ \/ is_authorized(u) /\ Reply(t, l, None, [login |-> l, user |-> u], "portal")
           \/ Reply(t, l, None, Keep, "denied")
     \/ /\ call[t].at # "verified" \/ issuer # "adopted"
        /\ Refuse(t)
  /\ UNCHANGED <<browserVars, okta, issuer>>

Next ==
  \/ Okta /\ UNCHANGED loginVars
  \/ CookieExpires
  \/ \E t \in Tabs :
       \/ Authenticate(t) \/ Receive(t) \/ Lose(t)
       \/ login(t) \/ callback(t)
       \/ discovery(t) \/ authorize_url(t) \/ exchange_code(t)
       \/ KeyStep(t) /\ UNCHANGED loginVars
       \/ verified(t)

Spec == Init /\ [][Next]_vars

-----------------------------------------------------------------------------
LoginRecords == [at : {"unused", "asked", "code", "spent"}, user : Users \cup {None}]

\* The variables have their types; a thread that has read the discovery
\* document adopts its issuer before it goes on, and verifies a token exactly
\* while its callback waits for that.
LoginTypeOK ==
  /\ KeyTypeOK
  /\ portal_txn \in Logins \cup {None}
  /\ portal_session \in Sessions \cup {None}
  /\ tab \in [Tabs -> [at : Pages, login : Logins \cup {None}]]
  /\ req \in [Tabs -> Requests]
  /\ okta \in [Logins -> LoginRecords]
  /\ issuer \in {"unknown", "adopted"} \cup Tabs
  /\ \A t \in Tabs :
       /\ issuer = t => req[t].at \in {"authorize_url", "exchange_code"}
       /\ req[t].at = "verify" <=> call[t].at # "idle"

\* A login whose transaction another tab has replaced is refused before its code
\* is offered to Okta with the other's verifier, which would make it void.
CodeMeetsItsVerifier ==
  \A t \in Tabs : req[t].at = "exchange_code" /\ okta[req[t].login].at = "code" =>
                    req[t].txn = req[t].login

\* Where a login's session is by now.
Holders(l) ==
  {t \in Tabs : req[t].setSession # Keep /\ req[t].setSession.login = l}

\* However many tabs sign in, reload and lose replies, a login opens one session
\* at most, for the member who authenticated in it.
OneSessionPerLogin ==
  /\ \A s, t \in Tabs : \A l \in Logins :
       /\ s \in Holders(l) /\ t \in Holders(l) => s = t
       /\ s \in Holders(l) => portal_session = None \/ portal_session.login # l
  /\ portal_session # None =>
       /\ portal_session.user \in Members
       /\ portal_session.user = okta[portal_session.login].user

=============================================================================
