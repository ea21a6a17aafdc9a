------------------------ MODULE AdminSession_proofs ------------------------
(***************************************************************************)
(* Safety of the admin session for any number of tabs, codes and sessions. *)
(***************************************************************************)
EXTENDS AdminSession, TLAPS

\* What a reply in flight may do to the browser, whenever it arrives.
GoodReply(q) ==
  /\ q.show = "blank" => q.setGw = Keep /\ q.new = None
  /\ q.setGw \notin {None, Keep} => Tried(q.setGw.tok) /\ q.setGw.fits
  /\ q.new # None => \/ q.setGw \notin {None, Keep} /\ q.setGw.tok = q.new
                     \/ q.show \in {"error", "flash"}
  /\ q.setGw = None => \/ q.setDev = None /\ q.show = "redirect"
                       \/ q.gw # None /\ session[q.gw.tok] = "over"

\* Only a session that is over is refreshed, and it does not come back.
Sound(q) ==
  /\ q.at = "reply" => GoodReply(q)
  /\ q.at \in {"refresh", "refresh users"} => session[q.gw.tok] = "over"
  /\ q.at \in {"list", "refresh", "refresh users"} => q.gw # None
  /\ q.at = "poll" => q.dev # None

RequestInv == \A t \in Tabs : Sound(req[t])

IInv == TypeOK /\ PairedBeforeUse /\ RequestInv

-----------------------------------------------------------------------------
Requests == [at : {"idle", "list", "refresh", "refresh users", "poll", "reply"},
             gw : GwCookies \cup {None}, dev : Codes \cup {None},
             new : Tokens \cup {None}, setGw : GwCookies \cup {None, Keep},
             setDev : Codes \cup {None, Keep}, show : Pages]

CodeStates == [Codes -> {"unissued", "pending", "approved", "dead"}]

\* The gateway goes forward only: sessions that are over stay over, and what was
\* tried stays tried.
Forward ==
  /\ code' \in CodeStates
  /\ session' \in [Tokens -> {"unissued", "live", "over"}]
  /\ \A k \in Tokens : session[k] = "over" => session'[k] = "over"
  /\ \A k \in Tokens : session[k] # "unissued" => session'[k] # "unissued"
  /\ paired' \in [Tokens -> {"none", "put", "logged"}]
  /\ \A k \in Tokens : paired'[k] # "none" => k \in Keyed /\ session'[k] # "unissued"
  /\ \A k \in Tokens : Tried(k) => Tried(k)'

\* The browser's own state is well formed after the step.
Browser ==
  /\ gw' \in GwCookies \cup {None}
  /\ gw' # None => Tried(gw.tok)'
  /\ gwdev' \in Codes \cup {None}
  /\ page' \in [Tabs -> Pages]

\* A sound request stays so, whatever the gateway and other requests do.
LEMMA SoundStays ==
  ASSUME TypeOK, Forward, NEW q \in Requests, Sound(q)
  PROVE  Sound(q)'
  <1>1. q.setGw \notin {None, Keep} /\ Tried(q.setGw.tok) /\ q.setGw.fits =>
          Tried(q.setGw.tok)'
    BY SessionAssumption DEF TypeOK, Forward, Tried, Requests, GwCookies
  <1>2. q.gw # None /\ session[q.gw.tok] = "over" => session'[q.gw.tok] = "over"
    BY SessionAssumption DEF Forward, Requests, GwCookies
  <1> QED
    BY <1>1, <1>2 DEF Sound, GoodReply

\* A step that changes no request preserves the invariant.
LEMMA StillInv ==
  ASSUME IInv, Forward, Browser, UNCHANGED req
  PROVE  IInv'
  <1>1. req \in [Tabs -> Requests]
    BY DEF IInv, TypeOK, Requests
  <1>2. ASSUME NEW t \in Tabs PROVE Sound(req[t])'
    <2>1. PICK q \in Requests : q = req[t]
      BY <1>1
    <2>2. Sound(q)'
      BY <2>1, SoundStays DEF IInv, RequestInv
    <2> QED
      BY <2>1, <2>2 DEF Sound, GoodReply
  <1>3. TypeOK'
    BY <1>1, <1>2 DEF IInv, TypeOK, Forward, Browser, CodeStates, Sound, Requests
  <1> QED
    BY <1>2, <1>3 DEF IInv, PairedBeforeUse, Browser, RequestInv

\* A step of one request that leaves it sound preserves the invariant.
LEMMA StepInv ==
  ASSUME IInv, Forward, Browser, NEW t \in Tabs, NEW q \in Requests,
         req' = [req EXCEPT ![t] = q], Sound(q)'
  PROVE  IInv'
  <1>1. req \in [Tabs -> Requests] /\ req' \in [Tabs -> Requests]
    BY DEF IInv, TypeOK, Requests
  <1>2. ASSUME NEW u \in Tabs PROVE Sound(req[u])'
    <2>1. CASE u = t
      <3>1. req'[u] = q
        BY <2>1, <1>1
      <3> QED
        BY <3>1 DEF Sound, GoodReply
    <2>2. CASE u # t
      <3>1. PICK r \in Requests : r = req[u]
        BY <1>1
      <3>2. req'[u] = r
        BY <3>1, <2>2, <1>1
      <3>3. Sound(r)'
        BY <3>1, SoundStays DEF IInv, RequestInv
      <3> QED
        BY <3>2, <3>3 DEF Sound, GoodReply
    <2> QED
      BY <2>1, <2>2
  <1>3. TypeOK'
    BY <1>1, <1>2 DEF IInv, TypeOK, Forward, Browser, CodeStates, Sound, Requests
  <1> QED
    BY <1>2, <1>3 DEF IInv, PairedBeforeUse, Browser, RequestInv

\* The browser is not touched by the handlers.
LEMMA BrowserStays ==
  ASSUME IInv, Forward, UNCHANGED browserVars
  PROVE  Browser
  <1>1. gw # None => gw.tok \in Tokens
    BY DEF IInv, TypeOK, GwCookies
  <1> QED
    BY <1>1 DEF IInv, TypeOK, PairedBeforeUse, Forward, Tried, Browser, browserVars

\* A reply that keeps the rules of GoodReply preserves the invariant.
LEMMA ReplyInv ==
  ASSUME IInv, Forward, Browser, NEW t \in Tabs, NEW new \in Tokens \cup {None},
         NEW set \in GwCookies \cup {None, Keep}, NEW dev \in Codes \cup {None, Keep},
         NEW show \in Pages, Reply(t, new, set, dev, show),
         show = "blank" => set = Keep /\ new = None,
         set \notin {None, Keep} => Tried(set.tok)' /\ set.fits,
         new # None => \/ set \notin {None, Keep} /\ set.tok = new
                       \/ show \in {"error", "flash"},
         set = None => \/ dev = None /\ show = "redirect"
                       \/ req[t].gw # None /\ session[req[t].gw.tok] = "over"
  PROVE  IInv'
  <1>1. req[t] \in Requests
    BY DEF IInv, TypeOK, Requests
  <1>2. PICK q \in Requests :
          q = [at |-> "reply", gw |-> IF set = None THEN req[t].gw ELSE None,
               dev |-> None, new |-> new,
               setGw |-> set, setDev |-> dev, show |-> show]
    BY <1>1 DEF Requests
  <1>3. req' = [req EXCEPT ![t] = q]
    BY <1>2 DEF Reply
  <1>4. set = None => \/ dev = None /\ show = "redirect"
                      \/ q.gw # None /\ session'[q.gw.tok] = "over"
    BY <1>1, <1>2, SessionAssumption DEF Forward, Requests, GwCookies
  <1>5. q.at = "reply" /\ q.setGw = set /\ q.setDev = dev /\ q.new = new /\ q.show = show
    BY <1>2
  <1>6. Sound(q)'
    BY <1>4, <1>5 DEF Sound, GoodReply
  <1> QED
    BY <1>3, <1>6, StepInv

-----------------------------------------------------------------------------
LEMMA InitInv == Init => IInv
  <1> SUFFICES ASSUME Init PROVE IInv
    OBVIOUS
  <1>1. Idle \in Requests /\ Idle.at = "idle"
    BY DEF Idle, Request, Requests, Pages
  <1>2. RequestInv /\ \A t \in Tabs : req[t].at = "idle"
    BY <1>1 DEF Init, RequestInv, Sound
  <1>3. /\ paired \in [Tokens -> {"none", "put", "logged"}]
        /\ \A k \in Tokens : paired[k] = "none"
    BY DEF Init
  <1>4. req \in [Tabs -> Requests]
    BY <1>1 DEF Init
  <1>5. TypeOK
    <2>1. /\ gw = None /\ gwdev = None
          /\ page \in [Tabs -> Pages]
          /\ code \in [Codes -> {"unissued", "pending", "approved", "dead"}]
          /\ session \in [Tokens -> {"unissued", "live", "over"}]
      BY DEF Init, Pages
    <2> QED
      BY <1>2, <1>3, <1>4, <2>1 DEF TypeOK, Requests
  <1> QED
    BY <1>2, <1>5 DEF Init, IInv, PairedBeforeUse

\* Codes and sessions change by themselves.
LEMMA GatewayStep ==
  ASSUME IInv, \/ \E c \in Codes : Approve(c) \/ CodeDies(c)
               \/ \E k \in Tokens : SessionEnds(k)
  PROVE  IInv'
  <1>1. UNCHANGED <<browserVars, req>>
    BY DEF Approve, CodeDies, SessionEnds
  <1>2. Forward
    BY DEF IInv, TypeOK, Forward, Tried, CodeStates, Approve, CodeDies, SessionEnds
  <1> QED
    BY <1>1, <1>2, BrowserStays, StillInv

LEMMA ExpiryStep ==
  ASSUME IInv, CookieExpires
  PROVE  IInv'
  <1>1. Forward /\ Browser /\ UNCHANGED req
    BY DEF IInv, TypeOK, PairedBeforeUse, Forward, Tried, CodeStates, Browser, CookieExpires,
           gatewayVars
  <1> QED
    BY <1>1, StillInv

\* A reply arrives, or does not.
LEMMA ArrivalStep ==
  ASSUME IInv, NEW t \in Tabs, Receive(t) \/ Lose(t)
  PROVE  IInv'
  <1>1. Forward
    BY DEF IInv, TypeOK, Forward, Tried, CodeStates, Receive, Lose, gatewayVars
  <1>2. req[t] \in Requests /\ req[t].at = "reply" /\ Sound(req[t])
    BY DEF IInv, TypeOK, Requests, RequestInv, Receive, Lose
  <1>3. /\ gw' \in GwCookies \cup {None}
        /\ gw' # None => Tried(gw.tok)'
    BY <1>2, SessionAssumption
    DEF IInv, TypeOK, PairedBeforeUse, Tried, Receive, Lose, Stored, Sound, GoodReply, Requests
  <1>4. gwdev' \in Codes \cup {None} /\ page' \in [Tabs -> Pages]
    BY <1>2 DEF IInv, TypeOK, Receive, Lose, Requests, Pages
  <1>5. Idle \in Requests /\ Sound(Idle)' /\ req' = [req EXCEPT ![t] = Idle]
    BY DEF Idle, Request, Requests, Sound, Pages, Receive, Lose
  <1>6. PICK q \in Requests : q = Idle
    BY <1>5
  <1> QED
    BY <1>1, <1>3, <1>4, <1>5, <1>6, StepInv DEF Browser

LEMMA AdminStep ==
  ASSUME IInv, NEW t \in Tabs, admin(t)
  PROVE  IInv'
  <1>1. Forward /\ Browser
    BY BrowserStays DEF IInv, TypeOK, Forward, Tried, CodeStates, admin, gatewayVars
  <1>2. ASSUME NEW at \in {"list", "poll"}, Call(t, at),
               at = "list" => gw # None, at = "poll" => gw = None /\ gwdev # None
        PROVE  IInv'
    <2>1. PICK q \in Requests :
            q = Request(at, gw, IF gw = None THEN gwdev ELSE None)
      BY DEF IInv, TypeOK, Requests, Request, Pages
    <2>2. req' = [req EXCEPT ![t] = q] /\ q.at = at /\ q.gw = gw
          /\ q.dev = IF gw = None THEN gwdev ELSE None
      BY <1>2, <2>1 DEF Call, Request
    <2>3. Sound(q)'
      BY <1>2, <2>2 DEF Sound
    <2> QED
      BY <1>1, <2>2, <2>3, StepInv
  <1>3. CASE Reply(t, None, Keep, Keep, "connect")
    BY <1>1, <1>3, ReplyInv, SessionAssumption DEF Pages
  <1> QED
    BY <1>2, <1>3 DEF admin

\* The session a handler is given was not issued before: whatever is remembered
\* of the others stays as it was.
LEMMA IssueForward ==
  ASSUME IInv, NEW k \in Tokens, Issue(k), code' \in CodeStates,
         record_principal_email(k) \/ paired' = paired
  PROVE  Forward /\ (record_principal_email(k) => Tried(k)')
  BY SessionAssumption DEF IInv, TypeOK, Forward, Issue, Tried, record_principal_email

\* A cookie that build_gw_cookie makes is kept by the browser.
LEMMA CookieFits ==
  ASSUME NEW k \in Tokens, NEW s \in Sizes, build_gw_cookie(k, s) # None
  PROVE  /\ build_gw_cookie(k, s) \in GwCookies
         /\ build_gw_cookie(k, s).tok = k
         /\ build_gw_cookie(k, s).fits
  BY DEF build_gw_cookie, Cookie, Sizes, GwCookies

LEMMA ListStep ==
  ASSUME IInv, NEW t \in Tabs, _render_connected(t)
  PROVE  IInv'
  <1>1. Forward /\ Browser
    BY BrowserStays DEF IInv, TypeOK, Forward, Tried, CodeStates, _render_connected, gatewayVars
  <1>2. req[t] \in Requests /\ req[t].at = "list" /\ req[t].gw # None
    BY DEF IInv, TypeOK, Requests, _render_connected
  <1>3. CASE Reply(t, None, Keep, Keep, "caps") \/ Reply(t, None, Keep, Keep, "error")
    BY <1>1, <1>3, ReplyInv, SessionAssumption DEF Pages
  <1>5. CASE session[req[t].gw.tok] = "over" /\ req' = [req EXCEPT ![t].at = "refresh"]
    <2>1. PICK q \in Requests : q = [req[t] EXCEPT !.at = "refresh"]
      BY <1>2 DEF Requests
    <2>2. req' = [req EXCEPT ![t] = q] /\ q.at = "refresh" /\ q.gw = req[t].gw
      BY <1>2, <1>5, <2>1 DEF Requests, IInv, TypeOK
    <2>3. session'[q.gw.tok] = "over"
      BY <1>1, <1>2, <1>5, <2>2, SessionAssumption DEF Forward, Requests, GwCookies
    <2>4. Sound(q)'
      BY <1>2, <2>2, <2>3 DEF Sound
    <2> QED
      BY <1>1, <2>2, <2>4, StepInv
  <1> QED
    BY <1>3, <1>5 DEF _render_connected

LEMMA UsersStep ==
  ASSUME IInv, NEW t \in Tabs, admin_users(t)
  PROVE  IInv'
  <1>1. Forward /\ Browser
    BY BrowserStays DEF IInv, TypeOK, Forward, Tried, CodeStates, admin_users, gatewayVars
  <1>2. CASE \E show \in {"blank", "error", "flash"} : Reply(t, None, Keep, Keep, show)
    BY <1>1, <1>2, ReplyInv, SessionAssumption DEF Pages
  <1>3. CASE gw # None /\ session[gw.tok] = "over" /\ Call(t, "refresh users")
    <2>1. PICK q \in Requests : q = Request("refresh users", gw, None)
      BY DEF IInv, TypeOK, Requests, Request, Pages
    <2>2. req' = [req EXCEPT ![t] = q] /\ q.at = "refresh users" /\ q.gw = gw
      BY <1>3, <2>1 DEF Call, Request
    <2>3. session'[gw.tok] = "over"
      BY <1>1, <1>3, SessionAssumption DEF Forward, IInv, TypeOK, GwCookies
    <2>4. Sound(q)'
      BY <1>3, <2>2, <2>3 DEF Sound
    <2> QED
      BY <1>1, <2>2, <2>4, StepInv
  <1> QED
    BY <1>2, <1>3 DEF admin_users, effective_usage

LEMMA AuditStep ==
  ASSUME IInv, NEW t \in Tabs, admin_audit(t)
  PROVE  IInv'
  <1>1. Forward /\ Browser
    BY BrowserStays DEF IInv, TypeOK, Forward, Tried, CodeStates, admin_audit, gatewayVars
  <1>2. \E show \in {"redirect", "blank", "flash"} : Reply(t, None, Keep, Keep, show)
    BY DEF admin_audit
  <1> QED
    BY <1>1, <1>2, ReplyInv, SessionAssumption DEF Pages

LEMMA RefreshStep ==
  ASSUME IInv, NEW t \in Tabs, refresh(t)
  PROVE  IInv'
  <1>1. req[t] \in Requests /\ req[t].gw # None /\ session[req[t].gw.tok] = "over"
    BY DEF IInv, TypeOK, Requests, RequestInv, Sound, refresh
  <1>2. /\ code' \in CodeStates /\ UNCHANGED browserVars
        /\ Expired(t) \in {"error", "flash"}
    BY DEF IInv, TypeOK, CodeStates, refresh, Expired
  <1>3. ASSUME NEW k \in Tokens, NEW s \in Sizes, Issue(k),
               build_gw_cookie(k, s) # None, Refreshed(k),
               Reply(t, k, build_gw_cookie(k, s), Keep, Again(t))
        PROVE  IInv'
    <2>1. Forward /\ Tried(k)'
      BY <1>2, <1>3, IssueForward DEF Refreshed
    <2>2. PICK c \in GwCookies : c = build_gw_cookie(k, s)
      BY <1>3, <2>1, CookieFits
    <2>3. c.tok = k /\ c.fits
      BY <1>3, <2>1, <2>2, CookieFits
    <2>4. Reply(t, k, c, Keep, Again(t)) /\ Again(t) \in {"redirect", "again"}
      BY <1>3, <2>2 DEF Again
    <2> QED
      BY <1>2, <2>1, <2>3, <2>4, BrowserStays, ReplyInv, SessionAssumption DEF Pages
  <1>4. ASSUME NEW k \in Tokens, NEW s \in Sizes, Issue(k), UNCHANGED paired,
               Reply(t, k, None, Keep, Expired(t))
        PROVE  IInv'
    <2>1. Forward /\ Browser
      BY <1>2, <1>4, IssueForward, BrowserStays
    <2> QED
      BY <1>1, <1>2, <1>4, <2>1, ReplyInv, SessionAssumption DEF Pages
  <1>5. CASE Reply(t, None, None, Keep, Expired(t)) /\ UNCHANGED <<session, paired>>
    <2>1. Forward /\ Browser
      BY <1>2, <1>5, BrowserStays DEF IInv, TypeOK, Forward, Tried
    <2> QED
      BY <1>1, <1>2, <1>5, <2>1, ReplyInv, SessionAssumption DEF Pages
  <1> QED
    BY <1>3, <1>4, <1>5 DEF refresh

\* _connect_page(..., clear_gwdev=True) never takes the connection.
LEMMA PollErrorStep ==
  ASSUME IInv, Forward, Browser, NEW t \in Tabs, PollError(t)
  PROVE  IInv'
  BY ReplyInv, SessionAssumption DEF PollError, Pages

LEMMA GrantStep ==
  ASSUME IInv, NEW t \in Tabs, NEW k \in Tokens, NEW s \in Sizes,
         Issue(k), Granted(t, k, s), code' \in CodeStates, UNCHANGED browserVars
  PROVE  IInv'
  <1>1. Forward /\ Browser /\ (record_principal_email(k) => Tried(k)')
    <2>1. record_principal_email(k) \/ paired' = paired
      BY DEF Granted
    <2> QED
      BY <2>1, IssueForward, BrowserStays
  <1>2. CASE build_gw_cookie(k, s) = None
    <2>1. Reply(t, k, Keep, None, "error")
      BY <1>2 DEF Granted
    <2> QED
      BY <1>1, <2>1, ReplyInv, SessionAssumption DEF Pages
  <1>3. CASE build_gw_cookie(k, s) # None
    <2>1. PICK c \in GwCookies : c = build_gw_cookie(k, s)
      BY <1>1, <1>3, CookieFits
    <2>2. c.tok = k /\ c.fits
      BY <1>1, <1>3, <2>1, CookieFits
    <2>3. Reply(t, k, c, None, "redirect") /\ Tried(k)'
      BY <1>1, <1>3, <2>1 DEF Granted
    <2> QED
      BY <1>1, <2>2, <2>3, ReplyInv, SessionAssumption DEF Pages
  <1> QED
    BY <1>2, <1>3

LEMMA PollStep ==
  ASSUME IInv, NEW t \in Tabs, _poll_device_flow(t)
  PROVE  IInv'
  <1>1. PICK c \in Codes : c = req[t].dev
    BY DEF IInv, TypeOK, _poll_device_flow
  <1>2. code' \in CodeStates /\ UNCHANGED browserVars
    <2>1. code' = code \/ code' = [code EXCEPT ![c] = "dead"]
      BY <1>1, Zenon DEF _poll_device_flow
    <2>2. UNCHANGED browserVars
      BY DEF _poll_device_flow
    <2> QED
      BY <2>1, <2>2 DEF IInv, TypeOK, CodeStates
  <1>3. ASSUME UNCHANGED <<session, paired>>
        PROVE  Forward /\ Browser
    BY <1>2, <1>3, BrowserStays DEF IInv, TypeOK, Forward, Tried
  <1>4. CASE /\ Reply(t, None, Keep, Keep, "pending") \/ Reply(t, None, Keep, c, "pending")
             /\ UNCHANGED <<session, paired>>
    BY <1>3, <1>4, ReplyInv, SessionAssumption DEF Pages
  <1>5. ASSUME NEW k \in Tokens, NEW s \in Sizes, Issue(k),
               Granted(t, k, s) \/ (PollError(t) /\ UNCHANGED paired)
        PROVE  IInv'
    <2>1. CASE Granted(t, k, s)
      BY <1>2, <1>5, <2>1, GrantStep
    <2>2. CASE PollError(t) /\ UNCHANGED paired
      BY <1>2, <1>5, <2>2, IssueForward, BrowserStays, PollErrorStep
    <2> QED
      BY <1>5, <2>1, <2>2
  <1>6. CASE PollError(t) /\ UNCHANGED <<session, paired>>
    BY <1>3, <1>6, PollErrorStep
  <1>7. \/ /\ Reply(t, None, Keep, Keep, "pending") \/ Reply(t, None, Keep, c, "pending")
           /\ UNCHANGED <<session, paired>>
        \/ \E k \in Tokens, s \in Sizes :
             Issue(k) /\ (Granted(t, k, s) \/ (PollError(t) /\ UNCHANGED paired))
        \/ PollError(t) /\ UNCHANGED <<session, paired>>
    BY <1>1, Zenon DEF _poll_device_flow
  <1> QED
    BY <1>4, <1>5, <1>6, <1>7

LEMMA ConnectStep ==
  ASSUME IInv, NEW t \in Tabs, admin_connect(t)
  PROVE  IInv'
  <1>1. Forward /\ Browser
    BY BrowserStays DEF IInv, TypeOK, Forward, Tried, CodeStates, admin_connect
  <1>2. CASE Reply(t, None, Keep, Keep, "error")
    BY <1>1, <1>2, ReplyInv, SessionAssumption DEF Pages
  <1>3. ASSUME NEW c \in Codes, Reply(t, None, Keep, c, "redirect")
        PROVE  IInv'
    BY <1>1, <1>3, ReplyInv, SessionAssumption DEF Pages
  <1> QED
    BY <1>2, <1>3 DEF admin_connect

LEMMA DisconnectStep ==
  ASSUME IInv, NEW t \in Tabs, admin_disconnect(t)
  PROVE  IInv'
  <1>1. Forward /\ Browser
    BY BrowserStays DEF IInv, TypeOK, Forward, Tried, CodeStates, admin_disconnect, gatewayVars
  <1> QED
    BY <1>1, ReplyInv, SessionAssumption DEF Pages, admin_disconnect

LEMMA NextInv == IInv /\ [Next]_vars => IInv'
  <1> SUFFICES ASSUME IInv, [Next]_vars PROVE IInv'
    OBVIOUS
  <1>1. CASE UNCHANGED vars
    <2>1. Forward /\ Browser /\ UNCHANGED req
      BY <1>1
      DEF vars, browserVars, gatewayVars, IInv, TypeOK, PairedBeforeUse, Forward,
          Tried, CodeStates, Browser
    <2> QED
      BY <2>1, StillInv
  <1>2. CASE Next
    BY <1>2, GatewayStep, ExpiryStep, ArrivalStep, AdminStep, UsersStep, AuditStep,
       ListStep, RefreshStep,
       PollStep, ConnectStep, DisconnectStep
    DEF Next, Handler
  <1> QED
    BY <1>1, <1>2

LEMMA Invariant == Spec => []IInv
  <1> QED
    BY InitInv, NextInv, PTL DEF Spec

-----------------------------------------------------------------------------
\* Every variable keeps its type, and a handler calls the gateway only with what
\* its request carried.
THEOREM TypeCorrect == Spec => []TypeOK
  <1>1. IInv => TypeOK
    BY DEF IInv
  <1> QED
    BY <1>1, Invariant, PTL

\* Every session that a browser uses, granted or refreshed, whichever tab asked
\* for it, had its principal put to the identity map first.
THEOREM AlwaysPaired == Spec => []PairedBeforeUse
  <1>1. IInv => PairedBeforeUse
    BY DEF IInv
  <1> QED
    BY <1>1, Invariant, PTL

\* Handlers do not end a request, their replies do.
LEMMA StaysBusy ==
  ASSUME IInv, NEW t \in Tabs, NEW u \in Tabs, req[t].at = "reply",
         \/ admin(u) \/ admin_users(u) \/ admin_audit(u)
         \/ admin_connect(u) \/ admin_disconnect(u) \/ Handler(u)
  PROVE  req'[t].at # "idle"
  <1>1. req \in [Tabs -> Requests]
    BY DEF IInv, TypeOK, Requests
  <1>4. CASE admin(u)
    BY <1>1, <1>4 DEF admin, Call, Reply, Request
  <1>2. CASE admin_users(u)
    BY <1>1, <1>2 DEF admin_users, effective_usage, Call, Reply, Request
  <1>3. CASE admin_audit(u)
    BY <1>1, <1>3 DEF admin_audit, Reply
  <1>5. CASE admin_connect(u)
    BY <1>1, <1>5 DEF admin_connect, Reply
  <1>6. CASE admin_disconnect(u)
    BY <1>1, <1>6 DEF admin_disconnect, Reply
  <1>7. CASE _render_connected(u)
    BY <1>1, <1>7 DEF _render_connected, Reply
  <1>8. CASE refresh(u)
    BY <1>1, <1>8 DEF refresh, Reply
  <1>9. CASE _poll_device_flow(u)
    BY <1>1, <1>9 DEF _poll_device_flow, PollError, Granted, Reply
  <1> QED
    BY <1>2, <1>3, <1>4, <1>5, <1>6, <1>7, <1>8, <1>9 DEF Handler

\* Only Receive brings a reply to the browser, and the reply is a good one.
LEMMA Arrival ==
  ASSUME IInv, [Next]_vars, NEW t \in Tabs, Arrives(t)
  PROVE  /\ GoodReply(req[t]) /\ req[t] \in Requests
         /\ gw' = Stored(req[t].setGw, gw)
  <1>1. req \in [Tabs -> Requests] /\ GoodReply(req[t])
    BY DEF IInv, TypeOK, RequestInv, Sound, Requests, Arrives
  <1>2. req'[t] # req[t]
    BY DEF Arrives
  <1>3. \E u \in Tabs : Receive(u) \/ Lose(u)
    <2>1. ~(UNCHANGED req)
      BY <1>2
    <2> QED
      BY <2>1, StaysBusy
      DEF Next, vars, Approve, CodeDies, SessionEnds, CookieExpires, Arrives
  <1>4. Receive(t) \/ Lose(t)
    BY <1>1, <1>2, <1>3 DEF Receive, Lose
  <1>5. CASE Lose(t)
    <2>1. page \in [Tabs -> Pages]
      BY DEF IInv, TypeOK
    <2>2. req[t].setGw = Keep
      BY <1>1, <1>5, <2>1 DEF Lose, Arrives, GoodReply
    <2>3. Stored(Keep, gw) = gw
      BY SessionAssumption DEF Stored
    <2>4. gw' = gw
      BY <1>5 DEF Lose
    <2>5. gw' = Stored(req[t].setGw, gw)
      BY <2>2, <2>3, <2>4, Zenon
    <2> QED
      BY <1>1, <2>5
  <1> QED
    BY <1>1, <1>4, <1>5 DEF Receive

\* A browser's connection is lost only to a disconnect or to the answer to a
\* request whose own session was over, however replies of tabs overtake.
THEOREM ConnectionIsKept == Spec => ConnectionKept
  <1>1. ASSUME IInv, [Next]_vars, NEW t \in Tabs, Arrives(t), gw # None, gw' = None
        PROVE  \/ req[t].setDev = None /\ req[t].show = "redirect"
               \/ req[t].gw # None /\ session[req[t].gw.tok] = "over"
    <2>1. GoodReply(req[t]) /\ req[t] \in Requests /\ gw' = Stored(req[t].setGw, gw)
      BY <1>1, Arrival
    <2>2. req[t].setGw = None
      BY <1>1, <2>1, SessionAssumption DEF Stored, Requests
    <2> QED
      BY <2>1, <2>2 DEF GoodReply
  <1>2. IInv /\ [Next]_vars =>
          [\A t \in Tabs :
             Arrives(t) /\ gw # None /\ gw' = None =>
               \/ req[t].setDev = None /\ req[t].show = "redirect"
               \/ req[t].gw # None /\ session[req[t].gw.tok] = "over"]_vars
    BY <1>1
  <1> QED
    BY <1>2, Invariant, PTL DEF Spec, ConnectionKept

\* A session that the gateway issued to a request connects the browser when the
\* reply arrives, or the user sees an error, whatever the size of its token.
THEOREM GrantsAreNeverSilent == Spec => GrantNeverSilent
  <1>1. ASSUME IInv, [Next]_vars, NEW t \in Tabs, Arrives(t), req[t].new # None
        PROVE  \/ gw' # None /\ gw'.tok = req[t].new
               \/ page'[t] \in {"error", "flash"}
    <2>1. GoodReply(req[t]) /\ req[t] \in Requests /\ gw' = Stored(req[t].setGw, gw)
      BY <1>1, Arrival
    <2>2. CASE req[t].show \in {"error", "flash"}
      BY <1>1, <2>2 DEF Arrives
    <2>3. CASE req[t].setGw \notin {None, Keep} /\ req[t].setGw.tok = req[t].new
      BY <2>1, <2>3 DEF GoodReply, Stored
    <2> QED
      BY <1>1, <2>1, <2>2, <2>3 DEF GoodReply
  <1>2. IInv /\ [Next]_vars =>
          [\A t \in Tabs :
             Arrives(t) /\ req[t].new # None =>
               \/ gw' # None /\ gw'.tok = req[t].new
               \/ page'[t] \in {"error", "flash"}]_vars
    BY <1>1
  <1> QED
    BY <1>2, Invariant, PTL DEF Spec, GrantNeverSilent

=============================================================================
