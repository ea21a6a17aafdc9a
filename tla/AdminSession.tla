---------------------------- MODULE AdminSession ----------------------------
(***************************************************************************)
(* The portal's admin pages and their gateway session (views/admin.py:     *)
(* admin, _render_connected, _poll_device_flow, admin_connect,             *)
(* admin_disconnect, admin_users, admin_audit).                            *)
(* The portal keeps nothing: the state is in two cookies that all tabs of  *)
(* a browser share.  A tab sends the cookies as they are, the handler asks *)
(* the gateway, and what the reply sets or clears is applied when it       *)
(* arrives, whatever other tabs received meanwhile.  The user is an admin   *)
(* with a portal session; the pages that need no gateway are left out.     *)
(***************************************************************************)
EXTENDS Naturals

CONSTANTS
  Tabs,
  Codes,      \* device codes
  Tokens,     \* gateway sessions
  Keyed,      \* those whose principal can be put to the identity map: there is an
              \* email, and the sub makes a key
  None,       \* no cookie, no token
  Keep        \* what a reply says of a cookie that it leaves alone

VARIABLES
  gw,         \* portal_gw, as the browser holds it
  gwdev,      \* portal_gwdev: the device code being polled
  page,       \* tab -> the page it shows
  req,        \* tab -> its request, from sending to the reply
  code,       \* device code -> what the gateway knows of it
  session,    \* token -> "unissued", "live" or "over"
  paired      \* token -> its principal in the identity map: "none" if that was
              \* not tried, "put", or "logged" when the write failed

browserVars == <<gw, gwdev, page>>
gatewayVars == <<code, session>>
vars == <<browserVars, req, gatewayVars, paired>>

\* The cookie carries the token and, if there is one and the two fit, its
\* refresh token; a browser keeps it only if it "fits" the browser's limit.
GwCookies == [tok : Tokens, rt : BOOLEAN, fits : BOOLEAN]

ASSUME SessionAssumption ==
  Keyed \subseteq Tokens /\ None # Keep /\ {None, Keep} \cap (Tokens \cup Codes \cup GwCookies) = {}

\* How large a session's tokens are: both fit, the one without the other, none.
Sizes == {"small", "large without rt", "large"}
Cookie(k, rt, s) ==
  [tok |-> k, rt |-> rt, fits |-> s = "small" \/ (s = "large without rt" /\ ~rt)]

\* "error": the connect page, or the denied one, with a message; "flash": sent
\* to the admin page with a message for it; "again": sent to the listing of users
\* once more; "blank": a listing of users or of the audit trail as well.
Pages == {"blank", "connect", "error", "pending", "caps", "redirect", "flash",
         "again"}
Request(at, g, d) == [at |-> at, gw |-> g, dev |-> d, new |-> None,
                      setGw |-> Keep, setDev |-> Keep, show |-> "blank"]
Idle == Request("idle", None, None)

Init ==
  /\ gw = None
  /\ gwdev = None
  /\ page = [t \in Tabs |-> "blank"]
  /\ req = [t \in Tabs |-> Idle]
  /\ code = [c \in Codes |-> "unissued"]
  /\ session = [k \in Tokens |-> "unissued"]
  /\ paired = [k \in Tokens |-> "none"]

-----------------------------------------------------------------------------
(* The gateway and its users (external).                                   *)

Approve(c) ==
  /\ code[c] = "pending"
  /\ code' = [code EXCEPT ![c] = "approved"]
  /\ UNCHANGED <<browserVars, req, session, paired>>

\* The code is denied or expires, granted or not.
CodeDies(c) ==
  /\ code[c] \in {"pending", "approved"}
  /\ code' = [code EXCEPT ![c] = "dead"]
  /\ UNCHANGED <<browserVars, req, session, paired>>

SessionEnds(k) ==
  /\ session[k] = "live"
  /\ session' = [session EXCEPT ![k] = "over"]
  /\ UNCHANGED <<browserVars, req, code, paired>>

Issue(k) ==
  /\ session[k] = "unissued"
  /\ session' = [session EXCEPT ![k] = "live"]

-----------------------------------------------------------------------------
(* The browser.                                                            *)

\* A cookie over the browser's limit is dropped without a word.
Stored(c, old) == CASE c = Keep -> old
                    [] c = None -> None
                    [] OTHER    -> IF c.fits THEN c ELSE old

Receive(t) ==
  /\ req[t].at = "reply"
  /\ gw' = Stored(req[t].setGw, gw)
  /\ gwdev' = IF req[t].setDev = Keep THEN gwdev ELSE req[t].setDev
  /\ page' = [page EXCEPT ![t] = req[t].show]
  /\ req' = [req EXCEPT ![t] = Idle]
  /\ UNCHANGED <<gatewayVars, paired>>

Lose(t) ==
  /\ req[t].at = "reply"
  /\ page' = [page EXCEPT ![t] = "blank"]
  /\ req' = [req EXCEPT ![t] = Idle]
  /\ UNCHANGED <<gw, gwdev, gatewayVars, paired>>

\* The cookies end with what they are signed for.
CookieExpires ==
  /\ \/ gw # None /\ gw' = None /\ UNCHANGED gwdev
     \/ gwdev # None /\ gwdev' = None /\ UNCHANGED gw
  /\ UNCHANGED <<page, req, gatewayVars, paired>>

-----------------------------------------------------------------------------
(* The handlers.  A request carries the cookies as they are when it is sent *)
(* and the handler looks at nothing else of the browser's, so that sending  *)
(* is one step with the handler's first; each call to the gateway is a step.*)

Call(t, at) ==
  req' = [req EXCEPT ![t] = Request(at, gw, IF gw = None THEN gwdev ELSE None)]

\* Of the cookies sent only the one that a reply takes away is remembered.
Reply(t, new, setGw, setDev, show) ==
  req' = [req EXCEPT ![t] =
            [at |-> "reply", gw |-> IF setGw = None THEN @.gw ELSE None,
             dev |-> None, new |-> new,
             setGw |-> setGw, setDev |-> setDev, show |-> show]]

\* Faulty: the cookie is built whatever its size.
build_gw_cookie_NoBudget(k, s) == Cookie(k, TRUE, s)

\* Without the refresh token if need be, and not at all if that is no help.
build_gw_cookie(k, s) ==
  CASE s = "small"            -> Cookie(k, TRUE, s)
    [] s = "large without rt" -> Cookie(k, FALSE, s)
    [] OTHER                  -> None

\* Faulty: polls whether or not there is a code to poll.
admin_PollAlways(t) ==
  /\ req[t].at = "idle"
  /\ IF gw # None THEN Call(t, "list") ELSE Call(t, "poll")
  /\ UNCHANGED <<browserVars, gatewayVars, paired>>

\* Opened, reloaded, or reloaded by the page itself ("pending", "redirect").
admin(t) ==
  /\ req[t].at = "idle"
  /\ \/ gw # None /\ Call(t, "list")
     \/ gw = None /\ gwdev # None /\ Call(t, "poll")
     \/ gw = None /\ gwdev = None /\ Reply(t, None, Keep, Keep, "connect")
  /\ UNCHANGED <<browserVars, gatewayVars, paired>>

\* The caps listing: 200, or 401 once the session is over; 403, other errors
\* and network failures may come at any time and leave the cookie.
_render_connected(t) ==
  /\ req[t].at = "list"
  /\ \/ session[req[t].gw.tok] = "live" /\ Reply(t, None, Keep, Keep, "caps")
     \/ session[req[t].gw.tok] = "over" /\ req' = [req EXCEPT ![t].at = "refresh"]
     \/ Reply(t, None, Keep, Keep, "error")
  /\ UNCHANGED <<browserVars, gatewayVars, paired>>

\* 403 shows the connect page, other errors and network failures send there.
effective_usage(t) ==
  \/ session[gw.tok] = "live" /\ Reply(t, None, Keep, Keep, "blank")
  \/ session[gw.tok] = "over" /\ Call(t, "refresh users")
  \/ \E show \in {"error", "flash"} : Reply(t, None, Keep, Keep, show)

\* The pages that have no connect flow of their own send to the one that has it.
\* Their first call is one step with the sending.
admin_users(t) ==
  /\ req[t].at = "idle"
  /\ \/ gw # None /\ effective_usage(t)
     \/ gw = None /\ Reply(t, None, Keep, Keep, "flash")
  /\ UNCHANGED <<browserVars, gatewayVars, paired>>

\* The audit trail is not refreshed for: a session that is over is an error here.
admin_audit(t) ==
  /\ req[t].at = "idle"
  /\ \/ gw = None /\ Reply(t, None, Keep, Keep, "redirect")
     \/ gw # None /\ session[gw.tok] = "live" /\ Reply(t, None, Keep, Keep, "blank")
     \/ gw # None /\ Reply(t, None, Keep, Keep, "flash")
  /\ UNCHANGED <<browserVars, gatewayVars, paired>>

\* Where a handler that has refreshed sends to, and what it does if it could not.
Again(t) == IF req[t].at = "refresh" THEN "redirect" ELSE "again"
Expired(t) == IF req[t].at = "refresh" THEN "error" ELSE "flash"

\* Best-effort: a write that fails is logged, and a principal that makes no key
\* is left out without a word.
record_principal_email(k) ==
  \/ /\ k \in Keyed
     /\ \E outcome \in {"put", "logged"} : paired' = [paired EXCEPT ![k] = outcome]
  \/ k \notin Keyed /\ UNCHANGED paired

\* Faulty: the refreshed session is not recorded.
Refreshed_Unpaired(k) == UNCHANGED paired

Refreshed(k) == record_principal_email(k)

\* A refresh may be refused, or its answer be lost, at any time.
refresh(t) ==
  /\ req[t].at \in {"refresh", "refresh users"}
  /\ \/ req[t].gw.rt /\ \E k \in Tokens, s \in Sizes :
          /\ Issue(k)
          /\ \/ /\ build_gw_cookie(k, s) # None
                /\ Refreshed(k)
                /\ Reply(t, k, build_gw_cookie(k, s), Keep, Again(t))
             \/ /\ build_gw_cookie(k, s) = None
                /\ Reply(t, k, None, Keep, Expired(t))
                /\ UNCHANGED paired
     \/ Reply(t, None, None, Keep, Expired(t)) /\ UNCHANGED <<session, paired>>
  /\ UNCHANGED <<browserVars, code>>

\* Faulty: a dead code is polled on.
PollError_Pending(t) == Reply(t, None, Keep, Keep, "pending")

\* Faulty: the connect page starts from no cookie at all.
PollError_ClearsBoth(t) == Reply(t, None, None, None, "error")

\* _connect_page(..., clear_gwdev=True)
PollError(t) == Reply(t, None, Keep, None, "error")

Granted(t, k, s) ==
  IF build_gw_cookie(k, s) = None
  THEN Reply(t, k, Keep, None, "error") /\ UNCHANGED paired
  ELSE /\ Reply(t, k, build_gw_cookie(k, s), None, "redirect")
       /\ record_principal_email(k)

\* slow_down, which a pending code gets and an approved one may, sets the cookie
\* of the same code again.  The gateway grants an approved code once; the poll
\* itself may fail before or after it did.
_poll_device_flow(t) ==
  /\ req[t].at = "poll"
  /\ LET c == req[t].dev IN
       \/ /\ \/ code[c] = "pending" /\ Reply(t, None, Keep, Keep, "pending")
             \/ code[c] \in {"pending", "approved"} /\ Reply(t, None, Keep, c, "pending")
          /\ UNCHANGED <<code, session, paired>>
       \/ /\ code[c] = "approved"
          /\ code' = [code EXCEPT ![c] = "dead"]
          /\ \E k \in Tokens, s \in Sizes :
               /\ Issue(k)
               /\ \/ Granted(t, k, s)
                  \/ PollError(t) /\ UNCHANGED paired
       \/ /\ PollError(t)
          /\ UNCHANGED <<code, session, paired>>
  /\ UNCHANGED browserVars

admin_connect(t) ==
  /\ req[t].at = "idle" /\ page[t] \in {"connect", "error"}
  /\ \/ \E c \in Codes :
          /\ code[c] = "unissued"
          /\ code' = [code EXCEPT ![c] = "pending"]
          /\ Reply(t, None, Keep, c, "redirect")
     \/ Reply(t, None, Keep, Keep, "error") /\ UNCHANGED code
  /\ UNCHANGED <<browserVars, session, paired>>

\* On the caps page, or to cancel on the pending one.
admin_disconnect(t) ==
  /\ req[t].at = "idle" /\ page[t] \in {"caps", "pending"}
  /\ Reply(t, None, None, None, "redirect")
  /\ UNCHANGED <<browserVars, gatewayVars, paired>>

Handler(t) == \/ _render_connected(t) \/ refresh(t) \/ _poll_device_flow(t)

Next ==
  \/ \E c \in Codes : Approve(c) \/ CodeDies(c)
  \/ \E k \in Tokens : SessionEnds(k)
  \/ CookieExpires
  \/ \E t \in Tabs :
       \/ admin(t) \/ admin_users(t) \/ admin_audit(t)
       \/ admin_connect(t) \/ admin_disconnect(t)
       \/ Handler(t)
       \/ Receive(t) \/ Lose(t)

\* Handlers end (each call has a timeout), replies arrive or are lost, codes
\* expire, and the pending page and redirects to this one load it by themselves.
Fairness ==
  /\ \A c \in Codes : WF_vars(CodeDies(c))
  /\ \A t \in Tabs :
       /\ WF_vars(Handler(t))
       /\ WF_vars(Receive(t))
       /\ WF_vars(page[t] \in {"pending", "redirect", "flash"} /\ admin(t))

Spec == Init /\ [][Next]_vars /\ Fairness

-----------------------------------------------------------------------------
\* The variables have their types, and a handler calls the gateway with a token
\* or a code that its request carried.
TypeOK ==
  /\ gw \in GwCookies \cup {None}
  /\ gwdev \in Codes \cup {None}
  /\ page \in [Tabs -> Pages]
  /\ req \in [Tabs ->
       [at : {"idle", "list", "refresh", "refresh users", "poll", "reply"},
        gw : GwCookies \cup {None}, dev : Codes \cup {None},
        new : Tokens \cup {None}, setGw : GwCookies \cup {None, Keep},
        setDev : Codes \cup {None, Keep}, show : Pages]]
  /\ \A t \in Tabs : /\ req[t].at \in {"list", "refresh", "refresh users"}
                       => req[t].gw # None
                     /\ req[t].at = "poll" => req[t].dev # None
  /\ code \in [Codes -> {"unissued", "pending", "approved", "dead"}]
  /\ session \in [Tokens -> {"unissued", "live", "over"}]
  /\ paired \in [Tokens -> {"none", "put", "logged"}]
  /\ \A k \in Tokens : paired[k] # "none" => k \in Keyed /\ session[k] # "unissued"

Arrives(t) ==
  req[t].at = "reply" /\ req'[t].at = "idle" /\ page'[t] = req[t].show

\* A connection (portal_gw) is taken from the browser only by a disconnect or by the
\* answer to a request whose own session was over: the tab that loses the
\* race for a device code does not cost the winner its session.
ConnectionKept ==
  [][\A t \in Tabs :
       Arrives(t) /\ gw # None /\ gw' = None =>
         \/ req[t].setDev = None /\ req[t].show = "redirect"
         \/ req[t].gw # None /\ session[req[t].gw.tok] = "over"]_vars

\* "instead of letting the browser discard the cookie silently": when the
\* gateway has issued a session to a request, its reply leaves the browser
\* connected with that session or shows an error, or sends to one.
GrantNeverSilent ==
  [][\A t \in Tabs :
       Arrives(t) /\ req[t].new # None =>
         \/ gw' # None /\ gw'.tok = req[t].new
         \/ page'[t] \in {"error", "flash"}]_vars

\* Whatever session a browser is connected with, connected or refreshed, lost
\* replies and other tabs included: if its principal makes a key it was put to
\* the identity map, or the failure to do so was logged.
Tried(k) == k \in Keyed => paired[k] # "none"
PairedBeforeUse == gw # None => Tried(gw.tok)

\* The page that waits for the user's approval (_poll_device_flow) reloads
\* until the code is granted, denied or dead, and does not wait for ever.
PendingEnds == \A t \in Tabs : []<>(page[t] # "pending")

=============================================================================
