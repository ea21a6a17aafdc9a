----------------------------- MODULE SpendCaps -----------------------------
(***************************************************************************)
(* Setting and clearing spend caps: the portal's admin POST handler        *)
(* (views/admin.py, _admin_mutate, with the lookups of gateway.py) and the *)
(* break-glass script (scripts/set-spend-limit.sh), run by several admins  *)
(* at once against the gateway's table of cap rows, which is modelled from *)
(* what the code says of it.                                               *)
(*                                                                         *)
(* A row is keyed by scope and id (its period is part of the key: rows of  *)
(* other periods are other keys); its row id is the key and a generation,  *)
(* so an id is never used twice.  Emails are the spellings of one address, *)
(* the one that the people in mailbox sign in with.                        *)
(***************************************************************************)
EXTENDS Naturals, FiniteSets

CONSTANTS
  Requests,     \* form posts and script runs
  Principals,   \* oidc:<sub>
  Emails,       \* spellings of one email address
  BareSubs,     \* user ids that are neither
  Groups,
  Amounts,      \* positive amounts of cents
  Unlimited,    \* what a row with a null amount grants
  NoCap,        \* there is no row
  PageSize,     \* rows the listing returns (?limit=200)
  SearchFits,   \* no search for an address matches over 100 users (limit=100)
  MaxRows       \* bound: rows one key is given

NoId  == "no id"           \* the organization scope takes none
Organization == <<"organization", NoId>>
User(id) == <<"user", id>>
EmailKeys == {User(e) : e \in Emails}
BareKeys  == {User(b) : b \in BareSubs}
Keys == {User(p) : p \in Principals} \cup EmailKeys \cup BareKeys
          \cup ({"rbac_group"} \X Groups) \cup {Organization}
NoRow == <<Organization, 0>>    \* generations start at 1

ASSUME CapsAssumption ==
  /\ PageSize \in Nat /\ MaxRows \in Nat /\ Amounts # {}
  /\ SearchFits \in BOOLEAN
  /\ Unlimited \notin Amounts /\ NoCap \notin Amounts \cup {Unlimited}
  /\ Principals \cap (Emails \cup BareSubs) = {} /\ Emails \cap BareSubs = {}
  /\ NoId \notin Principals

VARIABLES
  amount,       \* key -> what its row grants
  gen,          \* key -> how many rows it has had
  signedIn,     \* the principals the gateway has seen
  mailbox,      \* the principals whose email address is the one in Emails
  phase,        \* request -> what it does next
  form,         \* request -> what was entered
  target,       \* request -> the principal the email resolved to
  rowId,        \* request -> the row it is to delete
  answer,       \* request -> what the admin was told
  applied,      \* the requests the gateway carried out (admin_audit)
  audited       \* request -> its line in the portal's audit log

gatewayVars == <<amount, gen, signedIn, mailbox>>
vars == <<gatewayVars, phase, form, target, rowId, answer, applied, audited>>

Phases  == {"new", "resolve", "list", "write", "done"}
\* "denied" is an HTTP status below 500, with which the gateway itself refuses;
\* "failed" one of 500 or above, which a load balancer may also send after the
\* gateway carried the call out (both are shown as "Gateway refused (... HTTP
\* <status>)"); "unknown" a network error.
Answers == {"none", "done", "notApplied", "denied", "failed", "unknown"}
Lines == {"none", "success", "denied"}
Forms == [via : {"portal", "script"}, clear : BOOLEAN, key : Keys,
          amount : Amounts]
Blank == [via |-> "portal", clear |-> FALSE, key |-> Organization,
          amount |-> CHOOSE a \in Amounts : TRUE]

\* Rows from before: caps, email-keyed rows that never applied, and null
\* amounts, which earlier versions of both tools wrote; or caps that were
\* removed and set anew since a page that is still open showed the first row.
Init ==
  /\ \E old \in SUBSET Keys, a \in {Blank.amount, Unlimited}, n \in 1 .. 2 :
       /\ a = Unlimited => n = 1
       /\ amount = [k \in Keys |-> IF k \in old THEN a ELSE NoCap]
       /\ gen = [k \in Keys |-> IF k \in old THEN n ELSE 0]
  /\ mailbox \in SUBSET Principals
  /\ signedIn = {}
  /\ phase = [r \in Requests |-> "new"]
  /\ form = [r \in Requests |-> Blank]
  /\ target = [r \in Requests |-> NoId]
  /\ rowId = [r \in Requests |-> NoRow]
  /\ answer = [r \in Requests |-> "none"]
  /\ applied = {}
  /\ audited = [r \in Requests |-> "none"]

-----------------------------------------------------------------------------
(* The gateway (external).                                                 *)

SignIn(p) ==
  /\ signedIn' = signedIn \cup {p}
  /\ UNCHANGED <<amount, gen, mailbox, phase, form, target, rowId, answer,
                 applied, audited>>

RowKeys == {k \in Keys : amount[k] # NoCap}

\* GET ?limit=200: which rows a longer table leaves out is the gateway's choice.
Listings == {page \in SUBSET RowKeys :
               \/ page = RowKeys /\ Cardinality(page) <= PageSize
               \/ page # RowKeys /\ Cardinality(page) = PageSize}

\* POST creates the key's row or changes it.
Post(k, a) ==
  /\ amount[k] = NoCap => gen[k] < MaxRows
  /\ amount' = [amount EXCEPT ![k] = a]
  /\ gen' = [gen EXCEPT ![k] = IF amount[k] = NoCap THEN @ + 1 ELSE @]

RowExists(id) == amount[id[1]] # NoCap /\ gen[id[1]] = id[2]

Delete(id) ==
  /\ RowExists(id)
  /\ amount' = [amount EXCEPT ![id[1]] = NoCap]
  /\ UNCHANGED gen

-----------------------------------------------------------------------------
(* _admin_mutate and set-spend-limit.sh, one step per call.                *)

\* The handler's locals end with it.
Finish(r, told) ==
  /\ phase' = [phase EXCEPT ![r] = "done"]
  /\ answer' = [answer EXCEPT ![r] = told]
  /\ form' = [form EXCEPT ![r] = [Blank EXCEPT !.via = form[r].via]]
  /\ target' = [target EXCEPT ![r] = NoId]
  /\ rowId' = [rowId EXCEPT ![r] = NoRow]

Proceed(r, next) ==
  /\ phase' = [phase EXCEPT ![r] = next]
  /\ UNCHANGED answer

\* Faulty: every user id is written as it was entered.
_is_email_id_Never(k) == FALSE

\* oidc:... is never resolved, whether or not it contains an "@".
_is_email_id(k) == k \in EmailKeys

\* Faulty: an id that is no principal is written as entered.
Refused_None(f) == FALSE

\* The portal refuses to write a row for a bare sub; the script does not.
Refused(f) == f.via = "portal" /\ ~f.clear /\ f.key \in BareKeys

\* A form or a command line without a row id; its amount, scope or period may
\* be one that build_spend_limit_body refuses.
Submit(r, f) ==
  /\ phase[r] = "new"
  /\ \/ ~f.clear /\ Finish(r, "notApplied")
     \/ /\ ~Refused(f)
        /\ Proceed(r, IF _is_email_id(f.key) THEN "resolve"
                      ELSE IF f.clear THEN "list" ELSE "write")
        /\ form' = [form EXCEPT ![r] = f]
        /\ UNCHANGED <<target, rowId>>
  /\ UNCHANGED <<gatewayVars, applied, audited>>

\* The grid's Remove button names a row that was there when it was rendered.
SubmitRow(r, k, n) ==
  /\ phase[r] = "new"
  /\ form' = [form EXCEPT ![r].via = "portal", ![r].clear = TRUE, ![r].key = k]
  /\ rowId' = [rowId EXCEPT ![r] = <<k, n>>]
  /\ Proceed(r, "write")
  /\ UNCHANGED <<gatewayVars, target, applied, audited>>

\* The portal_gw cookie expired between the page and the post.
NotConnected(r) ==
  /\ phase[r] = "new"
  /\ Finish(r, "notApplied")
  /\ UNCHANGED <<gatewayVars, applied, audited>>

\* The users whose email is the entered one, whatever its case.
Matches == signedIn \cap mailbox

\* A search that matches more users than one page holds shows some of them.
Searches == IF SearchFits THEN {Matches} ELSE SUBSET Matches

Resolved(r, p) ==
  /\ target' = [target EXCEPT ![r] = p]
  /\ Proceed(r, IF form[r].clear THEN "list" ELSE "write")
  /\ UNCHANGED <<form, rowId>>

\* Faulty: takes the first of several users with that email.
resolve_user_email_First(r) ==
  /\ phase[r] = "resolve"
  /\ \/ \E p \in Matches : Resolved(r, p)
     \/ Finish(r, "notApplied")
  /\ UNCHANGED <<gatewayVars, applied, audited>>

\* No match, several, or an HTTP error end a set; a clear goes on without,
\* except the portal's on a network error.
resolve_user_email(r) ==
  /\ phase[r] = "resolve"
  /\ \/ \E p \in Matches : {p} \in Searches /\ Resolved(r, p)
     \/ /\ form[r].clear
        /\ Proceed(r, "list")
        /\ UNCHANGED <<form, target, rowId>>
     \/ (~form[r].clear \/ form[r].via = "portal") /\ Finish(r, "notApplied")
  /\ UNCHANGED <<gatewayVars, applied, audited>>

\* Faulty: looks for the principal's row first.
Candidate_PrincipalFirst(r, page) ==
  {k \in page : \/ k = User(target[r])
                \/ k = form[r].key /\ User(target[r]) \notin page}

\* The entered id is searched first, the principal it resolved to second.
Candidate(r, page) ==
  {k \in page : \/ k = form[r].key
                \/ k = User(target[r]) /\ form[r].key \notin page}

\* Nothing is removed when the listing fails or has no such row.
find_spend_limit_id(r) ==
  /\ phase[r] = "list"
  /\ \/ \E page \in Listings : \E k \in Candidate(r, page) :
          /\ rowId' = [rowId EXCEPT ![r] = <<k, gen[k]>>]
          /\ Proceed(r, "write")
          /\ UNCHANGED <<form, target>>
     \/ Finish(r, "notApplied")
  /\ UNCHANGED <<gatewayVars, applied, audited>>

\* Faulty: the row is keyed by what was entered.
Scope_Entered(r) == form[r].key

Scope(r) == IF target[r] # NoId THEN User(target[r]) ELSE form[r].key

\* Faulty: clears a cap by storing a null amount.
Change_Null(r) ==
  IF form[r].clear THEN Post(rowId[r][1], Unlimited)
                   ELSE Post(Scope(r), form[r].amount)

\* Faulty: deletes the row that the key has by now.
Change_ByKey(r) ==
  IF form[r].clear THEN Delete(<<rowId[r][1], gen[rowId[r][1]]>>)
                   ELSE Post(Scope(r), form[r].amount)

Change(r) ==
  IF form[r].clear THEN Delete(rowId[r]) ELSE Post(Scope(r), form[r].amount)

\* Faulty: a network error is reported as "not applied".
Lost_NotApplied == "notApplied"

Lost == "unknown"

\* Faulty: a refused change is logged as a success.
audit_admin_Any(r, told) ==
  audited' = [audited EXCEPT ![r] =
    IF form[r].via = "portal" /\ told # "unknown" THEN "success" ELSE @]

\* One line for any HTTP status; nothing is logged after a network error.
audit_admin(r, told) ==
  audited' = [audited EXCEPT ![r] =
    CASE form[r].via = "portal" /\ told = "done" -> "success"
      [] form[r].via = "portal" /\ told \in {"denied", "failed"} -> "denied"
      [] OTHER -> @]

\* The last call is carried out, and its answer arrives, is replaced by a load
\* balancer's error or is lost; or it is not carried out.
Write(r) ==
  /\ phase[r] = "write"
  /\ \/ /\ Change(r)
        /\ applied' = applied \cup {r}
        /\ \E told \in {"done", "failed", Lost} :
             Finish(r, told) /\ audit_admin(r, told)
     \/ /\ \E told \in {"denied", "failed", Lost} :
             Finish(r, told) /\ audit_admin(r, told)
        /\ UNCHANGED <<amount, gen, applied>>
  /\ UNCHANGED <<signedIn, mailbox>>

Next ==
  \/ \E p \in Principals \ signedIn : SignIn(p)
  \/ \E r \in Requests :
       \/ \E f \in Forms : Submit(r, f)
       \/ \E k \in Keys : \E n \in 1 .. gen[k] : SubmitRow(r, k, n)
       \/ NotConnected(r)
       \/ resolve_user_email(r)
       \/ find_spend_limit_id(r)
       \/ Write(r)

Spec == Init /\ [][Next]_vars

-----------------------------------------------------------------------------
TypeOK ==
  /\ amount \in [Keys -> Amounts \cup {Unlimited, NoCap}]
  /\ gen \in [Keys -> Nat]
  /\ signedIn \in SUBSET Principals
  /\ mailbox \in SUBSET Principals
  /\ phase \in [Requests -> Phases]
  /\ form \in [Requests -> Forms]
  /\ target \in [Requests -> Principals \cup {NoId}]
  /\ rowId \in [Requests -> Keys \X Nat]
  /\ answer \in [Requests -> Answers]
  /\ applied \in SUBSET Requests
  /\ audited \in [Requests -> Lines]
  /\ \A r \in Requests : audited[r] = "success" => r \in applied

\* Every row either tool writes is one the gateway applies: an amount, never
\* null, and no key that only stores (an email; a bare sub, in the portal).
OnlyLiveCaps ==
  [][\A k \in Keys : amount'[k] \notin {amount[k], NoCap} =>
       /\ amount'[k] # Unlimited
       /\ k \notin EmailKeys
       /\ k \in BareKeys =>
            \E r \in applied' \ applied : form[r].via = "script"]_vars

\* "Done" for a cap entered by email means that the one person with that
\* address who had signed in is now capped at that amount.
SetTakesEffect ==
  [][\A r \in Requests :
       /\ answer'[r] = "done" /\ answer[r] # "done"
       /\ ~form[r].clear /\ form[r].key \in EmailKeys
       => \E p \in Matches : amount'[User(p)] = form[r].amount]_vars

\* One address is one person: two requests at work at the same time for the
\* same address never act on different people, even when a second person with
\* that address signs in between their lookups.
OneAddressOnePerson ==
  \A r, s \in Requests :
    target[r] # NoId /\ target[s] # NoId => target[r] = target[s]

\* "a legacy email-keyed row is found before (never shadowed by) the
\* principal-keyed one": the principal's cap is not chosen for removal while
\* a row keyed by the address is there.
LegacyRowFirst ==
  [][\A r \in Requests :
       /\ phase[r] = "list" /\ phase'[r] = "write"
       /\ form[r].key \in EmailKeys /\ rowId'[r][1] \notin EmailKeys
       => RowKeys \cap EmailKeys = {}]_vars

\* "Remove deletes the cap row so the user falls back": a clear that was
\* carried out took away one row, that of the entered id or of the principal
\* it resolved to, and the very row that was looked up: one that another admin
\* set for that key since then stays.
ClearRemovesNamed ==
  [][\A r \in applied' \ applied : form[r].clear =>
       /\ rowId[r][1] \in {form[r].key, User(target[r])}
       /\ RowExists(rowId[r])
       /\ amount' = [amount EXCEPT ![rowId[r][1]] = NoCap]]_vars

\* What the admin reads is so: "Done" that the change was made, "not applied"
\* and a refusal with a status below 500 that it was not, although the last
\* call may be carried out and its answer lost.  A status of 500 or above, also
\* shown as "Gateway refused", says neither.
AnswerHonest ==
  \A r \in Requests :
    /\ answer[r] = "done" => r \in applied
    /\ answer[r] \in {"notApplied", "denied"} => r \notin applied

\* "a gateway row can be tied to an emailed portal line": every change made
\* through the portal has a line.
EveryChangeAudited ==
  \A r \in applied :
    phase[r] = "done" /\ form[r].via = "portal" => audited[r] # "none"

=============================================================================
