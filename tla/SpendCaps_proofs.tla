-------------------------- MODULE SpendCaps_proofs --------------------------
(***************************************************************************)
(* Safety of setting and clearing caps for any number of requests, people, *)
(* addresses and amounts.                                                  *)
(***************************************************************************)
EXTENDS SpendCaps, FiniteSetTheorems, TLAPS

\* Whom a request acts on has signed in with the address.
TargetInv == \A r \in Requests : target[r] # NoId => target[r] \in Matches

\* A request is carried out by its last step, and never before.
AppliedInv ==
  \A r \in Requests :
    /\ phase[r] # "done" => r \notin applied /\ answer[r] = "none"
    /\ r \in applied => answer[r] \in {"done", "failed", "unknown"}
    /\ answer[r] = "done" => r \in applied

\* The last step of a clear knows the row, which is the entered id's or the
\* principal's.
RowInv ==
  \A r \in Requests :
    phase[r] = "write" /\ form[r].clear =>
      rowId[r][1] \in {form[r].key, User(target[r])}

\* A request that will write a cap has a key that may be written.
KeyInv ==
  \A r \in Requests :
    /\ phase[r] \in {"resolve", "write"} => ~Refused(form[r])
    /\ phase[r] = "list" => form[r].clear
    /\ phase[r] = "write" /\ ~form[r].clear /\ form[r].key \in EmailKeys =>
         target[r] # NoId

IInv ==
  TypeOK /\ TargetInv /\ AppliedInv /\ RowInv /\ KeyInv

-----------------------------------------------------------------------------
\* Every key the actions build is a key of the table.
LEMMA Shapes ==
  /\ Blank \in Forms
  /\ \A f \in Forms : [Blank EXCEPT !.via = f.via] \in Forms
  /\ NoRow \in Keys \X Nat
  /\ \A p \in Principals : User(p) \in Keys
  <1>1. Organization \in Keys /\ \A p \in Principals : User(p) \in Keys
    BY DEF Keys
  <1>2. (CHOOSE a \in Amounts : TRUE) \in Amounts
    BY CapsAssumption
  <1> QED
    BY <1>1, <1>2 DEF Blank, Forms, NoRow

\* A request that ends forgets what it was about.
LEMMA FinishType ==
  ASSUME TypeOK, NEW r \in Requests, NEW told \in Answers, Finish(r, told)
  PROVE  /\ phase' \in [Requests -> Phases]
         /\ answer' \in [Requests -> Answers]
         /\ form' \in [Requests -> Forms]
         /\ target' \in [Requests -> Principals \cup {NoId}]
         /\ rowId' \in [Requests -> Keys \X Nat]
  BY Shapes DEF TypeOK, Finish, Phases

LEMMA InitInv == Init => IInv
  <1> SUFFICES ASSUME Init PROVE IInv
    OBVIOUS
  <1>1. TypeOK
    <2>1. amount \in [Keys -> Amounts \cup {Unlimited, NoCap}]
      BY Shapes DEF Init, Forms
    <2>2. gen \in [Keys -> Nat]
      BY DEF Init
    <2> QED
      BY <2>1, <2>2, Shapes DEF Init, TypeOK, Phases, Answers, Lines
  <1> QED
    BY <1>1 DEF IInv, Init, TargetInv, AppliedInv, RowInv,
                KeyInv

-----------------------------------------------------------------------------
(* The steps. *)

LEMMA SignInStep ==
  ASSUME IInv, NEW p \in Principals, SignIn(p) PROVE IInv'
  BY DEF IInv, TypeOK, TargetInv, AppliedInv, RowInv, KeyInv,
         Matches, SignIn

\* What a step that ends a request without a change keeps.
LEMMA EndStep ==
  ASSUME IInv, NEW r \in Requests, phase[r] # "done",
         NEW told \in {"notApplied", "denied", "failed", "unknown"},
         Finish(r, told), UNCHANGED gatewayVars, UNCHANGED applied,
         audited' \in [Requests -> Lines],
         \A q \in Requests : audited'[q] = "success" => q \in applied
  PROVE  IInv'
  <1>1. TypeOK'
    BY FinishType DEF IInv, TypeOK, gatewayVars, Answers
  <1>2. TargetInv'
    BY DEF IInv, TypeOK, TargetInv, Matches, Finish,
           gatewayVars
  <1>3. AppliedInv'
    BY DEF IInv, TypeOK, AppliedInv, Finish
  <1>4. RowInv'
    BY DEF IInv, TypeOK, RowInv, Finish
  <1>5. KeyInv'
    BY DEF IInv, TypeOK, KeyInv, Finish
  <1> QED
    BY <1>1, <1>2, <1>3, <1>4, <1>5 DEF IInv

LEMMA SubmitStep ==
  ASSUME IInv, NEW r \in Requests, NEW f \in Forms, Submit(r, f)
  PROVE  IInv'
  <1>1. CASE Finish(r, "notApplied")
    BY <1>1, EndStep DEF Submit, IInv, TypeOK
  <1>2. CASE /\ Proceed(r, IF _is_email_id(f.key) THEN "resolve"
                      ELSE IF f.clear THEN "list" ELSE "write")
             /\ form' = [form EXCEPT ![r] = f]
             /\ UNCHANGED <<target, rowId>>
    <2>1. TypeOK'
      BY <1>2 DEF IInv, TypeOK, Submit, Proceed, gatewayVars, Phases
    <2>2. TargetInv'
      BY <1>2 DEF IInv, TargetInv, Matches, Submit,
                  gatewayVars
    <2>3. AppliedInv'
      BY <1>2 DEF IInv, TypeOK, AppliedInv, Submit, Proceed
    <2>4. RowInv'
      BY <1>2 DEF IInv, TypeOK, RowInv, Submit, Proceed
    <2>5. ~Refused(f)
      BY <1>2 DEF Submit, Proceed, Finish, IInv, TypeOK, Phases
    <2>6. KeyInv'
      BY <1>2, <2>5 DEF IInv, TypeOK, KeyInv, Submit, Proceed, _is_email_id
    <2> QED
      BY <2>1, <2>2, <2>3, <2>4, <2>6 DEF IInv
  <1> QED
    BY <1>1, <1>2 DEF Submit

LEMMA SubmitRowStep ==
  ASSUME IInv, NEW r \in Requests, NEW k \in Keys, NEW n \in 1 .. gen[k],
         SubmitRow(r, k, n)
  PROVE  IInv'
  <1>1. TypeOK'
    <2>1. <<k, n>> \in Keys \X Nat
      BY DEF IInv, TypeOK
    <2>2. form' \in [Requests -> Forms]
      <3>1. form[r] \in Forms
        BY DEF IInv, TypeOK
      <3>2. [form[r] EXCEPT !.via = "portal", !.clear = TRUE, !.key = k]
              \in Forms
        BY <3>1 DEF Forms
      <3>3. form' = [form EXCEPT ![r] =
              [form[r] EXCEPT !.via = "portal", !.clear = TRUE, !.key = k]]
        BY DEF SubmitRow, IInv, TypeOK, Forms
      <3> QED
        BY <3>2, <3>3 DEF IInv, TypeOK
    <2>3. rowId' \in [Requests -> Keys \X Nat]
      BY <2>1 DEF IInv, TypeOK, SubmitRow
    <2> QED
      BY <2>2, <2>3 DEF IInv, TypeOK, SubmitRow, Proceed, gatewayVars, Phases
  <1>2. TargetInv'
    BY DEF IInv, TargetInv, Matches, SubmitRow,
           gatewayVars
  <1>3. AppliedInv'
    BY DEF IInv, TypeOK, AppliedInv, SubmitRow, Proceed
  <1>4. RowInv'
    BY DEF IInv, TypeOK, RowInv, SubmitRow, Proceed, Forms
  <1>5. KeyInv'
    BY DEF IInv, TypeOK, KeyInv, SubmitRow, Proceed, Forms, Refused
  <1> QED
    BY <1>1, <1>2, <1>3, <1>4, <1>5 DEF IInv

LEMMA NotConnectedStep ==
  ASSUME IInv, NEW r \in Requests, NotConnected(r) PROVE IInv'
  BY EndStep DEF NotConnected, IInv, TypeOK

\* Whom the lookup names has signed in with the address.
LEMMA ResolveStep ==
  ASSUME IInv, NEW r \in Requests, resolve_user_email(r) PROVE IInv'
  <1>1. ASSUME NEW p \in Matches, Resolved(r, p) PROVE IInv'
    <2>1. p \in Principals
      BY DEF Matches, IInv, TypeOK
    <2>2. TypeOK'
      BY <1>1, <2>1 DEF IInv, TypeOK, resolve_user_email, Resolved, Proceed,
                        gatewayVars, Phases
    <2>3. TargetInv'
      BY <1>1 DEF IInv, TypeOK, TargetInv, Matches, resolve_user_email,
                  Resolved, gatewayVars
    <2>5. AppliedInv'
      BY <1>1 DEF IInv, TypeOK, AppliedInv, resolve_user_email, Resolved,
                  Proceed
    <2>6. RowInv'
      BY <1>1 DEF IInv, TypeOK, RowInv, Resolved, Proceed, resolve_user_email
    <2>7. KeyInv'
      BY <1>1, <2>1, CapsAssumption DEF IInv, TypeOK, KeyInv, Resolved,
         Proceed, resolve_user_email
    <2> QED
      BY <2>2, <2>3, <2>5, <2>6, <2>7 DEF IInv
  <1>2. CASE Proceed(r, "list") /\ UNCHANGED <<form, target, rowId>>
    <2>1. TypeOK'
      BY <1>2 DEF IInv, TypeOK, resolve_user_email, Proceed, gatewayVars,
                  Phases
    <2>2. TargetInv'
      BY <1>2 DEF IInv, TargetInv, Matches,
                  resolve_user_email, gatewayVars
    <2>3. AppliedInv'
      BY <1>2 DEF IInv, TypeOK, AppliedInv, resolve_user_email, Proceed
    <2>4. RowInv'
      BY <1>2 DEF IInv, TypeOK, RowInv, Proceed
    <2>5. form[r].clear
      BY <1>2 DEF resolve_user_email, Proceed, Finish, Resolved, IInv, TypeOK,
                  Phases
    <2>6. KeyInv'
      BY <1>2, <2>5 DEF IInv, TypeOK, KeyInv, Proceed
    <2> QED
      BY <2>1, <2>2, <2>3, <2>4, <2>6 DEF IInv
  <1>3. CASE Finish(r, "notApplied")
    BY <1>3, EndStep DEF resolve_user_email, IInv, TypeOK
  <1> QED
    BY <1>1, <1>2, <1>3 DEF resolve_user_email

LEMMA FindStep ==
  ASSUME IInv, NEW r \in Requests, find_spend_limit_id(r) PROVE IInv'
  <1>1. ASSUME NEW page \in Listings, NEW k \in Candidate(r, page),
               rowId' = [rowId EXCEPT ![r] = <<k, gen[k]>>],
               Proceed(r, "write"), UNCHANGED <<form, target>>
        PROVE  IInv'
    <2>1. k \in Keys
      BY DEF Candidate, Listings, RowKeys
    <2>2. TypeOK'
      BY <1>1, <2>1 DEF IInv, TypeOK, find_spend_limit_id, Proceed,
                        gatewayVars, Phases
    <2>3. TargetInv'
      BY <1>1 DEF IInv, TargetInv, Matches,
                  find_spend_limit_id, gatewayVars
    <2>4. AppliedInv'
      BY <1>1 DEF IInv, TypeOK, AppliedInv, find_spend_limit_id, Proceed
    <2>5. RowInv'
      BY <1>1 DEF IInv, TypeOK, RowInv, Proceed, Candidate
    <2>6. KeyInv'
      BY <1>1 DEF IInv, TypeOK, KeyInv, Proceed, find_spend_limit_id, Refused
    <2> QED
      BY <2>2, <2>3, <2>4, <2>5, <2>6 DEF IInv
  <1>2. CASE Finish(r, "notApplied")
    BY <1>2, EndStep DEF find_spend_limit_id, IInv, TypeOK
  <1> QED
    BY <1>1, <1>2 DEF find_spend_limit_id

LEMMA WriteStep ==
  ASSUME IInv, NEW r \in Requests, Write(r) PROVE IInv'
  <1>1. ASSUME Change(r), applied' = applied \cup {r},
               NEW told \in {"done", "failed", Lost}, Finish(r, told),
               audit_admin(r, told)
        PROVE  IInv'
    <2>1. /\ amount' \in [Keys -> Amounts \cup {Unlimited, NoCap}]
          /\ gen' \in [Keys -> Nat]
      <3>1. Scope(r) \in Keys /\ form[r].amount \in Amounts
            /\ rowId[r][1] \in Keys
        BY Shapes DEF IInv, TypeOK, Scope, Forms
      <3>2. CASE form[r].clear
        BY <1>1, <3>1, <3>2 DEF IInv, TypeOK, Change, Delete
      <3>3. CASE ~form[r].clear
        <4>1. Post(Scope(r), form[r].amount)
          BY <1>1, <3>3 DEF Change
        <4> QED
          BY <3>1, <4>1 DEF IInv, TypeOK, Post
      <3> QED
        BY <3>2, <3>3
    <2>2. TypeOK'
      <3>1. /\ audited' \in [Requests -> Lines]
            /\ \A q \in Requests : audited'[q] = "success" => q \in applied'
        BY <1>1 DEF audit_admin, Lines, IInv, TypeOK
      <3> QED
        BY <1>1, <2>1, <3>1, FinishType DEF IInv, TypeOK, Write, Answers, Lost
    <2>3. TargetInv'
      BY <1>1 DEF IInv, TypeOK, TargetInv, Matches,
                  Finish, Write
    <2>4. AppliedInv'
      BY <1>1 DEF IInv, TypeOK, AppliedInv, Finish, Lost
    <2>5. RowInv'
      BY <1>1 DEF IInv, TypeOK, RowInv, Finish
    <2>6. KeyInv'
      BY <1>1 DEF IInv, TypeOK, KeyInv, Finish
    <2> QED
      BY <2>2, <2>3, <2>4, <2>5, <2>6 DEF IInv
  <1>2. ASSUME NEW told \in {"denied", "failed", Lost}, Finish(r, told),
               audit_admin(r, told), UNCHANGED <<amount, gen, applied>>
        PROVE  IInv'
    <2>1. /\ audited' \in [Requests -> Lines]
          /\ \A q \in Requests : audited'[q] = "success" => q \in applied
      BY <1>2 DEF audit_admin, Lost, Lines, IInv, TypeOK
    <2> QED
      BY <1>2, <2>1, EndStep DEF Write, Lost, IInv, TypeOK, gatewayVars
  <1> QED
    BY <1>1, <1>2 DEF Write

LEMMA NextInv == IInv /\ [Next]_vars => IInv'
  <1> SUFFICES ASSUME IInv, [Next]_vars PROVE IInv'
    OBVIOUS
  <1>1. CASE UNCHANGED vars
    BY <1>1 DEF IInv, TypeOK, TargetInv, AppliedInv, RowInv, KeyInv,
                Matches, vars, gatewayVars
  <1> QED
    BY <1>1, SignInStep, SubmitStep, SubmitRowStep, NotConnectedStep,
       ResolveStep, FindStep, WriteStep DEF Next

-----------------------------------------------------------------------------
\* Inductive invariant: what the requests at work, the table and the answers
\* have to do with each other, whatever the admins and the gateway do.
THEOREM Invariance == Spec => []IInv
  BY InitInv, NextInv, PTL DEF Spec

\* Every variable keeps its type, and only changes that were made are logged
\* as successes.
THEOREM TypeCorrect == Spec => []TypeOK
  <1>1. IInv => TypeOK
    BY DEF IInv
  <1> QED
    BY <1>1, Invariance, PTL

\* The only step that names a person names the one that every other request
\* at work already acts on, as long as the search shows every match.
LEMMA PersonStep ==
  ASSUME SearchFits, IInv, OneAddressOnePerson, [Next]_vars
  PROVE  OneAddressOnePerson'
  <1> USE DEF IInv, TypeOK, OneAddressOnePerson
  <1>1. ASSUME NEW q \in Requests, target' = [target EXCEPT ![q] = NoId]
        PROVE  OneAddressOnePerson'
    BY <1>1
  <1>2. ASSUME UNCHANGED target PROVE OneAddressOnePerson'
    BY <1>2
  <1>3. ASSUME NEW q \in Requests, NEW p \in Matches, {p} \in Searches,
               Resolved(q, p)
        PROVE  OneAddressOnePerson'
    <2>1. Matches = {p}
      BY <1>3 DEF Searches
    <2>2. \A r \in Requests : target'[r] \in {p, NoId}
      BY <1>3, <2>1 DEF TargetInv, Resolved
    <2> QED
      BY <2>2
  <1>4. ASSUME NEW q \in Requests, resolve_user_email(q)
        PROVE  OneAddressOnePerson'
    BY <1>1, <1>2, <1>3, <1>4 DEF resolve_user_email, Finish
  <1> QED
    BY <1>1, <1>2, <1>4 DEF Next, vars, SignIn, Submit, SubmitRow,
       NotConnected, find_spend_limit_id, Write, Finish

\* Requests at work for one address act on one person, however many people
\* sign in with it meanwhile, where no search matches more users than a page
\* holds (resolve_user_email).
THEOREM OnePersonPerAddress ==
  ASSUME SearchFits
  PROVE  Spec => []OneAddressOnePerson
  <1>1. Init => OneAddressOnePerson
    BY DEF Init, OneAddressOnePerson
  <1>2. IInv /\ OneAddressOnePerson /\ [Next]_vars => OneAddressOnePerson'
    BY PersonStep
  <1> QED
    BY <1>1, <1>2, Invariance, PTL DEF Spec

\* No admin is told "not applied", or "refused" with a status below 500, of a
\* change that was made, nor "Done" of one that was not, although an answer may
\* be lost or replaced by a load balancer's (_admin_mutate, _http).
THEOREM AnswersAreHonest == Spec => []AnswerHonest
  <1>1. IInv => AnswerHonest
    BY DEF IInv, AppliedInv, AnswerHonest
  <1> QED
    BY <1>1, Invariance, PTL

\* A request is carried out by its Write and by nothing else.
LEMMA OnlyWriteApplies ==
  ASSUME [Next]_vars, NEW r \in applied' \ applied
  PROVE  r \in Requests /\ Write(r) /\ Change(r)
  <1>1. CASE UNCHANGED vars
    BY <1>1 DEF vars
  <1>2. ASSUME NEW p \in Principals, SignIn(p) PROVE FALSE
    BY <1>2 DEF SignIn
  <1>3. ASSUME NEW q \in Requests, NEW f \in Forms, Submit(q, f) PROVE FALSE
    BY <1>3 DEF Submit
  <1>4. ASSUME NEW q \in Requests, NEW k \in Keys, NEW n \in 1 .. gen[k],
               SubmitRow(q, k, n)
        PROVE  FALSE
    BY <1>4 DEF SubmitRow
  <1>5. ASSUME NEW q \in Requests, NotConnected(q) PROVE FALSE
    BY <1>5 DEF NotConnected
  <1>6. ASSUME NEW q \in Requests, resolve_user_email(q) PROVE FALSE
    BY <1>6 DEF resolve_user_email
  <1>7. ASSUME NEW q \in Requests, find_spend_limit_id(q) PROVE FALSE
    BY <1>7 DEF find_spend_limit_id
  <1>8. ASSUME NEW q \in Requests, Write(q) PROVE q = r /\ Change(q)
    BY <1>8 DEF Write
  <1> QED
    BY <1>1, <1>2, <1>3, <1>4, <1>5, <1>6, <1>7, <1>8 DEF Next

\* A clear that is carried out takes away exactly one row, the one that was
\* looked up under the entered id or the resolved principal, even when other
\* admins removed or replaced rows since (find_spend_limit_id, DELETE by row id).
THEOREM ClearsWhatWasNamed == Spec => ClearRemovesNamed
  <1> DEFINE Named(r) ==
        /\ rowId[r][1] \in {form[r].key, User(target[r])}
        /\ RowExists(rowId[r])
        /\ amount' = [amount EXCEPT ![rowId[r][1]] = NoCap]
  <1>1. ASSUME IInv, [Next]_vars, NEW r \in applied' \ applied, form[r].clear
        PROVE  Named(r)
    <2>1. r \in Requests /\ Write(r) /\ Change(r)
      BY <1>1, OnlyWriteApplies
    <2> QED
      BY <1>1, <2>1 DEF IInv, RowInv, Write, Change, Delete
  <1>2. IInv /\ [Next]_vars =>
          [\A r \in applied' \ applied : form[r].clear => Named(r)]_vars
    BY <1>1
  <1> QED
    BY <1>2, Invariance, PTL DEF Spec, ClearRemovesNamed

\* Principals, addresses and bare subs make different keys.
LEMMA KeysDiffer ==
  /\ \A p \in Principals : User(p) \notin EmailKeys \cup BareKeys
  /\ EmailKeys \cap BareKeys = {}
  BY CapsAssumption DEF User, EmailKeys, BareKeys

\* The table changes by the Write of one request.
LEMMA OnlyWriteChanges ==
  ASSUME [Next]_vars, amount' # amount
  PROVE  \E r \in Requests : Write(r) /\ Change(r) /\ applied' = applied \cup {r}
  BY DEF Next, vars, gatewayVars, SignIn, Submit, SubmitRow, NotConnected,
         resolve_user_email, find_spend_limit_id, Write

\* What a set is about to write is an amount for a key the gateway applies.
LEMMA WrittenIsLive ==
  ASSUME IInv, NEW r \in Requests, Write(r), ~form[r].clear
  PROVE  /\ form[r].amount # Unlimited
         /\ Scope(r) \notin EmailKeys
         /\ Scope(r) \in BareKeys => form[r].via = "script"
  <1>1. form[r] \in Forms /\ phase[r] = "write" /\ r \notin applied
    BY DEF IInv, TypeOK, AppliedInv, Write
  <1>2. form[r].amount # Unlimited
    BY <1>1, CapsAssumption DEF Forms
  <1>3. CASE target[r] # NoId
    BY <1>2, <1>3, KeysDiffer DEF IInv, TypeOK, Scope
  <1>4. CASE target[r] = NoId
    BY <1>1, <1>2, <1>4 DEF IInv, KeyInv, Scope, Refused, Forms
  <1> QED
    BY <1>3, <1>4

\* No row is written that the gateway stores without applying it, and none
\* with a null amount, which would lift the cap (build_spend_limit_body).
THEOREM OnlyLiveCapsWritten == Spec => OnlyLiveCaps
  <1> DEFINE Live == \A k \in Keys : amount'[k] \notin {amount[k], NoCap} =>
                       /\ amount'[k] # Unlimited
                       /\ k \notin EmailKeys
                       /\ k \in BareKeys =>
                            \E r \in applied' \ applied : form[r].via = "script"
  <1>1. ASSUME IInv, [Next]_vars PROVE Live
    <2> SUFFICES ASSUME NEW k \in Keys, amount'[k] \notin {amount[k], NoCap}
                 PROVE  /\ amount'[k] # Unlimited
                        /\ k \notin EmailKeys
                        /\ k \in BareKeys => \E r \in applied' \ applied :
                                                form[r].via = "script"
      OBVIOUS
    <2>1. PICK r \in Requests : Write(r) /\ Change(r)
                                /\ applied' = applied \cup {r}
      BY <1>1, OnlyWriteChanges
    <2>2. r \in applied' \ applied
      BY <1>1, <2>1 DEF IInv, AppliedInv, Write
    <2>3. ~form[r].clear
      BY <1>1, <2>1 DEF Change, Delete, IInv, TypeOK
    <2>4. k = Scope(r) /\ amount'[k] = form[r].amount
      BY <1>1, <2>1, <2>3 DEF Change, Post, IInv, TypeOK
    <2> QED
      BY <1>1, <2>1, <2>2, <2>3, <2>4, WrittenIsLive
  <1>2. IInv /\ [Next]_vars => [Live]_vars
    BY <1>1
  <1> QED
    BY <1>2, Invariance, PTL DEF Spec, OnlyLiveCaps

\* "Done" is the answer of a Write that changed the table.
LEMMA OnlyWriteAnswersDone ==
  ASSUME IInv, [Next]_vars, NEW r \in Requests,
         answer'[r] = "done", answer[r] # "done"
  PROVE  Write(r) /\ Change(r)
  <1> USE DEF IInv, TypeOK
  <1>1. CASE UNCHANGED vars
    BY <1>1 DEF vars
  <1>2. ASSUME NEW p \in Principals, SignIn(p) PROVE FALSE
    BY <1>2 DEF SignIn
  <1>3. ASSUME NEW q \in Requests, NEW f \in Forms, Submit(q, f) PROVE FALSE
    BY <1>3 DEF Submit, Finish, Proceed
  <1>4. ASSUME NEW q \in Requests, NEW k \in Keys, NEW n \in 1 .. gen[k],
               SubmitRow(q, k, n)
        PROVE  FALSE
    BY <1>4 DEF SubmitRow, Proceed
  <1>5. ASSUME NEW q \in Requests, NotConnected(q) PROVE FALSE
    BY <1>5 DEF NotConnected, Finish
  <1>6. ASSUME NEW q \in Requests, resolve_user_email(q) PROVE FALSE
    BY <1>6 DEF resolve_user_email, Resolved, Finish, Proceed
  <1>7. ASSUME NEW q \in Requests, find_spend_limit_id(q) PROVE FALSE
    BY <1>7 DEF find_spend_limit_id, Finish, Proceed
  <1>8. ASSUME NEW q \in Requests, Write(q) PROVE q = r /\ Change(q)
    BY <1>8 DEF Write, Finish, Lost
  <1> QED
    BY <1>1, <1>2, <1>3, <1>4, <1>5, <1>6, <1>7, <1>8 DEF Next

\* "Done" for a cap set by an address: the person with that address is capped
\* at the entered amount, although the address was resolved by one call and
\* the cap written by another (resolve_user_email, _admin_mutate).
THEOREM SetsTakeEffect == Spec => SetTakesEffect
  <1> DEFINE Effect ==
        \A r \in Requests :
          /\ answer'[r] = "done" /\ answer[r] # "done"
          /\ ~form[r].clear /\ form[r].key \in EmailKeys
          => \E p \in Matches : amount'[User(p)] = form[r].amount
  <1>1. ASSUME IInv, [Next]_vars, NEW r \in Requests,
               answer'[r] = "done", answer[r] # "done",
               ~form[r].clear, form[r].key \in EmailKeys
        PROVE  \E p \in Matches : amount'[User(p)] = form[r].amount
    <2>1. Write(r) /\ Change(r)
      BY <1>1, OnlyWriteAnswersDone
    <2>2. target[r] # NoId /\ target[r] \in Matches
      BY <1>1, <2>1 DEF IInv, KeyInv, TargetInv, Write
    <2>3. target[r] \in Principals
      BY <2>2, <1>1 DEF IInv, TypeOK
    <2>4. amount'[User(target[r])] = form[r].amount
      BY <1>1, <2>1, <2>2, <2>3, Shapes
         DEF Change, Post, Scope, IInv, TypeOK
    <2> QED
      BY <2>2, <2>4
  <1>2. IInv /\ [Next]_vars => [Effect]_vars
    BY <1>1
  <1> QED
    BY <1>2, Invariance, PTL DEF Spec, SetTakesEffect

-----------------------------------------------------------------------------
(* Which row a clear finds.                                                *)

\* A table that fits a page is listed whole.
LEMMA ListedWhole ==
  ASSUME IsFiniteSet(RowKeys), Cardinality(RowKeys) <= PageSize,
         NEW page \in Listings
  PROVE  page = RowKeys
  <1>. SUFFICES ASSUME page # RowKeys PROVE FALSE
    OBVIOUS
  <1>1. page \in SUBSET RowKeys /\ Cardinality(page) = PageSize
    BY DEF Listings
  <1>2. /\ Cardinality(page) <= Cardinality(RowKeys)
        /\ Cardinality(RowKeys) = Cardinality(page) => RowKeys = page
    BY <1>1, FS_Subset
  <1>3. Cardinality(RowKeys) \in Nat /\ Cardinality(page) \in Nat
    BY <1>1, FS_CardinalityType, FS_Subset
  <1>. QED BY <1>1, <1>2, <1>3

\* Only the lookup leads from "list" to "write", and it picks one candidate.
LEMMA FoundByLookup ==
  ASSUME TypeOK, [Next]_vars, NEW r \in Requests,
         phase[r] = "list", phase'[r] = "write"
  PROVE  \E page \in Listings : \E k \in Candidate(r, page) : rowId'[r] = <<k, gen[k]>>
  <1> USE DEF TypeOK
  <1>1. CASE UNCHANGED vars
    BY <1>1 DEF vars
  <1>2. ASSUME NEW p \in Principals, SignIn(p) PROVE FALSE
    BY <1>2 DEF SignIn
  <1>3. ASSUME NEW q \in Requests, NEW f \in Forms, Submit(q, f) PROVE FALSE
    BY <1>3 DEF Submit, Finish, Proceed
  <1>4. ASSUME NEW q \in Requests, NEW k \in Keys, NEW n \in 1 .. gen[k],
               SubmitRow(q, k, n)
        PROVE  FALSE
    BY <1>4 DEF SubmitRow, Proceed
  <1>5. ASSUME NEW q \in Requests, NotConnected(q) PROVE FALSE
    BY <1>5 DEF NotConnected, Finish
  <1>6. ASSUME NEW q \in Requests, resolve_user_email(q) PROVE FALSE
    BY <1>6 DEF resolve_user_email, Resolved, Finish, Proceed
  <1>7. ASSUME NEW q \in Requests, find_spend_limit_id(q)
        PROVE  \E page \in Listings : \E k \in Candidate(r, page) :
                 rowId'[r] = <<k, gen[k]>>
    <2>1. q = r
      BY <1>7 DEF find_spend_limit_id, Finish, Proceed
    <2>. QED BY <1>7, <2>1 DEF find_spend_limit_id, Finish
  <1>8. ASSUME NEW q \in Requests, Write(q) PROVE FALSE
    BY <1>8 DEF Write, Finish
  <1> QED
    BY <1>1, <1>2, <1>3, <1>4, <1>5, <1>6, <1>7, <1>8 DEF Next

\* find_spend_limit_id: while the table fits a page, a clear takes the row of the
\* id as it was entered whenever there is one, and another row only then.
THEOREM EnteredRowFirst ==
  Spec => [][\A r \in Requests :
               /\ phase[r] = "list" /\ phase'[r] = "write"
               /\ IsFiniteSet(RowKeys) /\ Cardinality(RowKeys) <= PageSize
               /\ form[r].key \in RowKeys
               => rowId'[r][1] = form[r].key]_vars
  <1>. DEFINE Entered == \A r \in Requests :
               /\ phase[r] = "list" /\ phase'[r] = "write"
               /\ IsFiniteSet(RowKeys) /\ Cardinality(RowKeys) <= PageSize
               /\ form[r].key \in RowKeys
               => rowId'[r][1] = form[r].key
  <1>1. TypeOK /\ [Next]_vars => [Entered]_vars
    <2>. SUFFICES ASSUME TypeOK, [Next]_vars, NEW r \in Requests,
                         phase[r] = "list", phase'[r] = "write",
                         IsFiniteSet(RowKeys), Cardinality(RowKeys) <= PageSize,
                         form[r].key \in RowKeys
                  PROVE  rowId'[r][1] = form[r].key
      OBVIOUS
    <2>1. PICK page \in Listings : \E k \in Candidate(r, page) : rowId'[r] = <<k, gen[k]>>
      BY FoundByLookup
    <2>2. page = RowKeys
      BY ListedWhole
    <2>. QED BY <2>1, <2>2 DEF Candidate
  <1>. QED BY <1>1, TypeCorrect, PTL DEF Spec

\* The promise of find_spend_limit_id's comment, where its two conditions hold: an
\* address is spelt in one way, and there are no more rows than a page holds.
THEOREM LegacyRowsFoundFirst ==
  ASSUME \A e, f \in Emails : e = f,
         IsFiniteSet(Keys), Cardinality(Keys) <= PageSize
  PROVE  Spec => LegacyRowFirst
  <1>. DEFINE First == \A r \in Requests :
                /\ phase[r] = "list" /\ phase'[r] = "write"
                /\ form[r].key \in EmailKeys /\ rowId'[r][1] \notin EmailKeys
                => RowKeys \cap EmailKeys = {}
  <1>1. TypeOK /\ [Next]_vars => [First]_vars
    <2>. SUFFICES ASSUME TypeOK, [Next]_vars, NEW r \in Requests,
                         phase[r] = "list", phase'[r] = "write",
                         form[r].key \in EmailKeys, rowId'[r][1] \notin EmailKeys,
                         NEW k \in RowKeys \cap EmailKeys
                  PROVE  FALSE
      OBVIOUS
    <2>1. IsFiniteSet(RowKeys) /\ Cardinality(RowKeys) <= Cardinality(Keys)
      BY FS_Subset DEF RowKeys
    <2>2. Cardinality(RowKeys) <= PageSize
      BY <2>1, FS_CardinalityType, CapsAssumption
    <2>3. k = form[r].key
      BY DEF EmailKeys
    <2>4. PICK page \in Listings : \E c \in Candidate(r, page) : rowId'[r] = <<c, gen[c]>>
      BY FoundByLookup
    <2>5. page = RowKeys
      BY <2>1, <2>2, ListedWhole
    <2>6. rowId'[r][1] = form[r].key
      BY <2>3, <2>4, <2>5 DEF Candidate
    <2>. QED BY <2>6
  <1>. QED BY <1>1, TypeCorrect, PTL DEF Spec, LegacyRowFirst

=============================================================================
