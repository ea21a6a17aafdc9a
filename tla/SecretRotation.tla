--------------------------- MODULE SecretRotation ---------------------------
(***************************************************************************)
(* Alternating-users rotation of the gateway's database credential:        *)
(* src/docker/db-admin/app.py, rotate_handler, with the services it talks  *)
(* to (Secrets Manager, PostgreSQL, ECS) modelled from the calls it makes. *)
(*                                                                         *)
(* Every password is drawn fresh and stored at most once, so a password is *)
(* named by the secret version it was drawn for: the credential of version *)
(* v is the pair <<verUser[v], v>>.                                        *)
(***************************************************************************)
EXTENDS Naturals

CONSTANTS
  Tokens,        \* ClientRequestTokens of the rotations, = their version ids
  Seeds,         \* the versions not made by a rotation
  NoVersion,     \* no version / no role in the database
  Workers,       \* Lambda execution environments that can run at once
  Tasks,         \* gateway tasks of the ECS service
  MaxFaults,     \* bound: crashes and repeated deliveries
  RollFirst,     \* a new rotation waits until every task holds AWSCURRENT
  AllowAbandon   \* the operator may strip AWSPENDING off an open rotation

Versions == Tokens \cup Seeds

ASSUME ConstantAssumption ==
  /\ Seeds # {} /\ Seeds \cap Tokens = {}
  /\ NoVersion \notin Versions
  /\ MaxFaults \in Nat
  /\ RollFirst \in BOOLEAN
  /\ AllowAbandon \in BOOLEAN

APP_USERS == <<"gateway_app", "gateway_app_clone">>
Users == {APP_USERS[1], APP_USERS[2]}
NoUser == "no username"    \* the version does not exist, or has no such key

\* Faulty: rotates in place instead of alternating.
_other_user_InPlace(u) == u

_other_user(u) == IF u = APP_USERS[1] THEN APP_USERS[2] ELSE APP_USERS[1]

CreateSecret == 1
SetSecret    == 2
TestSecret   == 3
FinishSecret == 4
Finished     == 5          \* all four steps answered
NoStep       == 0          \* no rotation open
Steps == CreateSecret .. FinishSecret
\* The steps that may be delivered again after a later rotation was opened.
\* Not finishSecret, which looks at no label but AWSCURRENT (see
\* OnlyPendingPromoted): so late, it would promote a retired version.
LateSteps == CreateSecret .. TestSecret

VARIABLES
  verUser,    \* version -> the username stored in it
  current,    \* the version labelled AWSCURRENT
  pending,    \* the version labelled AWSPENDING
  previous,   \* the version labelled AWSPREVIOUS
  rolePw,     \* user -> the version whose password the database accepts
  rotToken,   \* the rotation Secrets Manager opened last
  rotStep,    \* the step of it that has not been answered yet
  pc,         \* worker -> the call it makes next
  step,       \* worker -> event["Step"]
  token,      \* worker -> event["ClientRequestToken"]
  seen,       \* worker -> the AWSCURRENT version in its describe_secret
  user,       \* worker -> the username it read or computed
  held,       \* task -> the version injected when it started
  stale,      \* the tasks an open deployment still has to replace
  faults      \* crashes and repeated deliveries so far

secretVars == <<verUser, current, pending, previous>>
rotVars    == <<rotToken, rotStep>>
jobVars    == <<step, token, seen, user>>
ecsVars    == <<held, stale>>
vars == <<secretVars, rolePw, rotVars, pc, jobVars, ecsVars, faults>>

PCs == {"idle", "describe", "readPending", "readCurrent", "put", "alter",
        "connect", "move", "roll", "return"}

\* The database accepts the credential stored in version v.
Usable(v) == verUser[v] \in Users /\ rolePw[verUser[v]] = v

NothingRunning ==
  /\ rotToken = NoVersion
  /\ rotStep = NoStep
  /\ pc = [w \in Workers |-> "idle"]
  /\ step = [w \in Workers |-> CreateSecret]
  /\ token = [w \in Workers |-> NoVersion]
  /\ seen = [w \in Workers |-> NoVersion]
  /\ user = [w \in Workers |-> NoUser]
  /\ stale = {}
  /\ faults = 0

\* A bootstrapped deployment, its tasks on the credential bootstrap wrote.
Init ==
  /\ current \in Seeds
  /\ verUser = [v \in Versions |-> IF v = current THEN APP_USERS[1] ELSE NoUser]
  /\ pending = NoVersion
  /\ previous = NoVersion
  /\ rolePw = [u \in Users |-> current]
  /\ held = [k \in Tasks |-> current]
  /\ NothingRunning

-----------------------------------------------------------------------------
(* Secrets Manager and the operator (external).                            *)

\* An invocation is still running when the next rotation is opened only while
\* its version is the live one: the function times out after 120 s.
NoStragglers == \A w \in Workers : pc[w] # "idle" => token[w] = current

\* RotateSecret (scheduled or by hand) is refused while AWSPENDING is on a
\* version that is not AWSCURRENT.
StartRotation(t) ==
  /\ t # rotToken
  /\ verUser[t] = NoUser
  /\ pending \in {NoVersion, current}
  /\ NoStragglers
  /\ RollFirst => \A k \in Tasks : held[k] = current
  /\ rotToken' = t
  /\ rotStep' = CreateSecret
  /\ UNCHANGED <<secretVars, rolePw, pc, jobVars, ecsVars, faults>>

Deliver(w, t, s) ==
  /\ pc[w] = "idle"
  /\ pc' = [pc EXCEPT ![w] = "describe"]
  /\ step' = [step EXCEPT ![w] = s]
  /\ token' = [token EXCEPT ![w] = t]
  /\ UNCHANGED <<secretVars, rolePw, rotVars, seen, user, ecsVars>>

\* The next step, and again after a step that raised or died.
Invoke(w) ==
  /\ rotStep \in Steps
  /\ \A x \in Workers : pc[x] # "idle" => token[x] # rotToken
  /\ Deliver(w, rotToken, rotStep)
  /\ UNCHANGED faults

\* A repeated or late delivery of a step already sent, in this rotation or in
\* any earlier one that made its version.
Redeliver(w, t, s) ==
  /\ \/ t = rotToken /\ s <= rotStep
     \/ t # rotToken /\ verUser[t] # NoUser /\ s \in LateSteps
  /\ faults < MaxFaults
  /\ faults' = faults + 1
  /\ Deliver(w, t, s)

\* AWSPENDING on a version other than AWSCURRENT is an unfinished rotation,
\* which the service drives again from the first step.
Reattempt ==
  /\ rotStep = Finished
  /\ pending = rotToken
  /\ current # rotToken
  /\ rotStep' = CreateSecret
  /\ UNCHANGED <<secretVars, rolePw, rotToken, pc, jobVars, ecsVars, faults>>

\* om-runbooks, "abandon an in-flight AWSPENDING version".
Abandon ==
  /\ AllowAbandon
  /\ pending \notin {NoVersion, current}
  /\ pending' = NoVersion
  /\ rotStep' = NoStep
  /\ UNCHANGED <<verUser, current, previous, rolePw, rotToken, pc, jobVars,
                 ecsVars, faults>>

-----------------------------------------------------------------------------
(* rotate_handler, one step per call to AWS or to the database.            *)

Goto(w, l) == pc' = [pc EXCEPT ![w] = l]
Raise(w)   == Goto(w, "idle")

\* Faulty: finishSecret returns early too once the label has moved.
Describe_EarlyReturn(w) ==
  /\ pc[w] = "describe"
  /\ seen' = [seen EXCEPT ![w] = current]
  /\ Goto(w, CASE token[w] = current -> "return"
               [] token[w] # current /\ step[w] = FinishSecret -> "move"
               [] OTHER -> "readPending")
  /\ UNCHANGED <<secretVars, rolePw, rotVars, step, token, user, ecsVars,
                 faults>>

Describe(w) ==
  /\ pc[w] = "describe"
  /\ seen' = [seen EXCEPT ![w] = current]
  /\ Goto(w, CASE step[w] = FinishSecret -> "move"
               [] step[w] # FinishSecret /\ token[w] = current -> "return"
               [] OTHER -> "readPending")
  /\ UNCHANGED <<secretVars, rolePw, rotVars, step, token, user, ecsVars,
                 faults>>

\* Faulty: asks for the version only.
_pending_AnyStage(w) == verUser[token[w]] # NoUser

\* _pending asks for the version AND the label.
_pending(w) == pending = token[w]

\* Faulty: createSecret does not look for its own earlier version.
ReadPending_NoRetry(w) ==
  /\ pc[w] = "readPending"
  /\ \/ /\ step[w] = CreateSecret
        /\ Goto(w, "readCurrent")
        /\ UNCHANGED user
     \/ /\ step[w] # CreateSecret
        /\ _pending(w)
        /\ user' = [user EXCEPT ![w] = verUser[token[w]]]
        /\ Goto(w, IF step[w] = SetSecret THEN "alter" ELSE "connect")
     \/ /\ step[w] # CreateSecret
        /\ ~_pending(w)
        /\ Raise(w)
        /\ UNCHANGED user
  /\ UNCHANGED <<secretVars, rolePw, rotVars, step, token, seen, ecsVars,
                 faults>>

ReadPending(w) ==
  /\ pc[w] = "readPending"
  /\ \/ /\ step[w] = CreateSecret
        /\ Goto(w, IF _pending(w) THEN "return" ELSE "readCurrent")
        /\ UNCHANGED user
     \/ /\ step[w] # CreateSecret
        /\ _pending(w)
        /\ user' = [user EXCEPT ![w] = verUser[token[w]]]
        /\ Goto(w, IF step[w] = SetSecret THEN "alter" ELSE "connect")
     \/ /\ step[w] # CreateSecret
        /\ ~_pending(w)
        /\ Raise(w)
        /\ UNCHANGED user
  /\ UNCHANGED <<secretVars, rolePw, rotVars, step, token, seen, ecsVars,
                 faults>>

\* No rotation is configured before the bootstrap wrote a username.
ReadCurrent(w) ==
  /\ pc[w] = "readCurrent"
  /\ user' = [user EXCEPT ![w] = _other_user(verUser[current])]
  /\ Goto(w, "put")
  /\ UNCHANGED <<secretVars, rolePw, rotVars, step, token, seen, ecsVars,
                 faults>>

\* A second put under the same token has another random password: refused.
PutPending(w) ==
  /\ pc[w] = "put"
  /\ \/ /\ verUser[token[w]] = NoUser
        /\ verUser' = [verUser EXCEPT ![token[w]] = user[w]]
        /\ pending' = token[w]
        /\ Goto(w, "return")
     \/ /\ verUser[token[w]] # NoUser
        /\ Raise(w)
        /\ UNCHANGED <<verUser, pending>>
  /\ UNCHANGED <<current, previous, rolePw, rotVars, jobVars, ecsVars, faults>>

\* Faulty: sets the new password on the user that is live.
AlterRole_LiveUser(w) ==
  /\ pc[w] = "alter"
  /\ rolePw' = [rolePw EXCEPT ![_other_user(user[w])] = token[w]]
  /\ Goto(w, "return")
  /\ UNCHANGED <<secretVars, rotVars, jobVars, ecsVars, faults>>

AlterRole(w) ==
  /\ pc[w] = "alter"
  /\ \/ /\ rolePw[user[w]] # NoVersion
        /\ rolePw' = [rolePw EXCEPT ![user[w]] = token[w]]
        /\ Goto(w, "return")
     \/ /\ rolePw[user[w]] = NoVersion
        /\ Raise(w)
        /\ UNCHANGED rolePw
  /\ UNCHANGED <<secretVars, rotVars, jobVars, ecsVars, faults>>

Connect(w) ==
  /\ pc[w] = "connect"
  /\ Goto(w, IF rolePw[user[w]] = token[w] THEN "return" ELSE "idle")
  /\ UNCHANGED <<secretVars, rolePw, rotVars, jobVars, ecsVars, faults>>

\* update_secret_version_stage refuses a RemoveFromVersionId that no longer
\* carries the label; AWSPREVIOUS follows the version that lost AWSCURRENT.
\* The plain attach of the code, for a secret on which no version carries
\* AWSCURRENT, is the second case with seen[w] = current = NoVersion; a
\* bootstrapped secret is never in that state.
MoveCurrent(w) ==
  /\ pc[w] = "move"
  /\ \/ /\ seen[w] = token[w]
        /\ Goto(w, "roll")
        /\ UNCHANGED <<current, previous>>
     \/ /\ seen[w] # token[w]
        /\ seen[w] = current
        /\ current' = token[w]
        /\ previous' = current
        /\ Goto(w, "roll")
     \/ /\ seen[w] # token[w]
        /\ seen[w] # current
        /\ Raise(w)
        /\ UNCHANGED <<current, previous>>
  /\ UNCHANGED <<verUser, pending, rolePw, rotVars, jobVars, ecsVars, faults>>

\* ecs.update_service(forceNewDeployment=True)
RollService(w) ==
  /\ pc[w] = "roll"
  /\ stale' = Tasks
  /\ Goto(w, "return")
  /\ UNCHANGED <<secretVars, rolePw, rotVars, jobVars, held, faults>>

\* Faulty: a repeated step counts as the next one.
Return_Miscounted(w) ==
  /\ pc[w] = "return"
  /\ Goto(w, "idle")
  /\ rotStep' = IF token[w] = rotToken THEN rotStep + 1 ELSE rotStep
  /\ UNCHANGED <<secretVars, rolePw, rotToken, jobVars, ecsVars, faults>>

\* The invocation succeeds and Secrets Manager moves on to the next step.
Return(w) ==
  /\ pc[w] = "return"
  /\ Goto(w, "idle")
  /\ rotStep' = IF token[w] = rotToken /\ step[w] = rotStep
                THEN rotStep + 1 ELSE rotStep
  /\ UNCHANGED <<secretVars, rolePw, rotToken, jobVars, ecsVars, faults>>

\* A call that fails, a timeout, or a success whose answer is lost.
Crash(w) ==
  /\ pc[w] # "idle"
  /\ faults < MaxFaults
  /\ faults' = faults + 1
  /\ Goto(w, "idle")
  /\ UNCHANGED <<secretVars, rolePw, rotVars, jobVars, ecsVars>>

Handler(w) ==
  \/ Describe(w) \/ ReadPending(w) \/ ReadCurrent(w) \/ PutPending(w)
  \/ AlterRole(w) \/ Connect(w) \/ MoveCurrent(w) \/ RollService(w)
  \/ Return(w)

-----------------------------------------------------------------------------
(* ECS (external): a new task reads AWSCURRENT and must pass its health    *)
(* check, which needs the database, before an old one is stopped.          *)
StartTask(k) ==
  /\ Usable(current)
  /\ held' = [held EXCEPT ![k] = current]
  /\ stale' = stale \ {k}
  /\ UNCHANGED <<secretVars, rolePw, rotVars, pc, jobVars, faults>>

Next ==
  \/ \E t \in Tokens : StartRotation(t)
  \/ Reattempt
  \/ Abandon
  \/ \E w \in Workers :
       \/ Invoke(w)
       \/ \E t \in Tokens, s \in Steps : Redeliver(w, t, s)
       \/ Handler(w)
       \/ Crash(w)
  \/ \E k \in Tasks : StartTask(k)

\* Lambda runs what it was given, Secrets Manager retries what did not
\* succeed, and ECS carries out a deployment it accepted.
Fairness ==
  /\ \A w \in Workers : WF_vars(Handler(w))
  /\ WF_vars(\E w \in Workers : Invoke(w))
  /\ WF_vars(Reattempt)
  /\ \A k \in Tasks : WF_vars(k \in stale /\ StartTask(k))

Spec == Init /\ [][Next]_vars
FairSpec == Spec /\ Fairness

-----------------------------------------------------------------------------
TypeOK ==
  /\ verUser \in [Versions -> Users \cup {NoUser}]
  /\ current \in Versions
  /\ pending \in Versions \cup {NoVersion}
  /\ previous \in Versions \cup {NoVersion}
  /\ rolePw \in [Users -> Versions \cup {NoVersion}]
  /\ rotToken \in Tokens \cup {NoVersion}
  /\ rotStep \in NoStep .. Finished
  /\ pc \in [Workers -> PCs]
  /\ step \in [Workers -> Steps]
  /\ token \in [Workers -> Tokens \cup {NoVersion}]
  /\ seen \in [Workers -> Versions \cup {NoVersion}]
  /\ user \in [Workers -> Users \cup {NoUser}]
  /\ held \in [Tasks -> Versions \cup {NoVersion}]
  /\ stale \in SUBSET Tasks
  /\ faults \in 0 .. MaxFaults

\* A task that starts now can log in: whatever steps were repeated, lost or
\* overlapped, the database accepts the credential labelled AWSCURRENT.
CurrentUsable == Usable(current)

\* "the previous credential stays valid until the next rotation": once the
\* label has moved, the credential it left still works until another
\* rotation has put its own pending version.
PreviousUsable ==
  previous # NoVersion /\ pending = current => Usable(previous)

\* No running task holds a credential the database refuses.
NoDeadCredential == \A k \in Tasks : held[k] # NoVersion => Usable(held[k])

\* The label only ever moves to the other database user, never to a second
\* password of the same one.
Alternates == [][current' # current => verUser[current'] # verUser[current]]_vars

\* A password the database has stopped accepting is never installed again,
\* neither by a setSecret of the rotation before nor by one that is delivered
\* several rotations late (the version of the rotation opened last may not have
\* been installed yet).
RetiredStaysRetired ==
  [][\A v \in Versions :
       verUser[v] # NoUser /\ v # rotToken /\ ~Usable(v) => ~(Usable(v))']_vars

\* An invocation of the open rotation that raises although no call failed had
\* nothing left to do: its version is live or has been, another invocation
\* stored the version it was to create, or the operator abandoned the rotation.
\* setSecret and testSecret, in particular, never fail for a password or a label
\* that another invocation, of this rotation or of an earlier one, has changed.
RaisesHarmlessly ==
  [][\A w \in Workers :
       /\ token[w] = rotToken
       /\ pc[w] \notin {"idle", "return"} /\ pc'[w] = "idle" /\ faults' = faults
       => \/ token[w] \in {current, previous}
          \/ step[w] = CreateSecret /\ pending = token[w]
          \/ rotStep = NoStep]_vars

\* Only the version labelled AWSPENDING is ever promoted, so stripping that
\* label abandons a rotation without applying it.
OnlyPendingPromoted == [][current' # current => pending = current']_vars

\* An opened rotation ends: all four steps are answered or it is abandoned.
RotationCompletes == (rotStep \in Steps) ~> (rotStep \notin Steps)

\* The tasks end up on the credential that became current, unless another
\* version replaces it first: a lost or failed roll is made again.
ServiceCatchesUp ==
  \A v \in Versions :
    (current = v) ~> (current # v \/ \A k \in Tasks : held[k] = v)

-----------------------------------------------------------------------------
(* The promise it implements: the live credential is the one in AWSCURRENT *)
(* and the database accepts one password for each of the two users.        *)
Credential(v) == <<verUser[v], v>>

Promise == INSTANCE LiveCredential WITH
  Credentials <- Users \X Versions,
  Clients     <- Tasks,
  live        <- Credential(current),
  accepted    <- {<<u, rolePw[u]>> : u \in Users},
  holds       <- [k \in Tasks |-> Credential(held[k])]

\* Provided a rotation waits for the tasks to catch up, every step of the
\* rotation, with its retries, duplicates and crashes, is a step of the
\* promise, in which nobody is ever locked out.
KeepsPromise == Promise!Spec

=============================================================================
