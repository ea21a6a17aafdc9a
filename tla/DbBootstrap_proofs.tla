-------------------------- MODULE DbBootstrap_proofs --------------------------
(***************************************************************************)
(* Bootstraps and rotations of one secret, for any number of either.       *)
(***************************************************************************)
EXTENDS DbBootstrap, SecretRotation_proofs

(* Until the bootstrap has written the first secret nothing rotates; from   *)
(* then on the invariant of the rotation holds, bootstraps notwithstanding. *)

Unwritten ==
  /\ ~deployed
  /\ \A v \in Versions : verUser[v] = NoUser
  /\ pending = NoVersion /\ previous = NoVersion
  /\ rotToken = NoVersion /\ rotStep = NoStep
  /\ \A w \in Workers : pc[w] = "idle"
  /\ \A k \in Tasks : held[k] = NoVersion

SecretInv == IF Initialized THEN LabelInv /\ RotationInv /\ WorkerInv /\ TaskInv
                            ELSE Unwritten

\* The rotations write their own versions only.
OneSeed == \A a, b \in Seeds : verUser[a] # NoUser /\ verUser[b] # NoUser => a = b

BothRoles == \A u \in Users : rolePw[u] # NoVersion

\* What a bootstrap knows that makes the first secret.
FirstInv ==
  /\ bpc = "check" => live = NoVersion
  /\ bpc \in {"role1", "role2", "put"} => live = NoVersion
  /\ bpc \in {"role1", "role2", "put", "adopt"} /\ live = NoVersion => ~Initialized
  /\ bpc = "role2" => rolePw[APP_USERS[1]] = draw
  /\ bpc \in {"adopt", "put"} /\ live = NoVersion => \A u \in Users : rolePw[u] = draw
  /\ bpc = "put" => adopted
  /\ bpc # "idle" => draw \in Seeds

\* What one knows that converges: until it has asserted the password it read,
\* no second rotation is opened.
ConvergeInv ==
  /\ bpc = "readLive" => Initialized
  /\ bpc = "adopt" /\ live # NoVersion => Initialized /\ BothRoles
  /\ bpc \in {"liveRole", "findOther", "otherRole"} =>
       Initialized /\ live \in Versions /\ verUser[live] \in Users
  /\ bpc = "liveRole" => live \in {Base, rotToken} /\ Usable(live)
  /\ bpc \in {"findOther", "otherRole"} => rolePw[verUser[live]] # NoVersion
  /\ bpc = "otherRole" => rolePw[_other_user(verUser[live])] = NoVersion

Ready == Initialized /\ BothRoles /\ adopted

AnswerInv ==
  /\ bpc = "success" /\ request # "Delete" => Ready
  /\ cfn = "success" /\ request # "Delete" => Ready

BInv == BTypeOK /\ SecretInv /\ OneSeed /\ FirstInv /\ ConvergeInv /\ AnswerInv

USE DEF CreateSecret, SetSecret, TestSecret, FinishSecret, Finished, NoStep, Steps

-----------------------------------------------------------------------------
LEMMA BootInit == BInit => BInv
  <1> SUFFICES ASSUME BInit PROVE BInv
    OBVIOUS
  <1> USE ConstantAssumption, UserFacts DEF BInit, NothingRunning
  <1>1. current \in Seeds /\ current \in Versions /\ current # NoVersion
    BY DEF Versions
  <1> DEFINE Types ==
        /\ verUser \in [Versions -> Users \cup {NoUser}]
        /\ rolePw \in [Users -> Versions \cup {NoVersion}]
        /\ held \in [Tasks -> Versions \cup {NoVersion}]
        /\ deployed \in BOOLEAN /\ adopted \in BOOLEAN
  <1>2. Types => BTypeOK
    BY <1>1 DEF BTypeOK, TypeOK, PCs, BootPCs
  <1>5. Types /\ OneSeed
    <2>1. CASE FirstDeployment
      <3>1. /\ verUser = [v \in Versions |-> NoUser] /\ held = [k \in Tasks |-> NoVersion]
            /\ deployed = FALSE /\ adopted = FALSE
            /\ \E c \in {NoVersion, current} : rolePw = [u \in Users |-> c]
        BY <2>1 DEF FirstDeployment
      <3>2. rolePw \in [Users -> Versions \cup {NoVersion}] /\ OneSeed
        BY <1>1, <3>1 DEF OneSeed, Versions
      <3> QED
        BY <1>1, <3>1, <3>2
    <2>2. CASE LaterUpdate
      <3>1. /\ verUser = [v \in Versions |-> IF v = current THEN APP_USERS[1] ELSE NoUser]
            /\ held = [k \in Tasks |-> current]
            /\ deployed = TRUE /\ adopted = TRUE /\ APP_USERS[1] \in Users
            /\ \E c \in {NoVersion, current} :
                 rolePw = [u \in Users |-> IF u = APP_USERS[1] THEN current ELSE c]
        BY <2>2 DEF LaterUpdate, Users
      <3>2. rolePw \in [Users -> Versions \cup {NoVersion}]
        <4>1. PICK c \in {NoVersion, current} :
                rolePw = [u \in Users |-> IF u = APP_USERS[1] THEN current ELSE c]
          BY <3>1, Zenon
        <4>2. c \in Versions \cup {NoVersion}
          BY <1>1
        <4> QED
          BY <1>1, <4>1, <4>2
      <3>3. OneSeed
        <4>1. \A a \in Seeds : verUser[a] # NoUser => a = current
          BY <3>1 DEF Versions
        <4> QED
          BY <4>1 DEF OneSeed
      <3> QED
        BY <1>1, <3>1, <3>2, <3>3
    <2> QED
      BY <2>1, <2>2
  <1>3. SecretInv
    <2>1. CASE FirstDeployment
      BY <1>1, <2>1 DEF FirstDeployment, SecretInv, Unwritten, Initialized
    <2>2. CASE LaterUpdate
      <3>1. /\ Base = current /\ Usable(current) /\ Initialized
            /\ \A k \in Tasks : held[k] = current
        BY <1>1, <2>2 DEF LaterUpdate, Base, Usable, Initialized, Users, APP_USERS, NoUser
      <3>2. LabelInv
        BY <1>1, <3>1 DEF LabelInv
      <3>3. RotationInv
        BY DEF RotationInv
      <3>4. WorkerInv
        BY DEF WorkerInv, WorkerOK, Late, Flying
      <3>5. TaskInv
        BY <3>1 DEF TaskInv
      <3> QED
        BY <3>1, <3>2, <3>3, <3>4, <3>5 DEF SecretInv
    <2> QED
      BY <2>1, <2>2
  <1>4. FirstInv /\ ConvergeInv /\ AnswerInv
    BY DEF FirstInv, ConvergeInv, AnswerInv
  <1> QED
    BY <1>2, <1>5, <1>3, <1>4 DEF BInv

-----------------------------------------------------------------------------
(* The rotation beside the bootstrap.                                      *)

\* Before the first secret there is nothing to rotate.
LEMMA NothingRotates ==
  ASSUME TypeOK, Unwritten, Rotation
  PROVE  FALSE
  <1>1. ~(\E t \in Tokens : deployed /\ StartRotation(t)) /\ ~(\E k \in Tasks : deployed /\ StartTask(k))
    BY DEF Unwritten
  <1>2. ~Reattempt /\ ~Abandon
    BY DEF Unwritten, Reattempt, Abandon
  <1>3. ASSUME NEW w \in Workers, Invoke(w) PROVE FALSE
    BY <1>3 DEF Unwritten, Invoke
  <1>4. ASSUME NEW w \in Workers, NEW t \in Tokens, NEW s \in Steps,
               Redeliver(w, t, s)
        PROVE  FALSE
    BY <1>4, ConstantAssumption DEF Unwritten, Redeliver, Versions
  <1>5. ASSUME NEW w \in Workers, Handler(w) \/ Crash(w) PROVE FALSE
    BY <1>5
    DEF Unwritten, Handler, Crash, Describe, ReadPending, ReadCurrent, PutPending, AlterRole,
        Connect, MoveCurrent, RollService, Return
  <1> QED
    BY <1>1, <1>2, <1>3, <1>4, <1>5 DEF Rotation

\* What a step of the rotation leaves alone: usernames that are written, roles
\* that are missing, and the passwords of the last two credentials.
LEMMA RotationKeeps ==
  ASSUME IInv, [Next]_vars
  PROVE  /\ \A v \in Versions : verUser[v] # NoUser => verUser'[v] = verUser[v]
         /\ \A s \in Seeds : verUser'[s] = verUser[s]
         /\ \A u \in Users : rolePw'[u] = NoVersion <=> rolePw[u] = NoVersion
         /\ \A v \in Versions : v \in {Base, rotToken} /\ Usable(v) => Usable(v)'
         /\ rolePw'[verUser[current]] = rolePw[verUser[current]]
  <1>0. TypeOK /\ LabelInv /\ RotationInv /\ WorkerInv
    BY DEF IInv
  <1>1. ASSUME UNCHANGED <<verUser, rolePw>>
        PROVE  /\ \A v \in Versions : verUser[v] # NoUser => verUser'[v] = verUser[v]
               /\ \A s \in Seeds : verUser'[s] = verUser[s]
               /\ \A u \in Users : rolePw'[u] = NoVersion <=> rolePw[u] = NoVersion
               /\ \A v \in Versions : v \in {Base, rotToken} /\ Usable(v) => Usable(v)'
               /\ rolePw'[verUser[current]] = rolePw[verUser[current]]
    BY <1>1 DEF Usable
  <1>2. ASSUME NEW w \in Workers, PutPending(w), verUser' # verUser
        PROVE  /\ \A v \in Versions : verUser[v] # NoUser => verUser'[v] = verUser[v]
               /\ \A s \in Seeds : verUser'[s] = verUser[s]
               /\ rolePw' = rolePw
    <2>1. token[w] \in Tokens /\ pc[w] = "put"
      BY <1>0, <1>2, ConstantAssumption
      DEF PutPending, TypeOK, WorkerInv, WorkerOK, Late, Flying, Versions
    <2> QED
      BY <1>0, <1>2, <2>1, ConstantAssumption DEF PutPending, TypeOK, Versions
  <1>3. ASSUME NEW w \in Workers, AlterRole(w), rolePw' # rolePw
        PROVE  /\ verUser' = verUser
               /\ \A u \in Users : rolePw'[u] = NoVersion <=> rolePw[u] = NoVersion
               /\ \A v \in Versions : v \in {Base, rotToken} /\ Usable(v) => Usable(v)'
               /\ rolePw'[verUser[current]] = rolePw[verUser[current]]
    <2>1. /\ token[w] \in {rotToken, Base} /\ token[w] # NoVersion
          /\ user[w] \in Users /\ user[w] = verUser[token[w]]
          /\ rolePw' = [rolePw EXCEPT ![user[w]] = token[w]] /\ verUser' = verUser
          /\ rolePw[user[w]] # NoVersion
      BY <1>0, <1>3 DEF AlterRole, WorkerInv, WorkerOK, Late, Flying, secretVars
    <2>2. token[w] # Base
      BY <1>0, <1>3, <2>1 DEF LabelInv, Usable, TypeOK
    <2>3. ~Usable(rotToken) /\ current = Base /\ token[w] = rotToken
      BY <1>0, <1>3, <2>1, <2>2 DEF Usable, TypeOK, Base, LabelInv
    <2>4. verUser[rotToken] # verUser[Base] /\ verUser[Base] \in Users
      BY <1>0, <2>1, <2>3 DEF RotationInv, LabelInv, Usable
    <2> QED
      BY <1>0, <2>1, <2>3, <2>4 DEF Usable, TypeOK
  <1>4. \/ UNCHANGED <<verUser, rolePw>>
        \/ \E w \in Workers : PutPending(w) \/ AlterRole(w)
    <2>1. CASE \E w \in Workers : MoveCurrent(w)
      BY <2>1 DEF MoveCurrent
    <2> QED
      BY <2>1, OnlyHandlersWrite
  <1>5. CASE \E w \in Workers : PutPending(w)
    <2>1. PICK w \in Workers : PutPending(w)
      BY <1>5
    <2>2. CASE verUser' = verUser
      BY <1>1, <2>1, <2>2 DEF PutPending
    <2>3. CASE verUser' # verUser
      <3>1. /\ \A v \in Versions : verUser[v] # NoUser => verUser'[v] = verUser[v]
            /\ \A s \in Seeds : verUser'[s] = verUser[s]
            /\ rolePw' = rolePw
        BY <1>2, <2>1, <2>3
      <3> QED
        BY <3>1, UserFacts DEF Usable
    <2> QED
      BY <2>2, <2>3
  <1>6. CASE \E w \in Workers : AlterRole(w)
    <2>1. PICK w \in Workers : AlterRole(w)
      BY <1>6
    <2>2. CASE rolePw' = rolePw
      BY <1>1, <2>1, <2>2 DEF AlterRole, secretVars
    <2>3. CASE rolePw' # rolePw
      BY <1>3, <2>1, <2>3
    <2> QED
      BY <2>2, <2>3
  <1> QED
    BY <1>1, <1>4, <1>5, <1>6

\* The last two credentials are the same until the next rotation is opened.
LEMMA BaseStays ==
  ASSUME IInv, Rotation
  PROVE  \/ Base' = Base /\ rotToken' = rotToken
         \/ Base' = current /\ BoundedBootstrap
  <1>0. TypeOK /\ LabelInv /\ WorkerInv
    BY DEF IInv
  <1>1. ASSUME UNCHANGED <<current, previous, rotToken>>
        PROVE  Base' = Base /\ rotToken' = rotToken
    BY <1>1 DEF Base
  <1>2. ASSUME NEW t \in Tokens, StartRotation(t)
        PROVE  Base' = current
    BY <1>0, <1>2, UserFacts DEF StartRotation, Base, LabelInv, Usable, secretVars
  <1>3. ASSUME NEW w \in Workers, MoveCurrent(w)
        PROVE  Base' = Base /\ rotToken' = rotToken
    BY <1>0, <1>3 DEF MoveCurrent, Base, LabelInv, WorkerInv, WorkerOK, Late, Flying, rotVars
  <1>4. ASSUME NEW w \in Workers,
               Invoke(w) \/ \E t \in Tokens, s \in Steps : Redeliver(w, t, s)
        PROVE  UNCHANGED <<current, previous, rotToken>>
    BY <1>4 DEF Invoke, Redeliver, Deliver, secretVars, rotVars
  <1>5. ASSUME NEW w \in Workers, Handler(w), ~MoveCurrent(w)
        PROVE  UNCHANGED <<current, previous, rotToken>>
    BY <1>5
    DEF Handler, Describe, ReadPending, ReadCurrent, PutPending, AlterRole, Connect,
        RollService, Return, secretVars, rotVars
  <1>6. ASSUME NEW w \in Workers, Crash(w)
        PROVE  UNCHANGED <<current, previous, rotToken>>
    BY <1>6 DEF Crash, secretVars, rotVars
  <1>7. ASSUME Reattempt \/ Abandon \/ (\E k \in Tasks : StartTask(k))
        PROVE  UNCHANGED <<current, previous, rotToken>>
    BY <1>7 DEF Reattempt, Abandon, StartTask, secretVars, rotVars
  <1> QED
    BY <1>1, <1>2, <1>3, <1>4, <1>5, <1>6, <1>7 DEF Rotation

\* Beside a bootstrap the rotation keeps what the bootstrap has read true.
LEMMA RotationStep ==
  ASSUME BInv, Rotation, UNCHANGED bootVars
  PROVE  BInv' /\ (Initialized => rolePw'[verUser[current]] = rolePw[verUser[current]])
  <1>1. Initialized
    BY NothingRotates DEF BInv, BTypeOK, SecretInv
  <1>2. IInv /\ Next
    BY <1>1 DEF BInv, BTypeOK, SecretInv, IInv, Rotation, Next
  <1>3. IInv'
    BY <1>2, NextInv
  <1>4. Usable(current)' /\ Initialized'
    BY <1>3, UserFacts DEF IInv, LabelInv, Usable, Initialized
  <1>5. UNCHANGED <<deployed, request, cfn, bpc, draw, live, adopted>>
    BY DEF bootVars
  <1>6. BTypeOK' /\ SecretInv'
    BY <1>3, <1>4, <1>5 DEF BInv, BTypeOK, SecretInv, IInv
  <1>7. /\ \A v \in Versions : verUser[v] # NoUser => verUser'[v] = verUser[v]
        /\ \A s \in Seeds : verUser'[s] = verUser[s]
        /\ \A u \in Users : rolePw'[u] = NoVersion <=> rolePw[u] = NoVersion
        /\ \A v \in Versions : v \in {Base, rotToken} /\ Usable(v) => Usable(v)'
        /\ rolePw'[verUser[current]] = rolePw[verUser[current]]
    BY <1>2, RotationKeeps
  <1>8. OneSeed'
    BY <1>7 DEF BInv, OneSeed
  <1>9. FirstInv'
    BY <1>1, <1>4, <1>5 DEF BInv, FirstInv
  <1>10. BothRoles => BothRoles'
    BY <1>7 DEF BothRoles
  <1>11. AnswerInv'
    BY <1>4, <1>5, <1>10 DEF BInv, AnswerInv, Ready
  <1>12. bpc = "liveRole" => live \in {Base', rotToken'} /\ Usable(live)'
    <2>1. SUFFICES ASSUME bpc = "liveRole" PROVE live \in {Base', rotToken'} /\ Usable(live)'
      OBVIOUS
    <2>2. PICK v \in Versions : v = live
      BY <2>1 DEF BInv, ConvergeInv
    <2>3. v \in {Base, rotToken} /\ Usable(v)
      BY <2>1, <2>2 DEF BInv, ConvergeInv
    <2>4. v \in {Base', rotToken'}
      BY <1>2, <2>1, <2>2, <2>3, BaseStays DEF BoundedBootstrap
    <2>5. Usable(v)' /\ live' = v
      BY <1>5, <1>7, <2>2, <2>3
    <2> QED
      BY <2>2, <2>4, <2>5 DEF Usable
  <1>13. ConvergeInv'
    BY <1>4, <1>5, <1>7, <1>10, <1>12, UserFacts DEF BInv, ConvergeInv
  <1> QED
    BY <1>6, <1>7, <1>8, <1>9, <1>11, <1>13 DEF BInv

-----------------------------------------------------------------------------
(* The bootstrap beside the rotation.                                      *)

RotationParts == LabelInv /\ RotationInv /\ WorkerInv /\ TaskInv

\* Giving a user without a password one, or asserting one it has, takes
\* nothing from the rotation.
LEMMA MoreUsable ==
  ASSUME RotationParts, current \in Versions,
         \A v : v # NoVersion /\ Usable(v) => Usable(v)',
         UNCHANGED <<secretVars, rotVars, pc, jobVars, ecsVars>>
  PROVE  RotationParts'
  <1> USE ConstantAssumption DEF RotationParts, secretVars, rotVars, jobVars, ecsVars
  <1>1. Base' = Base /\ (Installed => Installed')
    BY DEF Base, Installed
  <1>2. LabelInv'
    BY <1>1 DEF LabelInv
  <1>3. RotationInv'
    BY <1>1 DEF RotationInv
  <1>4. TaskInv'
    BY <1>1 DEF TaskInv
  <1>5. ASSUME NEW w \in Workers PROVE WorkerOK(w)'
    <2>1. WorkerOK(w)
      BY DEF WorkerInv
    <2> QED
      BY <1>1, <2>1 DEF WorkerOK, Late, Flying
  <1> QED
    BY <1>2, <1>3, <1>4, <1>5 DEF WorkerInv

LEMMA BootQuiet ==
  ASSUME SecretInv, OneSeed, current \in Versions, deployed' => deployed \/ Initialized,
         \A v : v # NoVersion /\ Usable(v) => Usable(v)',
         UNCHANGED <<secretVars, rotVars, pc, jobVars, ecsVars>>
  PROVE  SecretInv' /\ OneSeed' /\ Initialized' = Initialized
  <1>1. Initialized' = Initialized /\ OneSeed'
    BY DEF Initialized, OneSeed, secretVars
  <1>2. CASE Initialized
    BY <1>1, <1>2, MoreUsable DEF SecretInv, RotationParts
  <1>3. CASE ~Initialized
    BY <1>1, <1>3 DEF SecretInv, Unwritten, secretVars, rotVars, ecsVars
  <1> QED
    BY <1>1, <1>2, <1>3

\* There is a password left to draw.
LEMMA DrawIsFresh ==
  ASSUME BTypeOK, SecretInv, OneSeed
  PROVE  FreshDraw \in Seeds
  <1> USE DEF BTypeOK, TypeOK
  <1>1. APP_USERS[1] \in Users /\ APP_USERS[2] \in Users
        /\ \A u \in Users : u = APP_USERS[1] \/ u = APP_USERS[2]
    BY DEF Users
  <1>2. ASSUME NEW o \in Versions \cup {NoVersion},
               \A b \in Seeds : b # o => b # current /\ verUser[b] = NoUser
        PROVE  \E b \in Seeds : /\ b # current /\ verUser[b] = NoUser
                                /\ \A u \in Users : rolePw[u] # b
    <2>1. PICK b \in Seeds : b \notin {o, rolePw[APP_USERS[1]], rolePw[APP_USERS[2]]}
      BY <1>1, SeedsAssumption
    <2> QED
      BY <1>1, <1>2, <2>1
  <1>3. \E o \in Versions \cup {NoVersion} :
          \A b \in Seeds : b # o => b # current /\ verUser[b] = NoUser
    <2>1. CASE ~Initialized
      BY <2>1 DEF SecretInv, Unwritten, Versions
    <2>2. CASE Initialized /\ \E s \in Seeds : verUser[s] # NoUser
      <3>1. PICK s \in Seeds : verUser[s] # NoUser
        BY <2>2
      <3>2. \A b \in Seeds : b # s => b # current /\ verUser[b] = NoUser
        BY <2>2, <3>1 DEF OneSeed, Initialized
      <3> QED
        BY <3>1, <3>2 DEF Versions
    <2>3. CASE Initialized /\ ~ \E s \in Seeds : verUser[s] # NoUser
      BY <2>3 DEF Initialized
    <2> QED
      BY <2>1, <2>2, <2>3
  <1>4. \E b \in Seeds : /\ b # current /\ verUser[b] = NoUser
                         /\ \A u \in Users : rolePw[u] # b
    BY <1>2, <1>3
  <1> QED
    BY <1>4 DEF FreshDraw

\* Requests, answers, faults and the handler's reads: no password changes.
LEMMA BootReads ==
  ASSUME BInv,
         \/ \E type \in {"Create", "Update"} : CfnRequest(type)
         \/ CfnDelete \/ BootInvoke \/ ServiceTimeout
         \/ _app_secret_is_initialized \/ ReadLive \/ FindOther
         \/ _adopt_existing_objects \/ CfnRespond \/ BootRaise \/ BootCrash
  PROVE  BInv' /\ rolePw' = rolePw
  <1> USE DEF BInv
  <1>1. ASSUME UNCHANGED <<secretVars, rolePw, rotVars, pc, jobVars, ecsVars>>,
               deployed' => deployed \/ Initialized
        PROVE  /\ SecretInv' /\ OneSeed' /\ Initialized' = Initialized
               /\ BothRoles' = BothRoles /\ (\A v : Usable(v)' = Usable(v))
               /\ Base' = Base /\ verUser' = verUser /\ rolePw' = rolePw
               /\ current' = current /\ rotToken' = rotToken
    <2>1. /\ BothRoles' = BothRoles /\ (\A v : Usable(v)' = Usable(v))
          /\ Base' = Base /\ verUser' = verUser /\ rolePw' = rolePw
          /\ current' = current /\ rotToken' = rotToken
      BY <1>1 DEF secretVars, rotVars, BothRoles, Usable, Base
    <2> QED
      BY <1>1, <2>1, BootQuiet DEF BTypeOK, TypeOK
  <1>2. ASSUME UNCHANGED <<secretVars, rolePw, rotVars, pc, jobVars, ecsVars>>,
               faults' \in 0 .. MaxFaults
        PROVE  TypeOK'
    BY <1>2 DEF BTypeOK, TypeOK, secretVars, rotVars, jobVars, ecsVars
  <1>3. CASE \E type \in {"Create", "Update"} : CfnRequest(type)
    <2>1. /\ UNCHANGED <<vars, deployed, bpc, draw, live, adopted>>
          /\ request' \in {"Create", "Update"} /\ cfn' = "waiting" /\ bpc = "idle"
      BY <1>3 DEF CfnRequest
    <2>2. BTypeOK'
      BY <1>2, <2>1 DEF BTypeOK, TypeOK, vars
    <2> QED
      BY <1>1, <2>1, <2>2 DEF vars, FirstInv, ConvergeInv, AnswerInv
  <1>4. CASE CfnDelete
    <2>1. /\ UNCHANGED <<vars, deployed, bpc, draw, live, adopted>>
          /\ request' = "Delete" /\ cfn' = "waiting" /\ bpc = "idle"
      BY <1>4 DEF CfnDelete
    <2>2. BTypeOK'
      BY <1>2, <2>1 DEF BTypeOK, TypeOK, vars
    <2> QED
      BY <1>1, <2>1, <2>2 DEF vars, FirstInv, ConvergeInv, AnswerInv
  <1>5. CASE BootInvoke
    <2>1. /\ UNCHANGED <<vars, deployed, request, cfn, adopted>>
          /\ cfn = "waiting" /\ draw' = FreshDraw /\ live' = NoVersion
          /\ (bpc' = "success" /\ request = "Delete") \/ bpc' = "check"
      BY <1>5 DEF BootInvoke
    <2>2. draw' \in Seeds
      BY <2>1, DrawIsFresh
    <2>3. BTypeOK'
      BY <1>2, <2>1, <2>2 DEF BTypeOK, TypeOK, vars, BootPCs
    <2> QED
      BY <1>1, <2>1, <2>2, <2>3 DEF vars, FirstInv, ConvergeInv, AnswerInv
  <1>6. CASE ServiceTimeout
    <2>1. /\ UNCHANGED <<vars, deployed, request, draw, live, adopted>>
          /\ bpc' = "idle" /\ cfn' = "failed"
      BY <1>6 DEF ServiceTimeout
    <2>2. BTypeOK'
      BY <1>2, <2>1 DEF BTypeOK, TypeOK, vars, BootPCs
    <2> QED
      BY <1>1, <2>1, <2>2 DEF vars, FirstInv, ConvergeInv, AnswerInv
  <1>7. CASE _app_secret_is_initialized
    <2>1. /\ UNCHANGED <<vars, deployed, request, cfn, draw, live, adopted>>
          /\ bpc = "check"
          /\ (Initialized /\ bpc' = "readLive") \/ (~Initialized /\ bpc' = "role1")
      BY <1>7 DEF _app_secret_is_initialized, BootStep
    <2>2. BTypeOK'
      BY <1>2, <2>1 DEF BTypeOK, TypeOK, vars, BootPCs
    <2>3. FirstInv'
      BY <1>1, <2>1 DEF vars, FirstInv
    <2>4. ConvergeInv' /\ AnswerInv'
      BY <1>1, <2>1 DEF vars, ConvergeInv, AnswerInv, Ready
    <2> QED
      BY <1>1, <2>1, <2>2, <2>3, <2>4 DEF vars
  <1>8. CASE ReadLive
    <2>1. /\ UNCHANGED <<vars, deployed, request, cfn, draw, adopted>>
          /\ bpc = "readLive" /\ bpc' = "liveRole" /\ live' = current
      BY <1>8 DEF ReadLive, BootStep
    <2>2. Initialized /\ current \in Versions /\ Usable(current)
          /\ current \in {Base, rotToken}
      BY <2>1 DEF ConvergeInv, SecretInv, LabelInv, Base, BTypeOK, TypeOK
    <2>3. BTypeOK'
      BY <1>2, <2>1, <2>2 DEF BTypeOK, TypeOK, vars, BootPCs
    <2>4. FirstInv' /\ AnswerInv'
      BY <1>1, <2>1 DEF vars, FirstInv, AnswerInv, Ready
    <2>5. Usable(live)'
      BY <1>1, <2>1, <2>2 DEF vars, Usable
    <2>6. ConvergeInv'
      BY <1>1, <2>1, <2>2, <2>5 DEF vars, ConvergeInv, Usable
    <2> QED
      BY <1>1, <2>1, <2>3, <2>4, <2>6 DEF vars
  <1>9. CASE FindOther
    <2>1. /\ UNCHANGED <<vars, deployed, request, cfn, draw, live, adopted>>
          /\ bpc = "findOther"
          /\ \/ rolePw[_other_user(verUser[live])] = NoVersion /\ bpc' = "otherRole"
             \/ rolePw[_other_user(verUser[live])] # NoVersion /\ bpc' = "adopt"
      BY <1>9 DEF FindOther, BootStep
    <2>2. /\ Initialized /\ live \in Versions /\ verUser[live] \in Users
          /\ rolePw[verUser[live]] # NoVersion /\ live # NoVersion
      BY <2>1, ConstantAssumption DEF ConvergeInv
    <2>3. BTypeOK'
      BY <1>2, <2>1 DEF BTypeOK, TypeOK, vars, BootPCs
    <2>4. bpc' = "adopt" => BothRoles
      BY <2>1, <2>2 DEF BothRoles, Users, _other_user
    <2>5. ConvergeInv'
      BY <1>1, <2>1, <2>2, <2>4 DEF vars, ConvergeInv
    <2> QED
      BY <1>1, <2>1, <2>2, <2>3, <2>5 DEF vars, FirstInv, AnswerInv, Ready
  <1>10. CASE _adopt_existing_objects
    <2>1. /\ UNCHANGED <<vars, deployed, request, cfn, draw, live>>
          /\ bpc = "adopt" /\ adopted' = TRUE
          /\ (live = NoVersion /\ bpc' = "put") \/ (live # NoVersion /\ bpc' = "success")
      BY <1>10 DEF _adopt_existing_objects, BootStep
    <2>2. BTypeOK'
      BY <1>2, <2>1 DEF BTypeOK, TypeOK, vars, BootPCs
    <2>3. FirstInv'
      BY <1>1, <2>1 DEF vars, FirstInv
    <2>4. bpc' = "success" => Initialized /\ BothRoles
      BY <2>1 DEF ConvergeInv
    <2> QED
      BY <1>1, <2>1, <2>2, <2>3, <2>4 DEF vars, ConvergeInv, AnswerInv, Ready
  <1>11. CASE CfnRespond
    <2>1. /\ UNCHANGED <<vars, request, draw, live, adopted>>
          /\ bpc' = "idle"
          /\ (bpc = "success" /\ cfn' = "success") \/ (bpc = "failed" /\ cfn' = "failed")
          /\ deployed' = (request # "Delete" /\ (deployed \/ (bpc = "success" /\ request = "Create")))
      BY <1>11 DEF CfnRespond, BootStep
    <2>2. deployed' \in BOOLEAN /\ (deployed' => deployed \/ Initialized)
      BY <2>1 DEF AnswerInv, Ready
    <2>3. BTypeOK'
      BY <1>2, <2>1, <2>2 DEF BTypeOK, TypeOK, vars, BootPCs
    <2>4. FirstInv' /\ ConvergeInv'
      BY <1>1, <2>1, <2>2 DEF vars, FirstInv, ConvergeInv
    <2> QED
      BY <1>1, <2>1, <2>2, <2>3, <2>4 DEF vars, AnswerInv, Ready
  <1>12. CASE BootRaise \/ BootCrash
    <2>1. /\ UNCHANGED <<secretVars, rolePw, rotVars, pc, jobVars, ecsVars, deployed,
                         request, cfn, draw, live, adopted>>
          /\ bpc # "idle" /\ bpc' \in {"idle", "failed", "gaveUp"}
          /\ faults < MaxFaults /\ faults' = faults + 1
      BY <1>12 DEF BootRaise, BootCrash
    <2>2. faults' \in 0 .. MaxFaults
      BY <2>1, ConstantAssumption DEF BTypeOK, TypeOK
    <2>3. BTypeOK'
      BY <1>2, <2>1, <2>2 DEF BTypeOK, BootPCs
    <2> QED
      BY <1>1, <2>1, <2>3 DEF FirstInv, ConvergeInv, AnswerInv, Ready
  <1> QED
    BY <1>3, <1>4, <1>5, <1>6, <1>7, <1>8, <1>9, <1>10, <1>11, <1>12


\* _ensure_roles: a user that has a password is asserted, one that has none,
\* or nobody uses yet, is given the drawn one.
LEMMA BootRoles ==
  ASSUME BInv, EnsureLiveRole \/ EnsureOtherRole \/ EnsureFirstRoles
  PROVE  BInv' /\ (Initialized => rolePw'[verUser[current]] = rolePw[verUser[current]])
  <1> USE UserFacts, ConstantAssumption DEF BInv
  <1>1. ASSUME NEW u \in Users, NEW v \in Versions, EnsureRole(u, v)
        PROVE  /\ TypeOK' /\ UNCHANGED <<verUser, current, rotToken, deployed, adopted>>
               /\ UNCHANGED <<request, cfn, draw, live>>
               /\ UNCHANGED <<secretVars, rotVars, pc, jobVars, ecsVars>>
               /\ rolePw' = [rolePw EXCEPT ![u] = v] /\ v # NoVersion
               /\ \A x \in Users : rolePw'[x] = IF x = u THEN v ELSE rolePw[x]
               /\ Base' = Base
    BY <1>1
    DEF EnsureRole, BTypeOK, TypeOK, secretVars, rotVars, jobVars, ecsVars, Versions, Base
  <1>2. CASE EnsureLiveRole
    <2>1. /\ bpc = "liveRole" /\ bpc' = "findOther" /\ EnsureRole(verUser[live], live)
          /\ Initialized /\ live \in Versions /\ verUser[live] \in Users /\ Usable(live)
      BY <1>2 DEF EnsureLiveRole, BootStep, ConvergeInv
    <2>2. rolePw' = rolePw
      BY <1>1, <2>1 DEF Usable, BTypeOK, TypeOK
    <2>3. /\ BothRoles' = BothRoles /\ \A v : Usable(v) => Usable(v)'
      BY <1>1, <2>1, <2>2 DEF BothRoles, Usable
    <2>4. SecretInv' /\ OneSeed' /\ Initialized'
      BY <1>1, <2>1, <2>3, BootQuiet DEF BTypeOK, TypeOK
    <2>5. BTypeOK'
      BY <1>1, <2>1 DEF BTypeOK, BootPCs
    <2>6. FirstInv' /\ AnswerInv'
      BY <1>1, <2>1, <2>3, <2>4 DEF FirstInv, AnswerInv, Ready
    <2>7. ConvergeInv'
      BY <1>1, <2>1, <2>2, <2>4 DEF ConvergeInv, Usable
    <2> QED
      BY <2>2, <2>4, <2>5, <2>6, <2>7
  <1>3. CASE EnsureOtherRole
    <2> DEFINE o == _other_user(verUser[live])
    <2>1. /\ bpc = "otherRole" /\ bpc' = "adopt" /\ EnsureRole(o, draw)
          /\ Initialized /\ live \in Versions /\ verUser[live] \in Users
          /\ rolePw[verUser[live]] # NoVersion /\ rolePw[o] = NoVersion
          /\ draw \in Seeds /\ live # NoVersion
      BY <1>3 DEF EnsureOtherRole, BootStep, ConvergeInv, FirstInv
    <2>2. o \in Users /\ o # verUser[live] /\ draw \in Versions
      BY <2>1 DEF Versions
    <2> HIDE DEF o
    <2>3. /\ \A x \in Users : rolePw'[x] = IF x = o THEN draw ELSE rolePw[x]
          /\ draw # NoVersion /\ TypeOK' /\ verUser' = verUser /\ current' = current
          /\ UNCHANGED <<secretVars, rotVars, pc, jobVars, ecsVars>>
          /\ UNCHANGED <<request, cfn, draw, live, deployed, adopted>>
      BY <1>1, <2>1, <2>2
    <2>4. \A v : v # NoVersion /\ Usable(v) => Usable(v)'
      BY <2>1, <2>3 DEF Usable
    <2>6. SecretInv' /\ OneSeed' /\ Initialized'
      BY <2>1, <2>3, <2>4, BootQuiet DEF BTypeOK, TypeOK
    <2>7. BTypeOK'
      BY <2>1, <2>3 DEF BTypeOK, BootPCs
    <2>8. BothRoles'
      BY <2>1, <2>2, <2>3 DEF BothRoles, Users, _other_user, o
    <2>9. FirstInv' /\ AnswerInv' /\ ConvergeInv'
      BY <2>1, <2>3, <2>6, <2>8 DEF FirstInv, AnswerInv, Ready, ConvergeInv
    <2>10. rolePw'[verUser[current]] = rolePw[verUser[current]]
      BY <2>1, <2>3 DEF SecretInv, LabelInv, Usable, BTypeOK, TypeOK
    <2> QED
      BY <2>6, <2>7, <2>9, <2>10
  <1>4. CASE EnsureFirstRoles
    <2>1. PICK u \in Users :
            /\ EnsureRole(u, draw) /\ live = NoVersion /\ ~Initialized /\ draw \in Seeds
            /\ \/ bpc = "role1" /\ bpc' = "role2" /\ u = APP_USERS[1]
               \/ bpc = "role2" /\ bpc' = "adopt" /\ u = APP_USERS[2]
      BY <1>4 DEF EnsureFirstRoles, BootStep, FirstInv, Users
    <2>2. draw \in Versions
      BY <2>1 DEF Versions
    <2>3. /\ \A x \in Users : rolePw'[x] = IF x = u THEN draw ELSE rolePw[x]
          /\ draw # NoVersion /\ TypeOK' /\ verUser' = verUser /\ current' = current
          /\ UNCHANGED <<secretVars, rotVars, pc, jobVars, ecsVars>>
          /\ UNCHANGED <<request, cfn, draw, live, deployed, adopted>>
      BY <1>1, <2>1, <2>2
    <2>4. SecretInv' /\ ~Initialized' /\ OneSeed'
      BY <2>1, <2>3
      DEF SecretInv, Initialized, OneSeed, Unwritten, secretVars, rotVars, ecsVars
    <2>5. BTypeOK'
      BY <2>1, <2>3 DEF BTypeOK, BootPCs
    <2>6. FirstInv'
      BY <2>1, <2>3, <2>4 DEF FirstInv, Users
    <2>7. ConvergeInv' /\ AnswerInv'
      BY <2>1, <2>3 DEF ConvergeInv, AnswerInv, Ready
    <2> QED
      BY <2>1, <2>4, <2>5, <2>6, <2>7
  <1> QED
    BY <1>2, <1>3, <1>4

\* The first put_secret_value starts the credential's life.
LEMMA BootPut ==
  ASSUME BInv, PutFirstSecret
  PROVE  BInv' /\ ~Initialized
  <1> USE UserFacts, ConstantAssumption DEF BInv
  <1>1. /\ bpc = "put" /\ bpc' = "success"
        /\ verUser' = [verUser EXCEPT ![draw] = APP_USERS[1]]
        /\ current' = draw /\ previous' = current
        /\ UNCHANGED <<pending, rolePw, rotVars, pc, jobVars, ecsVars, faults>>
        /\ UNCHANGED <<deployed, request, cfn, draw, live, adopted>>
    BY DEF PutFirstSecret, BootStep
  <1>2. /\ ~Initialized /\ live = NoVersion /\ draw \in Seeds /\ adopted
        /\ \A u \in Users : rolePw[u] = draw
    BY <1>1 DEF FirstInv
  <1>3. Unwritten /\ APP_USERS[1] \in Users
    BY <1>2 DEF SecretInv, Users
  <1>4. draw \in Versions /\ draw # NoVersion /\ draw \notin Tokens
    BY <1>2 DEF Versions
  <1>5. \A v \in Versions : verUser'[v] = IF v = draw THEN APP_USERS[1] ELSE NoUser
    BY <1>1, <1>3 DEF Unwritten, BTypeOK, TypeOK
  <1>6. BTypeOK'
    <2>1. verUser' \in [Versions -> Users \cup {NoUser}]
      BY <1>1, <1>3 DEF BTypeOK, TypeOK
    <2> QED
      BY <1>1, <1>4, <2>1 DEF BTypeOK, TypeOK, BootPCs, rotVars, jobVars, ecsVars
  <1>7. OneSeed' /\ Initialized'
    BY <1>1, <1>3, <1>4, <1>5 DEF OneSeed, Initialized, Versions
  <1>8. /\ rotToken' = NoVersion /\ rotStep' = NoStep /\ pending' = NoVersion
        /\ \A w \in Workers : pc'[w] = "idle"
        /\ \A k \in Tasks : held'[k] = NoVersion
    BY <1>1, <1>3 DEF Unwritten, rotVars, ecsVars
  <1>9. /\ Base' = draw
        /\ verUser'[draw] = APP_USERS[1] /\ rolePw'[APP_USERS[1]] = draw
    BY <1>1, <1>2, <1>3, <1>4, <1>5, <1>8 DEF Base
  <1>10. previous' # NoVersion /\ pending' = current' => FALSE
    BY <1>1, <1>4, <1>8
  <1>11. LabelInv'
    BY <1>1, <1>3, <1>4, <1>8, <1>9, <1>10 DEF LabelInv, Usable
  <1>12. RotationInv' /\ WorkerInv' /\ TaskInv'
    BY <1>8 DEF RotationInv, WorkerInv, WorkerOK, Late, Flying, TaskInv
  <1>13. SecretInv'
    BY <1>7, <1>11, <1>12 DEF SecretInv
  <1>14. FirstInv' /\ ConvergeInv'
    BY <1>1, <1>2 DEF FirstInv, ConvergeInv
  <1>15. AnswerInv'
    BY <1>1, <1>2, <1>4, <1>7 DEF AnswerInv, Ready, BothRoles
  <1> QED
    BY <1>2, <1>6, <1>7, <1>13, <1>14, <1>15

-----------------------------------------------------------------------------
LEMMA BootNext ==
  ASSUME BInv, [BNext]_allVars
  PROVE  BInv' /\ (Initialized => rolePw'[verUser[current]] = rolePw[verUser[current]])
  <1>1. CASE Rotation /\ UNCHANGED bootVars
    BY <1>1, RotationStep
  <1>2. CASE \/ \E type \in {"Create", "Update"} : CfnRequest(type)
             \/ CfnDelete \/ BootInvoke \/ ServiceTimeout
             \/ _app_secret_is_initialized \/ ReadLive \/ FindOther
             \/ _adopt_existing_objects \/ CfnRespond \/ BootRaise \/ BootCrash
    BY <1>2, BootReads
  <1>3. CASE EnsureLiveRole \/ EnsureOtherRole \/ EnsureFirstRoles
    BY <1>3, BootRoles
  <1>4. CASE PutFirstSecret
    BY <1>4, BootPut
  <1>5. CASE UNCHANGED allVars
    <2>1. UNCHANGED <<secretVars, rolePw, rotVars, pc, jobVars, ecsVars>>
          /\ UNCHANGED <<faults, deployed, request, cfn, bpc, draw, live, adopted>>
      BY <1>5 DEF allVars, vars, bootVars
    <2>2. /\ BothRoles' = BothRoles /\ (\A v : Usable(v)' = Usable(v))
          /\ Base' = Base /\ verUser' = verUser /\ rolePw' = rolePw
          /\ rotToken' = rotToken
      BY <2>1 DEF secretVars, rotVars, BothRoles, Usable, Base
    <2>3. SecretInv' /\ OneSeed' /\ Initialized' = Initialized
      BY <2>1, <2>2, BootQuiet DEF BInv, BTypeOK, TypeOK
    <2>4. BTypeOK'
      BY <2>1 DEF BInv, BTypeOK, TypeOK, secretVars, rotVars, jobVars, ecsVars
    <2>5. FirstInv' /\ ConvergeInv' /\ AnswerInv'
      BY <2>1, <2>2, <2>3 DEF BInv, FirstInv, ConvergeInv, AnswerInv, Ready
    <2> QED
      BY <2>2, <2>3, <2>4, <2>5 DEF BInv
  <1> QED
    BY <1>1, <1>2, <1>3, <1>4, <1>5 DEF BNext, BootHandler

\* The invariant the three theorems below rest on.
THEOREM BootInvariance == BSpec => []BInv
  <1>1. BInv /\ [BNext]_allVars => BInv'
    BY BootNext
  <1> QED
    BY BootInit, <1>1, PTL DEF BSpec

\* bootstrap_handler and rotate_handler keep every variable in its type.
THEOREM BootTypeCorrect == BSpec => []BTypeOK
  <1>1. BInv => BTypeOK
    BY DEF BInv
  <1> QED
    BY <1>1, BootInvariance, PTL

\* SUCCESS is answered only once the roles, their objects and a secret that
\* logs in are there, and no later rotation takes that away.
THEOREM SuccessIsReady == BSpec => []SuccessMeansReady
  <1>1. BInv => SuccessMeansReady
    BY DEF BInv, AnswerInv, Ready, BothRoles, SuccessMeansReady, SecretInv, LabelInv
  <1> QED
    BY <1>1, BootInvariance, PTL

\* From the first secret on, the credential labelled AWSCURRENT logs in.
THEOREM SecretStaysUsable == BSpec => []SecretUsable
  <1>1. BInv => SecretUsable
    BY DEF BInv, SecretUsable, SecretInv, LabelInv
  <1> QED
    BY <1>1, BootInvariance, PTL

\* Neither handler changes the password of the user that is live.
THEOREM LiveIsNotReset == BSpec => LivePasswordKept
  <1>1. BInv /\ [BNext]_allVars =>
          [Initialized => rolePw'[verUser[current]] = rolePw[verUser[current]]]_allVars
    BY BootNext
  <1> QED
    BY <1>1, BootInvariance, PTL DEF BSpec, LivePasswordKept

\* If a rotation waits for the tasks, no task holds a dead credential either,
\* bootstraps notwithstanding.
THEOREM BootLocksNobodyOut ==
  ASSUME RollFirst = TRUE
  PROVE  BSpec => []NoDeadCredential
  <1>1. BInv => NoDeadCredential
    BY DEF BInv, NoDeadCredential, SecretInv, Unwritten, TaskInv
  <1> QED
    BY <1>1, BootInvariance, PTL

=============================================================================
