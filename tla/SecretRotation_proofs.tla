------------------------ MODULE SecretRotation_proofs ------------------------
(***************************************************************************)
(* Safety of the credential rotation for any number of rotations, workers, *)
(* tasks and faults.                                                       *)
(***************************************************************************)
EXTENDS SecretRotation, TLAPS

\* The version that was live when the last rotation was opened.
Base == IF current = rotToken THEN previous ELSE current

\* The open rotation's password is in the database.
Installed == rotToken # NoVersion /\ Usable(rotToken)

Flying(w) == pc[w] # "idle"

LabelInv ==
  /\ Base \in Versions
  /\ Base # rotToken
  /\ Usable(current)
  /\ Usable(Base)
  /\ pending # NoVersion => verUser[pending] \in Users
  /\ previous # NoVersion /\ pending = current => Usable(previous)

RotationInv ==
  /\ rotStep # NoStep => rotToken # NoVersion
  /\ rotToken # NoVersion => verUser[rotToken] # verUser[Base]
  /\ pending \in {rotToken, Base, NoVersion}
  /\ rotToken # NoVersion /\ verUser[rotToken] # NoUser
       => pending \in {rotToken, NoVersion}
  /\ rotStep > SetSecret => Installed

\* A worker that was sent a step of a rotation before the last two: it cannot
\* pass the reading of the pending version, nor store its own again.
Late(w) ==
  /\ token[w] \notin {rotToken, Base, NoVersion}
  /\ verUser[token[w]] # NoUser
  /\ step[w] \in LateSteps
  /\ pc[w] \in {"describe", "readPending", "readCurrent", "put"}

\* What a worker in flight has to satisfy, for one worker.
WorkerOK(w) ==
  Flying(w) =>
    /\ token[w] \in {rotToken, Base} \ {NoVersion} \/ Late(w)
    /\ pc[w] = "put" /\ token[w] = rotToken /\ verUser[rotToken] = NoUser
         => user[w] = _other_user(verUser[Base])
    /\ pc[w] \in {"alter", "connect"}
         => user[w] \in Users /\ user[w] = verUser[token[w]]
    /\ pc[w] = "alter" => step[w] = SetSecret
    /\ pc[w] \in {"readCurrent", "put"} => step[w] = CreateSecret
    /\ pc[w] \in {"move", "roll"} => step[w] = FinishSecret
    /\ token[w] = rotToken /\ step[w] > SetSecret => Installed
    /\ token[w] = rotToken /\ step[w] = SetSecret /\ pc[w] = "return"
         => Installed

WorkerInv ==
  \A w \in Workers : WorkerOK(w)

\* What a task was started with; before the bootstrap there are no tasks.
TaskInv ==
  RollFirst => \A k \in Tasks : held[k] # NoVersion =>
    held[k] \in {Base, rotToken} /\ Usable(held[k])

Started == \A k \in Tasks : held[k] # NoVersion

IInv == TypeOK /\ LabelInv /\ RotationInv /\ WorkerInv /\ TaskInv

-----------------------------------------------------------------------------
(* The steps of the handler and of its environment, as they appear in Next. *)

LEMMA UserFacts ==
  /\ NoUser \notin Users
  /\ \A u \in Users : _other_user(u) \in Users /\ _other_user(u) # u
  BY DEF Users, NoUser, _other_user, APP_USERS

USE DEF CreateSecret, SetSecret, TestSecret, FinishSecret, Finished, NoStep,
        Steps, LateSteps

LEMMA TypeStep == IInv /\ [Next]_vars => TypeOK'
  <1> SUFFICES ASSUME IInv, [Next]_vars PROVE TypeOK'
    OBVIOUS
  <1>a. TypeOK
    BY DEF IInv
  <1>b. ASSUME NEW w \in Workers, Flying(w)
        PROVE  /\ token[w] \in Tokens
               /\ pc[w] \in {"alter", "connect"} => user[w] \in Users
    BY <1>a, <1>b DEF IInv, TypeOK, WorkerInv, WorkerOK, Late
  <1> USE UserFacts, ConstantAssumption DEF TypeOK, Versions, secretVars,
        rotVars, jobVars, ecsVars, vars
  <1> USE <1>a
  <1>1. ASSUME NEW t \in Tokens, StartRotation(t) PROVE TypeOK'
    BY <1>1 DEF StartRotation
  <1>2. CASE Reattempt
    BY <1>2 DEF Reattempt
  <1>3. CASE Abandon
    BY <1>3 DEF Abandon
  <1>4. ASSUME NEW w \in Workers, Invoke(w) PROVE TypeOK'
    BY <1>4 DEF Invoke, Deliver, PCs
  <1>5. ASSUME NEW w \in Workers, NEW t \in Tokens, NEW s \in Steps,
               Redeliver(w, t, s)
        PROVE TypeOK'
    BY <1>5 DEF Redeliver, Deliver, PCs
  <1>6. ASSUME NEW w \in Workers, Describe(w) PROVE TypeOK'
    BY <1>6 DEF Describe, Goto, PCs
  <1>7. ASSUME NEW w \in Workers, ReadPending(w) PROVE TypeOK'
    BY <1>7, <1>b DEF ReadPending, Goto, Raise, PCs, Flying
  <1>8. ASSUME NEW w \in Workers, ReadCurrent(w) PROVE TypeOK'
    BY <1>8 DEF IInv, LabelInv, Usable, ReadCurrent, Goto, PCs
  <1>9. ASSUME NEW w \in Workers, PutPending(w) PROVE TypeOK'
    BY <1>9, <1>b DEF PutPending, Goto, Raise, PCs, Flying
  <1>10. ASSUME NEW w \in Workers, AlterRole(w) PROVE TypeOK'
    BY <1>10, <1>b DEF AlterRole, Goto, Raise, PCs, Flying
  <1>11. ASSUME NEW w \in Workers, Connect(w) PROVE TypeOK'
    BY <1>11 DEF Connect, Goto, PCs
  <1>12. ASSUME NEW w \in Workers, MoveCurrent(w) PROVE TypeOK'
    BY <1>12, <1>b DEF MoveCurrent, Goto, Raise, PCs, Flying
  <1>13. ASSUME NEW w \in Workers, RollService(w) PROVE TypeOK'
    BY <1>13 DEF RollService, Goto, PCs
  <1>14. ASSUME NEW w \in Workers, Return(w) PROVE TypeOK'
    BY <1>14 DEF Return, Goto, PCs
  <1>15. ASSUME NEW w \in Workers, Crash(w) PROVE TypeOK'
    BY <1>15 DEF Crash, Goto, PCs
  <1>16. ASSUME NEW k \in Tasks, StartTask(k) PROVE TypeOK'
    BY <1>16 DEF StartTask
  <1>17. CASE UNCHANGED vars
    BY <1>17
  <1>. QED
    BY <1>1, <1>2, <1>3, <1>4, <1>5, <1>6, <1>7, <1>8, <1>9, <1>10, <1>11,
       <1>12, <1>13, <1>14, <1>15, <1>16, <1>17 DEF Next, Handler

-----------------------------------------------------------------------------
(* Steps that leave the labels, the passwords and the open rotation alone. *)

Frame == UNCHANGED <<secretVars, rolePw, rotToken>>

LEMMA FrameStep ==
  ASSUME Frame
  PROVE  /\ Base' = Base
         /\ \A v : Usable(v)' = Usable(v)
         /\ Installed' = Installed
         /\ LabelInv => LabelInv'
         /\ RotationInv /\ rotStep' = rotStep => RotationInv'
         /\ TaskInv /\ held' = held => TaskInv'
  BY DEF Frame, secretVars, Base, Usable, Installed, LabelInv, RotationInv,
         TaskInv

\* Under Frame, a worker that did not move stays as it should be.
LEMMA WorkerFrame ==
  ASSUME Frame, NEW x \in Workers, WorkerOK(x),
         pc'[x] = pc[x], step'[x] = step[x], token'[x] = token[x],
         user'[x] = user[x]
  PROVE  WorkerOK(x)'
  BY FrameStep DEF WorkerOK, Late, Flying, Frame, secretVars

-----------------------------------------------------------------------------
(* One lemma per step that changes what the invariant speaks of.           *)

\* Opening a rotation makes the live version the base: every invocation in
\* flight belongs to it, and the new token has no version yet.
LEMMA StartRotationStep ==
  ASSUME IInv, NEW t \in Tokens, StartRotation(t)
  PROVE  (LabelInv /\ RotationInv /\ WorkerInv /\ TaskInv)'
  <1> USE DEF StartRotation, secretVars, jobVars, ecsVars
  <1>0. TypeOK /\ LabelInv /\ WorkerInv
    BY DEF IInv
  <1>1. Usable(current) /\ verUser[t] = NoUser /\ t # current /\ t # NoVersion
    BY <1>0, UserFacts, ConstantAssumption DEF LabelInv, Usable, Versions
  <1>2. Base' = current /\ rotToken' = t /\ (\A v : Usable(v)' = Usable(v))
    BY <1>1 DEF Base, Usable
  <1>3. LabelInv'
    BY <1>0, <1>1, <1>2 DEF LabelInv, TypeOK
  <1>4. RotationInv'
    BY <1>0, <1>1, <1>2, UserFacts DEF RotationInv, Usable
  <1>5. WorkerInv'
    BY <1>0, <1>1, <1>2, ConstantAssumption
    DEF WorkerInv, WorkerOK, Late, Flying, NoStragglers, TypeOK, Versions
  <1>6. TaskInv'
    BY <1>0, <1>1, <1>2, ConstantAssumption DEF TaskInv, TypeOK
  <1>. QED BY <1>3, <1>4, <1>5, <1>6

\* Stripping AWSPENDING changes no password and no other label.
LEMMA AbandonStep ==
  ASSUME IInv, Abandon
  PROVE  (LabelInv /\ RotationInv /\ WorkerInv /\ TaskInv)'
  <1> USE DEF Abandon, jobVars, ecsVars
  <1>0. TypeOK /\ LabelInv /\ RotationInv /\ WorkerInv /\ TaskInv
    BY DEF IInv
  <1>1. Base' = Base /\ (\A v : Usable(v)' = Usable(v)) /\ Installed' = Installed
    BY DEF Base, Usable, Installed
  <1>2. LabelInv'
    BY <1>0, <1>1, ConstantAssumption DEF LabelInv, TypeOK
  <1>3. RotationInv'
    BY <1>0, <1>1 DEF RotationInv
  <1>4. WorkerInv'
    BY <1>0, <1>1 DEF WorkerInv, WorkerOK, Late, Flying
  <1>5. TaskInv'
    BY <1>0, <1>1 DEF TaskInv
  <1>. QED BY <1>2, <1>3, <1>4, <1>5

\* Only a worker of the open rotation can still put its version, and that
\* version belongs to the user that is not live.
LEMMA PutPendingStep ==
  ASSUME IInv, NEW w \in Workers, PutPending(w)
  PROVE  (LabelInv /\ RotationInv /\ WorkerInv /\ TaskInv)'
  <1> USE DEF PutPending, Goto, Raise, rotVars, jobVars, ecsVars
  <1>0. TypeOK /\ LabelInv /\ RotationInv /\ WorkerInv /\ TaskInv
    BY DEF IInv
  <1>1. CASE verUser[token[w]] # NoUser
    <2>1. Frame /\ rotStep' = rotStep /\ held' = held
      BY <1>1 DEF Frame, secretVars
    <2>2. ASSUME NEW x \in Workers PROVE WorkerOK(x)'
      <3>1. CASE x = w
        BY <1>0, <1>1, <3>1 DEF WorkerOK, Late, Flying, TypeOK
      <3>2. CASE x # w
        BY <1>0, <2>1, <3>2, WorkerFrame DEF WorkerInv, TypeOK
      <3>. QED BY <3>1, <3>2
    <2>. QED BY <1>0, <2>1, <2>2, FrameStep DEF WorkerInv
  <1>2. CASE verUser[token[w]] = NoUser
    <2>1. token[w] = rotToken /\ token[w] \in Tokens /\ token[w] # NoVersion
      BY <1>0, <1>2, UserFacts
      DEF WorkerInv, WorkerOK, Late, Flying, LabelInv, Usable, TypeOK
    <2>2. user[w] = _other_user(verUser[Base]) /\ step[w] = CreateSecret
      BY <1>0, <1>2, <2>1 DEF WorkerInv, WorkerOK, Late, Flying
    <2>3. /\ verUser' = [verUser EXCEPT ![rotToken] = user[w]]
          /\ pending' = rotToken
          /\ pc' = [pc EXCEPT ![w] = "return"]
      BY <1>2, <2>1
    <2>4. ~Usable(rotToken) /\ current # rotToken /\ Base # rotToken
      BY <1>0, <1>2, <2>1, UserFacts DEF Usable, LabelInv
    <2>5. /\ \A v \in Versions : Usable(v) => Usable(v)'
          /\ Base' = Base /\ Base \in Versions /\ verUser'[Base] = verUser[Base]
          /\ current \in Versions
      BY <1>0, <2>3, <2>4 DEF Usable, Base, LabelInv, TypeOK
    <2>6. verUser'[rotToken] = _other_user(verUser[Base])
      BY <1>0, <2>1, <2>2, <2>3 DEF TypeOK, Versions
    <2>7. verUser'[rotToken] \in Users /\ verUser'[rotToken] # verUser[Base]
      BY <1>0, <2>6, UserFacts DEF LabelInv, Usable
    <2>8. LabelInv'
      BY <1>0, <2>3, <2>4, <2>5, <2>7 DEF LabelInv
    <2>9. RotationInv'
      BY <1>0, <2>1, <2>3, <2>4, <2>5, <2>7
      DEF RotationInv, Installed, TypeOK
    <2>10. ASSUME NEW x \in Workers PROVE WorkerOK(x)'
      <3>1. WorkerOK(x)
        BY <1>0 DEF WorkerInv
      <3>2. CASE x = w
        BY <1>0, <2>1, <2>2, <2>3, <2>5, <3>1, <3>2 DEF WorkerOK, Late, Flying, TypeOK
      <3>3. CASE x # w
        <4>1. pc'[x] = pc[x] /\ step' = step /\ token' = token /\ user' = user
          BY <1>0, <2>3, <3>3 DEF TypeOK
        <4>2. ~(token[x] = rotToken /\ pc[x] \in {"alter", "connect"})
              \/ ~Flying(x)
          BY <1>2, <2>1, <3>1, UserFacts DEF WorkerOK, Late
        <4>3. token[x] = Base => verUser'[token[x]] = verUser[token[x]]
          BY <2>5
        <4>4. ~Installed /\ rotToken' = rotToken
          BY <2>4 DEF Installed
        <4>5. Late(x) => Late(x)'
          BY <1>0, <2>3, <2>5, <4>1, <4>4 DEF Late, TypeOK
        <4>6. CASE Late(x)
          BY <3>1, <4>1, <4>4, <4>5, <4>6 DEF WorkerOK, Late, Flying
        <4>7. CASE ~Late(x)
          BY <2>5, <2>7, <3>1, <4>1, <4>2, <4>3, <4>4, <4>7, UserFacts
          DEF WorkerOK, Flying
        <4>. QED BY <4>6, <4>7
      <3>. QED BY <3>2, <3>3
    <2>11. TaskInv'
      BY <1>0, <2>1, <2>4, <2>5 DEF TaskInv
    <2>. QED BY <2>8, <2>9, <2>10, <2>11 DEF WorkerInv
  <1>. QED BY <1>1, <1>2

\* A late ALTER ROLE of the base rotation repeats what the database already
\* has; one of the open rotation changes the user nobody is told to use.
LEMMA AlterRoleStep ==
  ASSUME IInv, NEW w \in Workers, AlterRole(w)
  PROVE  (LabelInv /\ RotationInv /\ WorkerInv /\ TaskInv)'
  <1> USE DEF AlterRole, Goto, Raise, rotVars, jobVars, ecsVars, secretVars
  <1>0. TypeOK /\ LabelInv /\ RotationInv /\ WorkerInv /\ TaskInv
    BY DEF IInv
  <1>1. /\ token[w] \in {rotToken, Base} /\ token[w] # NoVersion
        /\ user[w] \in Users /\ user[w] = verUser[token[w]]
        /\ step[w] = SetSecret
    BY <1>0 DEF WorkerInv, WorkerOK, Late, Flying
  <1>2. Base' = Base /\ rotToken' = rotToken
    BY DEF Base
  <1>3. CASE rolePw' = rolePw
    <2>1. Frame /\ rotStep' = rotStep /\ held' = held
      BY <1>3 DEF Frame
    <2>2. ASSUME NEW x \in Workers PROVE WorkerOK(x)'
      <3>1. CASE x = w
        <4>1. pc'[w] \in {"idle", "return"}
          BY <1>0 DEF TypeOK
        <4>2. pc'[w] = "return" /\ token[w] = rotToken => Installed
          BY <1>0, <1>1, <1>3, UserFacts, ConstantAssumption
          DEF TypeOK, Installed, Usable, Versions
        <4>. QED
          BY <1>0, <1>1, <2>1, <3>1, <4>1, <4>2, FrameStep
          DEF WorkerOK, Late, Flying
      <3>2. CASE x # w
        BY <1>0, <2>1, <3>2, WorkerFrame DEF WorkerInv, TypeOK
      <3>. QED BY <3>1, <3>2
    <2>. QED BY <1>0, <2>1, <2>2, FrameStep DEF WorkerInv
  <1>4. CASE rolePw' # rolePw
    <2>1. /\ rolePw' = [rolePw EXCEPT ![user[w]] = token[w]]
          /\ pc' = [pc EXCEPT ![w] = "return"]
      BY <1>4
    <2>2. token[w] # Base
      BY <1>0, <1>1, <1>4, <2>1 DEF LabelInv, Usable, TypeOK
    <2>3. token[w] = rotToken /\ rotToken # NoVersion /\ rotToken \in Tokens
      BY <1>0, <1>1, <2>2 DEF TypeOK
    <2>4. ~Usable(rotToken) /\ current = Base
      BY <1>0, <1>1, <1>4, <2>1, <2>3 DEF Usable, TypeOK, Base, LabelInv
    <2>5. verUser[rotToken] # verUser[Base] /\ Usable(rotToken)'
      BY <1>0, <1>1, <2>1, <2>3 DEF RotationInv, Usable, TypeOK
    <2>6. Usable(Base)'
      BY <1>0, <1>1, <1>2, <2>1, <2>3, <2>5 DEF LabelInv, Usable, TypeOK
    <2>7. Installed'
      BY <2>3, <2>5 DEF Installed
    <2>8. pending # current
      BY <1>0, <1>1, <2>3, <2>4, UserFacts, ConstantAssumption
      DEF RotationInv, LabelInv, TypeOK
    <2>9. LabelInv'
      BY <1>0, <1>2, <2>4, <2>6, <2>8 DEF LabelInv
    <2>10. RotationInv'
      BY <1>0, <1>2, <2>7 DEF RotationInv
    <2>11. ASSUME NEW x \in Workers PROVE WorkerOK(x)'
      <3>1. WorkerOK(x) /\ (pc'[x] = pc[x] \/ (x = w /\ pc'[x] = "return"))
        BY <1>0, <2>1 DEF WorkerInv, TypeOK
      <3>. QED BY <1>1, <1>2, <2>7, <3>1 DEF WorkerOK, Late, Flying
    <2>12. TaskInv'
      BY <1>0, <1>2, <2>4, <2>6 DEF TaskInv
    <2>. QED BY <2>9, <2>10, <2>11, <2>12 DEF WorkerInv
  <1>. QED BY <1>3, <1>4

\* The label goes from the base to the open rotation or, by a late
\* finishSecret of the base, back; both are usable.
LEMMA MoveCurrentStep ==
  ASSUME IInv, NEW w \in Workers, MoveCurrent(w)
  PROVE  (LabelInv /\ RotationInv /\ WorkerInv /\ TaskInv)'
  <1> USE DEF MoveCurrent, Goto, Raise, rotVars, jobVars, ecsVars, secretVars
  <1>0. TypeOK /\ LabelInv /\ RotationInv /\ WorkerInv /\ TaskInv
    BY DEF IInv
  <1>1. /\ token[w] \in {rotToken, Base} /\ token[w] # NoVersion
        /\ step[w] = FinishSecret
        /\ token[w] = rotToken => Installed
    BY <1>0 DEF WorkerInv, WorkerOK, Late, Flying
  <1>2. \A v : Usable(v)' = Usable(v)
    BY DEF Usable
  <1>3. Base' = Base /\ rotToken' = rotToken /\ Installed' = Installed
    BY <1>0, <1>1, <1>2 DEF Base, LabelInv, Installed
  <1>4. LabelInv'
    <2>1. CASE current' = current /\ previous' = previous
      BY <1>0, <1>2, <1>3, <2>1 DEF LabelInv
    <2>2. CASE current' = token[w] /\ previous' = current
      <3>1. Usable(current')
        BY <1>0, <1>1, <2>2 DEF Installed, LabelInv
      <3>2. verUser' = verUser /\ rolePw' = rolePw /\ pending' = pending
        OBVIOUS
      <3>3. Usable(previous)'
        BY <1>0, <1>2, <2>2, <3>2 DEF LabelInv, Usable
      <3>. QED
        BY <1>0, <1>2, <1>3, <3>1, <3>2, <3>3 DEF LabelInv, Usable
    <2>. QED BY <2>1, <2>2
  <1>5. RotationInv'
    BY <1>0, <1>3 DEF RotationInv
  <1>6. ASSUME NEW x \in Workers PROVE WorkerOK(x)'
    <2>1. WorkerOK(x)
          /\ (pc'[x] = pc[x] \/ (x = w /\ pc'[x] \in {"roll", "idle"}))
      BY <1>0 DEF WorkerInv, TypeOK
    <2>. QED BY <1>1, <1>3, <2>1 DEF WorkerOK, Late, Flying
  <1>7. TaskInv'
    BY <1>0, <1>2, <1>3 DEF TaskInv
  <1>. QED BY <1>4, <1>5, <1>6, <1>7 DEF WorkerInv

\* A task that starts takes the live credential, which is usable.
LEMMA StartTaskStep ==
  ASSUME IInv, NEW k \in Tasks, StartTask(k)
  PROVE  (LabelInv /\ RotationInv /\ WorkerInv /\ TaskInv)'
  <1> USE DEF StartTask, secretVars, rotVars, jobVars
  <1>0. TypeOK /\ LabelInv /\ RotationInv /\ WorkerInv /\ TaskInv
    BY DEF IInv
  <1>1. Frame /\ rotStep' = rotStep
    BY DEF Frame
  <1>2. ASSUME NEW x \in Workers PROVE WorkerOK(x)'
    BY <1>0, <1>1, WorkerFrame DEF WorkerInv
  <1>3. TaskInv'
    <2>1. current \in {Base, rotToken} \ {NoVersion}
      BY <1>0, ConstantAssumption DEF Base, TypeOK
    <2>. QED
      BY <1>0, <1>1, <2>1, FrameStep DEF TaskInv, TypeOK, Frame
  <1>. QED BY <1>0, <1>1, <1>2, <1>3, FrameStep DEF WorkerInv

-----------------------------------------------------------------------------
(* Steps that move one worker and nothing else the invariant speaks of.    *)

LEMMA OneWorkerStep ==
  ASSUME IInv, NEW w \in Workers, Frame, rotStep' = rotStep, held' = held,
         WorkerOK(w)',
         \A x \in Workers \ {w} :
            /\ pc'[x] = pc[x] /\ step'[x] = step[x]
            /\ token'[x] = token[x] /\ user'[x] = user[x]
  PROVE  (LabelInv /\ RotationInv /\ WorkerInv /\ TaskInv)'
  <1>1. ASSUME NEW x \in Workers \ {w} PROVE WorkerOK(x)'
    BY WorkerFrame DEF IInv, WorkerInv
  <1>. QED BY <1>1, FrameStep DEF IInv, WorkerInv

LEMMA DeliverStep ==
  ASSUME IInv, NEW w \in Workers, NEW t \in Tokens, NEW s \in Steps,
         Deliver(w, t, s),
         \/ t = rotToken /\ s <= rotStep
         \/ t # rotToken /\ verUser[t] # NoUser /\ s \in LateSteps
  PROVE  (LabelInv /\ RotationInv /\ WorkerInv /\ TaskInv)'
  <1> USE DEF Deliver, secretVars, rotVars, ecsVars
  <1>1. Frame /\ rotStep' = rotStep /\ held' = held
    BY DEF Frame
  <1>2. WorkerOK(w)'
    <2>1. pc'[w] = "describe" /\ token'[w] = t /\ step'[w] = s /\ t # NoVersion
      BY ConstantAssumption DEF IInv, TypeOK, Versions
    <2>2. CASE t = rotToken /\ s <= rotStep
      <3>1. s > SetSecret => rotStep > SetSecret
        BY <2>2 DEF IInv, TypeOK
      <3>2. s > SetSecret => Installed
        BY <3>1 DEF IInv, RotationInv
      <3>. QED BY <1>1, <2>1, <2>2, <3>2, FrameStep DEF WorkerOK, Late, Flying
    <2>3. CASE t # rotToken /\ verUser[t] # NoUser /\ s \in LateSteps
      BY <1>1, <2>1, <2>3, FrameStep DEF WorkerOK, Late, Flying, Frame
    <2>. QED BY <2>2, <2>3
  <1>3. \A x \in Workers \ {w} :
            /\ pc'[x] = pc[x] /\ step'[x] = step[x]
            /\ token'[x] = token[x] /\ user'[x] = user[x]
    BY DEF IInv, TypeOK
  <1>. QED BY <1>1, <1>2, <1>3, OneWorkerStep

LEMMA DescribeStep ==
  ASSUME IInv, NEW w \in Workers, Describe(w)
  PROVE  (LabelInv /\ RotationInv /\ WorkerInv /\ TaskInv)'
  <1> USE DEF Describe, Goto, secretVars, rotVars, ecsVars
  <1>1. Frame /\ rotStep' = rotStep /\ held' = held
    BY DEF Frame
  <1>2. WorkerOK(w)'
    <2>1. WorkerOK(w) /\ Flying(w)
      BY DEF IInv, WorkerInv, Flying
    <2>2. \/ pc'[w] = "move" /\ step[w] = FinishSecret
          \/ pc'[w] = "return" /\ token[w] = current
          \/ pc'[w] = "readPending"
      BY DEF IInv, TypeOK
    <2>3. token[w] = rotToken /\ token[w] = current => Installed
      BY <2>1 DEF WorkerOK, Late, Installed, IInv, LabelInv
    <2>4. Late(w) => pc'[w] = "readPending" /\ Late(w)'
      BY <1>1, <2>2, FrameStep DEF Late, Base, Frame, secretVars, IInv, TypeOK
    <2>. QED
      BY <1>1, <2>1, <2>2, <2>3, <2>4, FrameStep DEF WorkerOK, Flying
  <1>3. \A x \in Workers \ {w} :
            /\ pc'[x] = pc[x] /\ step'[x] = step[x]
            /\ token'[x] = token[x] /\ user'[x] = user[x]
    BY DEF IInv, TypeOK
  <1>. QED BY <1>1, <1>2, <1>3, OneWorkerStep

LEMMA ReadPendingStep ==
  ASSUME IInv, NEW w \in Workers, ReadPending(w)
  PROVE  (LabelInv /\ RotationInv /\ WorkerInv /\ TaskInv)'
  <1> USE DEF ReadPending, Goto, Raise, _pending, secretVars, rotVars, ecsVars
  <1>1. Frame /\ rotStep' = rotStep /\ held' = held
    BY DEF Frame
  <1>2. WorkerOK(w)'
    <2>1. WorkerOK(w) /\ Flying(w)
      BY DEF IInv, WorkerInv, Flying
    <2>l. Late(w) => ~_pending(w)
      BY DEF Late, IInv, RotationInv
    <2>2. CASE step[w] = CreateSecret
      <3>1. pc'[w] = IF _pending(w) THEN "return" ELSE "readCurrent"
        BY <2>2 DEF IInv, TypeOK
      <3>2. Late(w) => Late(w)'
        BY <1>1, <2>l, <3>1, FrameStep DEF Late, Frame, secretVars
      <3>. QED
        BY <1>1, <2>1, <2>2, <2>l, <3>1, <3>2, FrameStep DEF WorkerOK, Flying
    <2>3. CASE step[w] # CreateSecret /\ ~_pending(w)
      BY <2>3 DEF WorkerOK, Late, Flying, IInv, TypeOK
    <2>4. CASE step[w] # CreateSecret /\ _pending(w)
      <3>1. /\ user'[w] = verUser[token[w]]
            /\ pc'[w] = (IF step[w] = SetSecret THEN "alter" ELSE "connect")
        BY <2>4 DEF IInv, TypeOK
      <3>2. verUser[token[w]] \in Users
        BY <2>1, <2>4, <2>l DEF IInv, LabelInv, WorkerOK
      <3>. QED
        BY <1>1, <2>1, <2>4, <2>l, <3>1, <3>2, FrameStep
        DEF WorkerOK, Late, Flying, Frame
    <2>. QED BY <2>2, <2>3, <2>4
  <1>3. \A x \in Workers \ {w} :
            /\ pc'[x] = pc[x] /\ step'[x] = step[x]
            /\ token'[x] = token[x] /\ user'[x] = user[x]
    BY DEF IInv, TypeOK
  <1>. QED BY <1>1, <1>2, <1>3, OneWorkerStep

LEMMA ReadCurrentStep ==
  ASSUME IInv, NEW w \in Workers, ReadCurrent(w)
  PROVE  (LabelInv /\ RotationInv /\ WorkerInv /\ TaskInv)'
  <1> USE DEF ReadCurrent, Goto, secretVars, rotVars, ecsVars
  <1>1. Frame /\ rotStep' = rotStep /\ held' = held
    BY DEF Frame
  <1>2. WorkerOK(w)'
    <2>1. WorkerOK(w) /\ Flying(w)
      BY DEF IInv, WorkerInv, Flying
    <2>2. verUser[rotToken] = NoUser => current = Base
      BY UserFacts DEF IInv, LabelInv, Usable, Base
    <2>. QED
      BY <1>1, <2>1, <2>2, FrameStep DEF WorkerOK, Late, Flying, Frame, IInv, TypeOK
  <1>3. \A x \in Workers \ {w} :
            /\ pc'[x] = pc[x] /\ step'[x] = step[x]
            /\ token'[x] = token[x] /\ user'[x] = user[x]
    BY DEF IInv, TypeOK
  <1>. QED BY <1>1, <1>2, <1>3, OneWorkerStep

LEMMA ConnectStep ==
  ASSUME IInv, NEW w \in Workers, Connect(w)
  PROVE  (LabelInv /\ RotationInv /\ WorkerInv /\ TaskInv)'
  <1> USE DEF Connect, Goto, secretVars, rotVars, jobVars, ecsVars
  <1>1. Frame /\ rotStep' = rotStep /\ held' = held
    BY DEF Frame
  <1>2. WorkerOK(w)'
    <2>1. WorkerOK(w) /\ Flying(w)
      BY DEF IInv, WorkerInv, Flying
    <2>2. \/ pc'[w] = "idle"
          \/ pc'[w] = "return" /\ rolePw[user[w]] = token[w]
      BY DEF IInv, TypeOK
    <2>3. rolePw[user[w]] = token[w] /\ token[w] = rotToken => Installed
      BY <2>1 DEF WorkerOK, Late, Installed, Usable
    <2>. QED BY <1>1, <2>1, <2>2, <2>3, FrameStep DEF WorkerOK, Late, Flying
  <1>3. \A x \in Workers \ {w} :
            /\ pc'[x] = pc[x] /\ step'[x] = step[x]
            /\ token'[x] = token[x] /\ user'[x] = user[x]
    BY DEF IInv, TypeOK
  <1>. QED BY <1>1, <1>2, <1>3, OneWorkerStep

LEMMA RollServiceStep ==
  ASSUME IInv, NEW w \in Workers, RollService(w)
  PROVE  (LabelInv /\ RotationInv /\ WorkerInv /\ TaskInv)'
  <1> USE DEF RollService, Goto, secretVars, rotVars, jobVars
  <1>1. Frame /\ rotStep' = rotStep /\ held' = held
    BY DEF Frame
  <1>2. WorkerOK(w)'
    BY <1>1, FrameStep DEF WorkerOK, Late, Flying, IInv, WorkerInv, TypeOK
  <1>3. \A x \in Workers \ {w} :
            /\ pc'[x] = pc[x] /\ step'[x] = step[x]
            /\ token'[x] = token[x] /\ user'[x] = user[x]
    BY DEF IInv, TypeOK
  <1>. QED BY <1>1, <1>2, <1>3, OneWorkerStep

LEMMA CrashStep ==
  ASSUME IInv, NEW w \in Workers, Crash(w)
  PROVE  (LabelInv /\ RotationInv /\ WorkerInv /\ TaskInv)'
  <1> USE DEF Crash, Goto, secretVars, rotVars, jobVars, ecsVars
  <1>1. Frame /\ rotStep' = rotStep /\ held' = held
    BY DEF Frame
  <1>2. WorkerOK(w)'
    BY DEF WorkerOK, Late, Flying, IInv, TypeOK
  <1>3. \A x \in Workers \ {w} :
            /\ pc'[x] = pc[x] /\ step'[x] = step[x]
            /\ token'[x] = token[x] /\ user'[x] = user[x]
    BY DEF IInv, TypeOK
  <1>. QED BY <1>1, <1>2, <1>3, OneWorkerStep

\* Secrets Manager counts setSecret as done only once the password is in.
LEMMA ReturnStep ==
  ASSUME IInv, NEW w \in Workers, Return(w)
  PROVE  (LabelInv /\ RotationInv /\ WorkerInv /\ TaskInv)'
  <1> USE DEF Return, Goto, secretVars, jobVars, ecsVars
  <1>0. TypeOK /\ LabelInv /\ RotationInv /\ WorkerInv /\ TaskInv
    BY DEF IInv
  <1>1. Frame /\ held' = held
    BY DEF Frame
  <1>2. rotStep' > SetSecret => Installed
    <2>1. CASE rotStep' = rotStep
      BY <1>0, <2>1 DEF RotationInv
    <2>2. CASE token[w] = rotToken /\ step[w] = rotStep /\ rotStep' = rotStep + 1
      <3>1. step[w] \in Steps /\ WorkerOK(w) /\ Flying(w)
        BY <1>0 DEF TypeOK, WorkerInv, Flying
      <3>. QED BY <2>2, <3>1 DEF WorkerOK, Late
    <2>. QED BY <2>1, <2>2
  <1>3. rotStep' # NoStep => rotToken # NoVersion
    <2>1. CASE rotStep' = rotStep
      BY <1>0, <2>1 DEF RotationInv
    <2>2. CASE token[w] = rotToken
      BY <1>0, <2>2 DEF WorkerInv, WorkerOK, Late, Flying
    <2>. QED BY <2>1, <2>2
  <1>4. RotationInv'
    BY <1>0, <1>1, <1>2, <1>3, FrameStep DEF RotationInv, Frame
  <1>5. ASSUME NEW x \in Workers PROVE WorkerOK(x)'
    <2>1. CASE x = w
      BY <1>0, <2>1 DEF WorkerOK, Late, Flying, TypeOK
    <2>2. CASE x # w
      BY <1>0, <1>1, <2>2, WorkerFrame DEF WorkerInv, TypeOK
    <2>. QED BY <2>1, <2>2
  <1>. QED BY <1>0, <1>1, <1>4, <1>5, FrameStep DEF WorkerInv

\* No step but the above concerns the invariant.
LEMMA QuietStep ==
  ASSUME IInv, Reattempt \/ UNCHANGED vars
  PROVE  (LabelInv /\ RotationInv /\ WorkerInv /\ TaskInv)'
  <1> USE DEF Reattempt, secretVars, rotVars, jobVars, ecsVars, vars
  <1>0. TypeOK /\ LabelInv /\ RotationInv /\ WorkerInv /\ TaskInv
    BY DEF IInv
  <1>1. Frame /\ held' = held
    BY DEF Frame
  <1>2. RotationInv'
    BY <1>0, <1>1, FrameStep DEF RotationInv, Frame
  <1>3. ASSUME NEW x \in Workers PROVE WorkerOK(x)'
    BY <1>0, <1>1, WorkerFrame DEF WorkerInv
  <1>. QED BY <1>0, <1>1, <1>2, <1>3, FrameStep DEF WorkerInv

-----------------------------------------------------------------------------
LEMMA InitInv == Init => IInv
  <1> SUFFICES ASSUME Init PROVE IInv
    OBVIOUS
  <1> USE ConstantAssumption, UserFacts DEF Init, NothingRunning
  <1>1. APP_USERS[1] \in Users
    BY DEF Users
  <1>2. TypeOK
    BY <1>1 DEF TypeOK, Versions, PCs
  <1>3. Base = current /\ Usable(current) /\ ~Installed
    BY <1>1 DEF Base, Usable, Installed, Versions
  <1>4. LabelInv
    BY <1>3 DEF LabelInv, Versions
  <1>5. RotationInv
    BY <1>3 DEF RotationInv
  <1>6. WorkerInv
    BY DEF WorkerInv, WorkerOK, Late, Flying
  <1>7. TaskInv
    BY <1>3, ConstantAssumption DEF TaskInv, Versions
  <1>. QED BY <1>2, <1>4, <1>5, <1>6, <1>7 DEF IInv

LEMMA NextInv == IInv /\ [Next]_vars => IInv'
  <1> SUFFICES ASSUME IInv, [Next]_vars PROVE IInv'
    OBVIOUS
  <1>t. TypeOK'
    BY TypeStep
  <1> DEFINE Rest == LabelInv /\ RotationInv /\ WorkerInv /\ TaskInv
  <1>1. ASSUME NEW t \in Tokens, StartRotation(t) PROVE Rest'
    BY <1>1, StartRotationStep
  <1>2. ASSUME Reattempt \/ UNCHANGED vars PROVE Rest'
    BY <1>2, QuietStep
  <1>3. ASSUME Abandon PROVE Rest'
    BY <1>3, AbandonStep
  <1>4. ASSUME NEW w \in Workers, Invoke(w) PROVE Rest'
    <2>1. Deliver(w, rotToken, rotStep) /\ rotStep \in Steps
          /\ rotToken \in Tokens
      BY <1>4 DEF Invoke, IInv, RotationInv, TypeOK
    <2>. QED BY <2>1, DeliverStep
  <1>5. ASSUME NEW w \in Workers, NEW t \in Tokens, NEW s \in Steps,
               Redeliver(w, t, s) PROVE Rest'
    BY <1>5, DeliverStep DEF Redeliver
  <1>6. ASSUME NEW w \in Workers, Handler(w) PROVE Rest'
    BY <1>6, DescribeStep, ReadPendingStep, ReadCurrentStep, PutPendingStep,
       AlterRoleStep, ConnectStep, MoveCurrentStep, RollServiceStep, ReturnStep
    DEF Handler
  <1>7. ASSUME NEW w \in Workers, Crash(w) PROVE Rest'
    BY <1>7, CrashStep
  <1>8. ASSUME NEW k \in Tasks, StartTask(k) PROVE Rest'
    BY <1>8, StartTaskStep
  <1>9. Rest'
    BY <1>1, <1>2, <1>3, <1>4, <1>5, <1>6, <1>7, <1>8 DEF Next
  <1>. QED BY <1>t, <1>9 DEF IInv

\* The invariant holds throughout.
THEOREM Invariance == Spec => []IInv
  BY InitInv, NextInv, PTL DEF Spec

-----------------------------------------------------------------------------
\* Every variable keeps its type.
THEOREM TypeCorrect == Spec => []TypeOK
  <1>1. IInv => TypeOK
    BY DEF IInv
  <1>. QED BY <1>1, Invariance, PTL

\* rotate_handler: a task that starts at any moment can log in.
THEOREM CurrentAlwaysUsable == Spec => []CurrentUsable
  <1>1. IInv => CurrentUsable
    BY DEF IInv, LabelInv, CurrentUsable
  <1>. QED BY <1>1, Invariance, PTL

\* app.py:14-16, "the previous credential stays valid until the next rotation".
THEOREM PreviousStaysUsable == Spec => []PreviousUsable
  <1>1. IInv => PreviousUsable
    BY DEF IInv, LabelInv, PreviousUsable
  <1>. QED BY <1>1, Invariance, PTL

\* No running task is locked out, provided a rotation is opened only once
\* every task is on the live credential.
THEOREM NoTaskLockedOut ==
  ASSUME RollFirst = TRUE PROVE Spec => []NoDeadCredential
  <1>1. IInv => NoDeadCredential
    BY DEF IInv, TaskInv, NoDeadCredential
  <1>. QED BY <1>1, Invariance, PTL

\* The steps that neither move a label nor store a version or a password.
LEMMA OnlyHandlersWrite ==
  ASSUME [Next]_vars
  PROVE  \/ UNCHANGED <<verUser, current, rolePw>>
         \/ \E w \in Workers : PutPending(w) \/ AlterRole(w) \/ MoveCurrent(w)
  <1> USE DEF secretVars, vars
  <1>1. CASE \E t \in Tokens : StartRotation(t)
    BY <1>1 DEF StartRotation
  <1>2. CASE Reattempt \/ Abandon \/ UNCHANGED vars
    BY <1>2 DEF Reattempt, Abandon
  <1>3. ASSUME NEW w \in Workers,
               Invoke(w) \/ (\E t \in Tokens, s \in Steps : Redeliver(w, t, s)) \/ Crash(w)
        PROVE  UNCHANGED <<verUser, current, rolePw>>
    BY <1>3 DEF Invoke, Redeliver, Deliver, Crash
  <1>4. ASSUME NEW w \in Workers, Handler(w)
        PROVE  \/ UNCHANGED <<verUser, current, rolePw>>
               \/ PutPending(w) \/ AlterRole(w) \/ MoveCurrent(w)
    BY <1>4 DEF Handler, Describe, ReadPending, ReadCurrent, Connect,
       RollService, Return
  <1>5. CASE \E k \in Tasks : StartTask(k)
    BY <1>5 DEF StartTask
  <1>. QED BY <1>1, <1>2, <1>3, <1>4, <1>5 DEF Next

\* Only a task that starts changes what a task holds.
LEMMA OnlyTasksRead ==
  ASSUME [Next]_vars
  PROVE  held' = held \/ \E k \in Tasks : StartTask(k)
  <1> USE DEF ecsVars, vars
  <1>1. CASE \E t \in Tokens : StartRotation(t)
    BY <1>1 DEF StartRotation
  <1>2. CASE Reattempt \/ Abandon \/ UNCHANGED vars
    BY <1>2 DEF Reattempt, Abandon
  <1>3. ASSUME NEW w \in Workers,
               Invoke(w) \/ (\E t \in Tokens, s \in Steps : Redeliver(w, t, s)) \/ Crash(w)
        PROVE  held' = held
    BY <1>3 DEF Invoke, Redeliver, Deliver, Crash
  <1>4. ASSUME NEW w \in Workers, Handler(w) PROVE held' = held
    BY <1>4 DEF Handler, Describe, ReadPending, ReadCurrent, PutPending,
       AlterRole, Connect, MoveCurrent, RollService, Return
  <1>. QED BY <1>1, <1>2, <1>3, <1>4 DEF Next

\* finishSecret only ever moves the label to the other database user.
THEOREM AlwaysAlternates == Spec => Alternates
  <1>1. ASSUME IInv, [Next]_vars, current' # current
        PROVE  verUser[current'] # verUser[current]
    <2>1. ASSUME NEW w \in Workers, MoveCurrent(w)
          PROVE  verUser[current'] # verUser[current]
      <3>1. token[w] \in {rotToken, Base} \ {NoVersion} /\ current \in Versions
        BY <1>1, <2>1
        DEF MoveCurrent, IInv, WorkerInv, WorkerOK, Late, Flying, TypeOK
      <3>2. current' = token[w]
        BY <1>1, <2>1 DEF MoveCurrent
      <3>3. {current, current'} = {Base, rotToken} /\ rotToken # NoVersion
        BY <1>1, <3>1, <3>2, ConstantAssumption DEF Base
      <3>. QED BY <1>1, <3>3 DEF IInv, RotationInv
    <2>. QED
      BY <1>1, <2>1, OnlyHandlersWrite DEF PutPending, AlterRole, secretVars
  <1>2. IInv /\ [Next]_vars
          => [current' # current => verUser[current'] # verUser[current]]_vars
    BY <1>1
  <1>. QED BY <1>2, Invariance, PTL DEF Spec, Alternates

\* A setSecret, however late, never puts back a password that the database
\* has already stopped accepting.
THEOREM RetiredNeverReturns == Spec => RetiredStaysRetired
  <1>1. ASSUME IInv, [Next]_vars, NEW v \in Versions,
               verUser[v] # NoUser, v # rotToken, ~Usable(v)
        PROVE  ~(Usable(v))'
    <2>0. TypeOK /\ LabelInv /\ WorkerInv
      BY <1>1 DEF IInv
    <2>1. ASSUME NEW w \in Workers, PutPending(w) PROVE ~(Usable(v))'
      <3>1. verUser'[v] = verUser[v] /\ rolePw' = rolePw
        BY <1>1, <2>0, <2>1 DEF PutPending, TypeOK
      <3>. QED BY <1>1, <3>1 DEF Usable
    <2>2. ASSUME NEW w \in Workers, AlterRole(w) PROVE ~(Usable(v))'
      <3>1. token[w] \in {rotToken, Base} /\ user[w] \in Users
        BY <2>0, <2>2 DEF AlterRole, WorkerInv, WorkerOK, Late, Flying
      <3>2. token[w] # v
        BY <1>1, <2>0, <3>1 DEF LabelInv
      <3>3. verUser' = verUser /\ \A u \in Users : rolePw'[u] = v => rolePw[u] = v
        BY <2>0, <2>2, <3>1, <3>2 DEF AlterRole, secretVars, TypeOK
      <3>. QED BY <1>1, <3>3 DEF Usable
    <2>3. ASSUME UNCHANGED <<verUser, rolePw>> PROVE ~(Usable(v))'
      BY <1>1, <2>3 DEF Usable
    <2>. QED
      BY <1>1, <2>1, <2>2, <2>3, OnlyHandlersWrite DEF MoveCurrent
  <1>2. IInv /\ [Next]_vars =>
          [\A v \in Versions :
             verUser[v] # NoUser /\ v # rotToken /\ ~Usable(v)
               => ~(Usable(v))']_vars
    BY <1>1
  <1>. QED BY <1>2, Invariance, PTL DEF Spec, RetiredStaysRetired

-----------------------------------------------------------------------------
(* Why an invocation raises.                                               *)

RolesThere == \A u \in Users : rolePw[u] # NoVersion

\* The version of a rotation is created with its label, which stays on it until
\* the rotation is abandoned, and is there once createSecret is answered.
PendingInv ==
  /\ rotStep # NoStep /\ verUser[rotToken] # NoUser => pending = rotToken
  /\ rotStep > CreateSecret => verUser[rotToken] # NoUser

\* What a worker in flight for the open rotation relies on, for one worker.
DrivenOK(w) ==
  Flying(w) =>
    /\ pc[w] = "connect" => step[w] > SetSecret
    /\ token[w] = rotToken /\ (step[w] > CreateSecret \/ pc[w] = "return")
         => verUser[rotToken] # NoUser
    /\ token[w] = rotToken /\ pc[w] = "move" => seen[w] \in {Base, rotToken}

CauseInv == RolesThere /\ PendingInv /\ \A w \in Workers : DrivenOK(w)

\* A worker that did not move, while the rotation keeps its base and its version.
LEMMA DrivenFrame ==
  ASSUME NEW x \in Workers, DrivenOK(x), Base' = Base, rotToken' = rotToken,
         verUser[rotToken] # NoUser => verUser'[rotToken] # NoUser,
         pc'[x] = pc[x], step'[x] = step[x], token'[x] = token[x], seen'[x] = seen[x]
  PROVE  DrivenOK(x)'
  BY DEF DrivenOK, Flying

\* One worker moves and at most its own locals change.
LEMMA DrivenStep ==
  ASSUME CauseInv, NEW w \in Workers, Frame, rotStep' = rotStep, DrivenOK(w)',
         \A x \in Workers \ {w} :
            /\ pc'[x] = pc[x] /\ step'[x] = step[x]
            /\ token'[x] = token[x] /\ seen'[x] = seen[x]
  PROVE  CauseInv'
  <1>1. Base' = Base /\ rotToken' = rotToken /\ verUser' = verUser
        /\ pending' = pending /\ rolePw' = rolePw
    BY FrameStep DEF Frame, secretVars
  <1>2. ASSUME NEW x \in Workers \ {w} PROVE DrivenOK(x)'
    BY <1>1, DrivenFrame DEF CauseInv
  <1>3. RolesThere' /\ PendingInv'
    BY <1>1 DEF CauseInv, RolesThere, PendingInv
  <1>. QED BY <1>2, <1>3 DEF CauseInv

LEMMA CauseHandler ==
  ASSUME IInv, CauseInv, NEW w \in Workers, Handler(w)
  PROVE  CauseInv'
  <1> USE DEF secretVars, rotVars, jobVars, ecsVars
  <1>a. TypeOK /\ LabelInv /\ RotationInv /\ WorkerOK(w) /\ DrivenOK(w) /\ Flying(w)
    BY DEF IInv, WorkerInv, CauseInv, Handler, Describe, ReadPending, ReadCurrent,
           PutPending, AlterRole, Connect, MoveCurrent, RollService, Return, Flying
  <1>b. verUser[current] # NoUser /\ current \in {Base, rotToken}
    BY <1>a, UserFacts DEF LabelInv, Usable, Base
  <1>1. CASE Describe(w)
    <2>1. Frame /\ rotStep' = rotStep
      BY <1>1 DEF Describe, Frame
    <2>2. /\ token'[w] = token[w] /\ step'[w] = step[w] /\ seen'[w] = current
          /\ pc'[w] # "connect" /\ (pc'[w] = "return" => token[w] = current)
      BY <1>1, <1>a DEF Describe, Goto, TypeOK
    <2>3. DrivenOK(w)'
      BY <1>a, <1>b, <2>1, <2>2, FrameStep DEF DrivenOK, Flying, Frame
    <2>. QED BY <1>1, <1>a, <2>1, <2>3, DrivenStep DEF Describe, Goto, TypeOK
  <1>2. CASE ReadPending(w)
    <2>1. Frame /\ rotStep' = rotStep
      BY <1>2 DEF ReadPending, Frame
    <2>2. /\ token'[w] = token[w] /\ step'[w] = step[w] /\ pc'[w] # "move"
          /\ pc'[w] = "connect" => step[w] > SetSecret
          /\ pc'[w] = "return" => pending = token[w]
      BY <1>2, <1>a DEF ReadPending, Goto, Raise, _pending, TypeOK
    <2>3. token[w] = rotToken /\ pending = token[w] => verUser[rotToken] # NoUser
      BY <1>a, UserFacts DEF LabelInv, WorkerOK, Late
    <2>4. DrivenOK(w)'
      BY <1>a, <2>1, <2>2, <2>3 DEF DrivenOK, Flying, Frame
    <2>. QED BY <1>2, <1>a, <2>1, <2>4, DrivenStep
             DEF ReadPending, Goto, Raise, TypeOK
  <1>3. CASE ReadCurrent(w) \/ RollService(w)
    <2>1. Frame /\ rotStep' = rotStep
      BY <1>3 DEF ReadCurrent, RollService, Frame
    <2>2. /\ token'[w] = token[w] /\ step'[w] = step[w]
          /\ pc'[w] \in {"put", "return"}
          /\ pc'[w] = "return" => step[w] > CreateSecret
      BY <1>3, <1>a DEF ReadCurrent, RollService, Goto, TypeOK, WorkerOK, Late
    <2>3. DrivenOK(w)'
      BY <1>a, <2>1, <2>2 DEF DrivenOK, Flying, Frame
    <2>. QED BY <1>3, <1>a, <2>1, <2>3, DrivenStep
             DEF ReadCurrent, RollService, Goto, TypeOK
  <1>4. CASE Connect(w)
    <2>1. Frame /\ rotStep' = rotStep
      BY <1>4 DEF Connect, Frame
    <2>2. /\ token'[w] = token[w] /\ step'[w] = step[w]
          /\ pc'[w] \in {"idle", "return"} /\ step[w] > CreateSecret
      BY <1>4, <1>a DEF Connect, Goto, TypeOK, DrivenOK
    <2>3. DrivenOK(w)'
      BY <1>a, <2>1, <2>2 DEF DrivenOK, Flying, Frame
    <2>. QED BY <1>4, <1>a, <2>1, <2>3, DrivenStep DEF Connect, Goto, TypeOK
  <1>5. CASE PutPending(w)
    <2>1. Base' = Base /\ rotToken' = rotToken /\ rotStep' = rotStep
      BY <1>5 DEF PutPending, Base
    <2>2. ASSUME NEW v \in Versions, verUser[v] # NoUser PROVE verUser'[v] # NoUser
      BY <1>5, <1>a, <2>2 DEF PutPending, TypeOK
    <2>3. token[w] \in Versions /\ user[w] \in Users \cup {NoUser} /\ step[w] = CreateSecret
      BY <1>5, <1>a DEF PutPending, WorkerOK, Late, TypeOK, Versions
    <2>4. pc'[w] = "return" => verUser'[token[w]] = user[w] /\ user[w] \in Users
      <3>1. CASE verUser[token[w]] = NoUser
        <4>1. token[w] = rotToken
          BY <1>a, <3>1, UserFacts DEF WorkerOK, Late, LabelInv, Usable
        <4>2. user[w] \in Users
          BY <1>5, <1>a, <3>1, <4>1, UserFacts
          DEF PutPending, WorkerOK, Late, LabelInv, Usable
        <4>. QED BY <1>5, <1>a, <2>3, <3>1, <4>2 DEF PutPending, Goto, TypeOK
      <3>2. CASE verUser[token[w]] # NoUser
        BY <1>5, <1>a, <3>2 DEF PutPending, Goto, Raise, TypeOK
      <3>. QED BY <3>1, <3>2
    <2>5. RolesThere' /\ PendingInv'
      <3>1. CASE verUser[token[w]] = NoUser
        <4>1. token[w] = rotToken /\ rolePw' = rolePw /\ pending' = token[w]
          BY <1>5, <1>a, <3>1, UserFacts DEF PutPending, WorkerOK, Late, LabelInv, Usable
        <4>2. verUser'[rotToken] # NoUser
          BY <1>5, <1>a, <2>3, <2>4, <3>1, <4>1, UserFacts
          DEF PutPending, Goto, TypeOK
        <4>. QED BY <2>1, <4>1, <4>2 DEF CauseInv, RolesThere, PendingInv
      <3>2. CASE verUser[token[w]] # NoUser
        BY <1>5, <2>1, <3>2 DEF PutPending, CauseInv, RolesThere, PendingInv
      <3>. QED BY <3>1, <3>2
    <2>6. DrivenOK(w)'
      <3>1. token'[w] = token[w] /\ step'[w] = step[w] /\ pc'[w] \in {"return", "idle"}
        BY <1>5, <1>a DEF PutPending, Goto, Raise, TypeOK
      <3>. QED BY <2>1, <2>3, <2>4, <3>1, UserFacts DEF DrivenOK, Flying
    <2>7. ASSUME NEW x \in Workers \ {w} PROVE DrivenOK(x)'
      <3>1. verUser[rotToken] # NoUser => verUser'[rotToken] # NoUser
        <4>1. CASE verUser[token[w]] = NoUser
          BY <1>a, <2>2, <2>3, <4>1, UserFacts DEF WorkerOK, Late, LabelInv, Usable
        <4>2. CASE verUser[token[w]] # NoUser
          BY <1>5, <4>2 DEF PutPending
        <4>. QED BY <4>1, <4>2
      <3>. QED BY <1>5, <1>a, <2>1, <3>1, DrivenFrame
           DEF PutPending, Goto, Raise, TypeOK, CauseInv
    <2>. QED BY <2>5, <2>6, <2>7 DEF CauseInv
  <1>6. CASE AlterRole(w)
    <2>1. Base' = Base /\ rotToken' = rotToken /\ rotStep' = rotStep
          /\ verUser' = verUser /\ pending' = pending
      BY <1>6 DEF AlterRole, Base
    <2>2. RolesThere' /\ PendingInv'
      BY <1>6, <1>a, <2>1 DEF AlterRole, TypeOK, WorkerOK, Late, CauseInv, RolesThere, PendingInv
    <2>3. /\ token'[w] = token[w] /\ step'[w] = step[w] /\ step[w] > CreateSecret
          /\ pc'[w] \in {"return", "idle"}
      BY <1>6, <1>a DEF AlterRole, Goto, Raise, TypeOK, WorkerOK, Late
    <2>4. DrivenOK(w)'
      BY <1>a, <2>1, <2>3 DEF DrivenOK, Flying
    <2>5. ASSUME NEW x \in Workers \ {w} PROVE DrivenOK(x)'
      BY <1>6, <1>a, <2>1, DrivenFrame DEF AlterRole, Goto, Raise, TypeOK, CauseInv
    <2>. QED BY <2>2, <2>4, <2>5 DEF CauseInv
  <1>7. CASE MoveCurrent(w)
    <2>1. Base' = Base /\ rotToken' = rotToken /\ rotStep' = rotStep
          /\ verUser' = verUser /\ pending' = pending /\ rolePw' = rolePw
      BY <1>7, <1>a DEF MoveCurrent, Base, LabelInv, WorkerOK, Late
    <2>2. RolesThere' /\ PendingInv'
      BY <2>1 DEF CauseInv, RolesThere, PendingInv
    <2>3. /\ token'[w] = token[w] /\ step'[w] = step[w] /\ step[w] > CreateSecret
          /\ pc'[w] \in {"roll", "idle"}
      BY <1>7, <1>a DEF MoveCurrent, Goto, Raise, TypeOK, WorkerOK, Late
    <2>4. DrivenOK(w)'
      BY <1>a, <2>1, <2>3 DEF DrivenOK, Flying
    <2>5. ASSUME NEW x \in Workers \ {w} PROVE DrivenOK(x)'
      BY <1>7, <1>a, <2>1, DrivenFrame DEF MoveCurrent, Goto, Raise, TypeOK, CauseInv
    <2>. QED BY <2>2, <2>4, <2>5 DEF CauseInv
  <1>8. CASE Return(w)
    <2>1. Base' = Base /\ rotToken' = rotToken
          /\ verUser' = verUser /\ pending' = pending /\ rolePw' = rolePw
      BY <1>8 DEF Return, Base
    <2>2. PendingInv'
      <3>1. CASE rotStep' = rotStep
        BY <2>1, <3>1 DEF CauseInv, PendingInv
      <3>2. CASE token[w] = rotToken /\ step[w] = rotStep /\ rotStep' = rotStep + 1
        <4>1. verUser[rotToken] # NoUser /\ rotStep # NoStep
          BY <1>8, <1>a, <3>2 DEF Return, DrivenOK, Flying, TypeOK
        <4>. QED BY <2>1, <4>1 DEF CauseInv, PendingInv
      <3>. QED BY <1>8, <3>1, <3>2 DEF Return
    <2>3. DrivenOK(w)'
      BY <1>8, <1>a DEF Return, Goto, TypeOK, DrivenOK, Flying
    <2>4. ASSUME NEW x \in Workers \ {w} PROVE DrivenOK(x)'
      BY <1>8, <1>a, <2>1, DrivenFrame DEF Return, Goto, TypeOK, CauseInv
    <2>. QED BY <2>1, <2>2, <2>3, <2>4 DEF CauseInv, RolesThere
  <1>. QED BY <1>1, <1>2, <1>3, <1>4, <1>5, <1>6, <1>7, <1>8 DEF Handler

\* What Secrets Manager, ECS, the operator and the faults do.
LEMMA CauseOthers ==
  ASSUME IInv, CauseInv, [Next]_vars, ~\E w \in Workers : Handler(w)
  PROVE  CauseInv'
  <1> USE DEF secretVars, rotVars, jobVars, ecsVars
  <1>a. TypeOK /\ LabelInv /\ RotationInv
    BY DEF IInv
  <1>1. ASSUME NEW t \in Tokens, StartRotation(t) PROVE CauseInv'
    <2>1. ASSUME NEW x \in Workers, Flying(x) PROVE token[x] # t
      BY <1>1, <1>a, <2>1, UserFacts
      DEF StartRotation, NoStragglers, Flying, LabelInv, Usable
    <2>. QED BY <1>1, <1>a, <2>1
         DEF StartRotation, CauseInv, RolesThere, PendingInv, DrivenOK, Flying
  <1>2. CASE Abandon
    BY <1>2 DEF Abandon, CauseInv, RolesThere, PendingInv, DrivenOK, Flying, Base
  <1>3. CASE Reattempt
    BY <1>3 DEF Reattempt, CauseInv, RolesThere, PendingInv, DrivenOK, Flying, Base
  <1>4. ASSUME NEW w \in Workers, NEW t \in Tokens, NEW s \in Steps,
               Deliver(w, t, s), t = rotToken => s <= rotStep
        PROVE  CauseInv'
    <2>1. Frame /\ rotStep' = rotStep
      BY <1>4 DEF Deliver, Frame
    <2>2. /\ pc'[w] = "describe" /\ step'[w] = s /\ token'[w] = t
          /\ t = rotToken /\ s > CreateSecret => rotStep > CreateSecret
      BY <1>4, <1>a DEF Deliver, TypeOK
    <2>3. DrivenOK(w)'
      BY <2>1, <2>2 DEF DrivenOK, Flying, Frame, CauseInv, PendingInv
    <2>. QED BY <1>4, <1>a, <2>1, <2>3, DrivenStep DEF Deliver, TypeOK
  <1>5. ASSUME NEW w \in Workers,
               Invoke(w) \/ \E t \in Tokens, s \in Steps : Redeliver(w, t, s)
        PROVE  CauseInv'
    BY <1>4, <1>5, <1>a DEF Invoke, Redeliver, TypeOK, RotationInv
  <1>6. ASSUME NEW w \in Workers, Crash(w) PROVE CauseInv'
    <2>1. Frame /\ rotStep' = rotStep /\ DrivenOK(w)'
      BY <1>6, <1>a DEF Crash, Goto, Frame, DrivenOK, Flying, TypeOK
    <2>. QED BY <1>6, <1>a, <2>1, DrivenStep DEF Crash, Goto, TypeOK
  <1>7. CASE UNCHANGED vars \/ \E k \in Tasks : StartTask(k)
    BY <1>7 DEF vars, StartTask, CauseInv, RolesThere, PendingInv, DrivenOK, Flying, Base
  <1>. QED BY <1>1, <1>2, <1>3, <1>5, <1>6, <1>7 DEF Next

LEMMA CauseIsKnown == Spec => []CauseInv
  <1>1. Init => CauseInv
    BY ConstantAssumption, UserFacts
    DEF Init, NothingRunning, CauseInv, RolesThere, PendingInv, DrivenOK, Flying, Users, Versions
  <1>2. IInv /\ CauseInv /\ [Next]_vars => CauseInv'
    BY CauseHandler, CauseOthers
  <1>. QED BY <1>1, <1>2, Invariance, PTL DEF Spec

\* A worker that leaves its handler without an answer and without a fault.
LEMMA OnlyHandlersRaise ==
  ASSUME TypeOK, [Next]_vars, NEW w \in Workers,
         pc[w] \notin {"idle", "return"}, pc'[w] = "idle", faults' = faults
  PROVE  ReadPending(w) \/ PutPending(w) \/ AlterRole(w) \/ Connect(w) \/ MoveCurrent(w)
  <1> USE DEF TypeOK, vars, Goto, jobVars
  <1>1. ~UNCHANGED vars /\ ~Reattempt /\ ~Abandon
    BY DEF Reattempt, Abandon
  <1>2. ASSUME NEW t \in Tokens PROVE ~StartRotation(t)
    BY DEF StartRotation
  <1>3. ASSUME NEW k \in Tasks PROVE ~StartTask(k)
    BY DEF StartTask
  <1>4. ASSUME NEW x \in Workers PROVE ~Invoke(x) /\ ~\E t \in Tokens, s \in Steps : Redeliver(x, t, s)
    BY DEF Invoke, Redeliver, Deliver
  <1>5. ASSUME NEW x \in Workers PROVE ~Crash(x)
    BY DEF Crash
  <1>6. ASSUME NEW x \in Workers, Handler(x) PROVE x = w
    BY <1>6 DEF Handler, Describe, ReadPending, ReadCurrent, PutPending, AlterRole,
                Connect, MoveCurrent, RollService, Return, Raise
  <1>7. ~Describe(w) /\ ~ReadCurrent(w) /\ ~RollService(w) /\ ~Return(w)
    BY DEF Describe, ReadCurrent, RollService, Return
  <1>. QED BY <1>1, <1>2, <1>3, <1>4, <1>5, <1>6, <1>7 DEF Next, Handler

\* rotate_handler: as long as a version is pending its setSecret and testSecret
\* never fail for what another invocation did, of this rotation or an earlier
\* one; what a step of the open rotation raises on is done or abandoned, so that
\* a retry has nothing to repair.
THEOREM RaisesAreHarmless == Spec => RaisesHarmlessly
  <1>. DEFINE Harmless ==
         \A w \in Workers :
           /\ token[w] = rotToken
           /\ pc[w] \notin {"idle", "return"} /\ pc'[w] = "idle" /\ faults' = faults
           => \/ token[w] \in {current, previous}
              \/ step[w] = CreateSecret /\ pending = token[w]
              \/ rotStep = NoStep
  <1>1. ASSUME IInv, CauseInv, [Next]_vars PROVE Harmless
    <2>. SUFFICES ASSUME NEW w \in Workers, token[w] = rotToken,
                         pc[w] \notin {"idle", "return"},
                         pc'[w] = "idle", faults' = faults,
                         token[w] \notin {current, previous}
                  PROVE  \/ step[w] = CreateSecret /\ pending = token[w]
                         \/ rotStep = NoStep
      OBVIOUS
    <2>a. TypeOK /\ WorkerOK(w) /\ DrivenOK(w) /\ Flying(w) /\ RolesThere /\ PendingInv
      BY <1>1 DEF IInv, WorkerInv, CauseInv, Flying
    <2>b. token[w] = rotToken /\ current = Base /\ current # rotToken
      BY <2>a DEF Base
    <2>1. CASE ReadPending(w)
      BY <2>1, <2>a, <2>b
      DEF ReadPending, Goto, Raise, _pending, TypeOK, DrivenOK, PendingInv
    <2>2. CASE PutPending(w)
      BY <2>2, <2>a, <2>b DEF PutPending, Goto, TypeOK, WorkerOK, Late, PendingInv
    <2>3. CASE AlterRole(w)
      BY <2>3, <2>a DEF AlterRole, Goto, TypeOK, WorkerOK, Late, RolesThere
    <2>4. CASE Connect(w)
      BY <2>4, <2>a, <2>b DEF Connect, Goto, TypeOK, WorkerOK, Late, DrivenOK, Installed, Usable
    <2>5. CASE MoveCurrent(w)
      BY <2>5, <2>a, <2>b DEF MoveCurrent, Goto, TypeOK, DrivenOK
    <2>. QED BY <1>1, <2>a, <2>1, <2>2, <2>3, <2>4, <2>5, OnlyHandlersRaise
  <1>2. IInv /\ CauseInv /\ [Next]_vars => [Harmless]_vars
    BY <1>1
  <1>. QED BY <1>2, Invariance, CauseIsKnown, PTL DEF Spec, RaisesHarmlessly

-----------------------------------------------------------------------------
(* The rotation implements LiveCredential.                                 *)

\* A credential is named by its version, so two versions never share one.
LEMMA AcceptedIsUsable ==
  ASSUME TypeOK, NEW v \in Versions
  PROVE  (Credential(v) \in {<<u, rolePw[u]>> : u \in Users}) <=> Usable(v)
  BY DEF Credential, Usable, TypeOK

\* One ALTER ROLE leaves the live credential and the new one.
LEMMA AlterRoleKeepsPromise ==
  ASSUME IInv, Started, RollFirst = TRUE, NEW w \in Workers, AlterRole(w)
  PROVE  [Promise!Next]_(Promise!vars)
  <1> USE DEF AlterRole, secretVars, rotVars, jobVars, ecsVars
  <1>0. TypeOK /\ LabelInv /\ RotationInv /\ WorkerInv /\ TaskInv
    BY DEF IInv
  <1>1. /\ token[w] \in {rotToken, Base} /\ token[w] # NoVersion
        /\ user[w] \in Users /\ user[w] = verUser[token[w]]
    BY <1>0 DEF WorkerInv, WorkerOK, Late, Flying
  <1>2. Credential(current)' = Credential(current)
        /\ [k \in Tasks |-> Credential(held[k])]' = [k \in Tasks |-> Credential(held[k])]
    BY DEF Credential
  <1>3. CASE rolePw' = rolePw
    BY <1>2, <1>3 DEF Promise!vars
  <1>4. CASE rolePw' # rolePw
    <2>1. rolePw' = [rolePw EXCEPT ![user[w]] = token[w]]
      BY <1>4
    <2>2. token[w] # Base
      BY <1>0, <1>1, <1>4, <2>1 DEF LabelInv, Usable, TypeOK
    <2>3. token[w] = rotToken /\ rotToken \in Versions
      BY <1>0, <1>1, <2>2 DEF TypeOK, Versions
    <2>4. ~Usable(rotToken) /\ current = Base
      BY <1>0, <1>1, <1>4, <2>1, <2>3 DEF Usable, TypeOK, Base, LabelInv
    <2>5. \A k \in Tasks : held[k] = current
      BY <1>0, <2>4 DEF TaskInv, Started
    <2>6. /\ verUser[current] \in Users /\ rolePw[verUser[current]] = current
          /\ user[w] # verUser[current]
      BY <1>0, <1>1, <2>3, <2>4 DEF LabelInv, RotationInv, Usable
    <2>7. Users = {verUser[current], user[w]}
      BY <1>1, <2>6 DEF Users
    <2>8. PICK c \in Users \X Versions : c = <<user[w], rotToken>>
      BY <1>1, <2>3
    <2>9. {<<u, rolePw[u]>> : u \in Users}' = {Credential(current), c}
      BY <1>0, <1>1, <2>1, <2>3, <2>6, <2>7, <2>8 DEF Credential, TypeOK
    <2>10. \A k \in Tasks :
             [j \in Tasks |-> Credential(held[j])][k] = Credential(current)
      BY <2>5
    <2>11. Promise!Install(c)
      BY <1>2, <2>9, <2>10 DEF Promise!Install
    <2>. QED BY <2>8, <2>11 DEF Promise!Next
  <1>. QED BY <1>3, <1>4

\* Moving the label is a switch to the other accepted credential.
LEMMA MoveCurrentKeepsPromise ==
  ASSUME IInv, NEW w \in Workers, MoveCurrent(w)
  PROVE  [Promise!Next]_(Promise!vars)
  <1> USE DEF MoveCurrent, rotVars, jobVars, ecsVars
  <1>0. TypeOK /\ LabelInv /\ WorkerInv
    BY DEF IInv
  <1>1. /\ [k \in Tasks |-> Credential(held[k])]' = [k \in Tasks |-> Credential(held[k])]
        /\ {<<u, rolePw[u]>> : u \in Users}' = {<<u, rolePw[u]>> : u \in Users}
        /\ \A v : Credential(v)' = Credential(v)
    BY DEF Credential
  <1>2. CASE current' = current
    BY <1>1, <1>2 DEF Promise!vars, Credential
  <1>3. CASE current' # current
    <2>1. current' = token[w] /\ step[w] = FinishSecret
      BY <1>0, <1>3 DEF WorkerInv, WorkerOK, Late, Flying
    <2>2. Usable(current') /\ current' \in Versions /\ verUser[current'] \in Users
      BY <1>0, <2>1
      DEF WorkerInv, WorkerOK, Late, Flying, Installed, LabelInv, TypeOK, Usable,
          Versions
    <2>3. /\ Credential(current') \in {<<u, rolePw[u]>> : u \in Users}
          /\ Credential(current') \in Users \X Versions
      BY <1>0, <2>2, AcceptedIsUsable DEF Credential
    <2>4. PICK c \in Users \X Versions : c = Credential(current')
      BY <2>3
    <2>5. Credential(current)' = c
      BY <2>4 DEF Credential
    <2>6. Promise!Switch(c)
      BY <1>1, <2>3, <2>4, <2>5 DEF Promise!Switch
    <2>. QED BY <2>6 DEF Promise!Next
  <1>. QED BY <1>2, <1>3

\* Storing a version names no credential that anybody holds.
LEMMA PutPendingKeepsPromise ==
  ASSUME IInv, Started, RollFirst = TRUE, NEW w \in Workers, PutPending(w)
  PROVE  UNCHANGED Promise!vars
  <1> USE DEF PutPending, rotVars, jobVars, ecsVars
  <1>0. TypeOK /\ LabelInv /\ TaskInv
    BY DEF IInv
  <1>1. \A v \in Versions : verUser[v] \in Users => verUser'[v] = verUser[v]
    BY <1>0, UserFacts DEF TypeOK
  <1>2. Credential(current)' = Credential(current)
    BY <1>0, <1>1 DEF LabelInv, Usable, TypeOK, Credential
  <1>3. \A k \in Tasks : verUser'[held[k]] = verUser[held[k]]
    <2>1. ASSUME NEW k \in Tasks PROVE verUser'[held[k]] = verUser[held[k]]
      <3>1. verUser[held[k]] # NoUser /\ held[k] \in Versions
        BY <1>0, UserFacts DEF TaskInv, Started, Usable, LabelInv, TypeOK, Versions
      <3>. QED BY <1>0, <3>1 DEF TypeOK
    <2>. QED BY <2>1
  <1>4. [k \in Tasks |-> Credential(held[k])]' = [k \in Tasks |-> Credential(held[k])]
    BY <1>3 DEF Credential
  <1>. QED BY <1>2, <1>4 DEF Promise!vars

\* A task starts on the live credential.
LEMMA StartTaskKeepsPromise ==
  ASSUME IInv, NEW k \in Tasks, StartTask(k)
  PROVE  [Promise!Next]_(Promise!vars)
  <1> USE DEF StartTask, secretVars
  <1>1. held \in [Tasks -> Versions \cup {NoVersion}]
    BY DEF IInv, TypeOK
  <1>2. [j \in Tasks |-> Credential(held[j])]'
          = [[j \in Tasks |-> Credential(held[j])] EXCEPT ![k] = Credential(current)]
    BY <1>1 DEF Credential
  <1>3. Promise!Start(k)
    BY <1>2 DEF Promise!Start, Credential
  <1>4. \E j \in Tasks : Promise!Start(j)
    BY <1>3
  <1>. QED BY <1>4 DEF Promise!Next

\* With a rotation opened only once the tasks have caught up, the rotation
\* implements the promise under the mapping given in SecretRotation.
THEOREM Implements == ASSUME RollFirst = TRUE PROVE Spec => KeepsPromise
  <1>1. Init => Promise!Init
    <2> SUFFICES ASSUME Init PROVE Promise!Init
      OBVIOUS
    <2>1. Credential(current) = <<APP_USERS[1], current>> /\ current \in Versions
      BY DEF Init, Credential, Versions
    <2>2. /\ APP_USERS[1] \in Users /\ APP_USERS[2] \in Users
          /\ Users = {APP_USERS[1], APP_USERS[2]}
      BY DEF Users
    <2>3. {<<u, rolePw[u]>> : u \in Users}
            = {<<APP_USERS[1], current>>, <<APP_USERS[2], current>>}
      BY <2>2 DEF Init
    <2>4. \E c \in Users \X Versions :
            {<<u, rolePw[u]>> : u \in Users} = {Credential(current), c}
      BY <2>1, <2>2, <2>3
    <2>5. [k \in Tasks |-> Credential(held[k])] = [k \in Tasks |-> Credential(current)]
      BY <2>1 DEF Init
    <2>6. Credential(current) \in Users \X Versions
      BY <2>1, <2>2
    <2>. QED BY <2>4, <2>5, <2>6 DEF Promise!Init
  <1>2. IInv /\ Started /\ [Next]_vars => [Promise!Next]_(Promise!vars)
    <2> SUFFICES ASSUME IInv, Started, [Next]_vars PROVE [Promise!Next]_(Promise!vars)
      OBVIOUS
    <2>1. CASE \E k \in Tasks : StartTask(k)
      BY <2>1, StartTaskKeepsPromise
    <2>2. ASSUME NEW w \in Workers, PutPending(w)
          PROVE  [Promise!Next]_(Promise!vars)
      BY <2>2, PutPendingKeepsPromise
    <2>3. ASSUME NEW w \in Workers, AlterRole(w) \/ MoveCurrent(w)
          PROVE  [Promise!Next]_(Promise!vars)
      BY <2>3, AlterRoleKeepsPromise, MoveCurrentKeepsPromise
    <2>4. CASE UNCHANGED <<verUser, current, rolePw, held>>
      BY <2>4 DEF Promise!vars, Credential
    <2>5. \/ \E k \in Tasks : StartTask(k)
          \/ UNCHANGED <<verUser, current, rolePw, held>>
          \/ \E w \in Workers : PutPending(w) \/ AlterRole(w) \/ MoveCurrent(w)
      BY OnlyTasksRead, OnlyHandlersWrite
    <2>. QED BY <2>1, <2>2, <2>3, <2>4, <2>5
  <1>3. Init => Started
    BY ConstantAssumption DEF Init, Started, Versions
  <1>4. IInv /\ Started /\ [Next]_vars => Started'
    <2>1. ASSUME IInv, Started, NEW k \in Tasks, StartTask(k) PROVE Started'
      BY <2>1, ConstantAssumption DEF IInv, TypeOK, Started, StartTask
    <2>2. ASSUME Started, held' = held PROVE Started'
      BY <2>2 DEF Started
    <2>. QED BY <2>1, <2>2, OnlyTasksRead
  <1>. QED
    BY <1>1, <1>2, <1>3, <1>4, Invariance, PTL DEF Spec, KeepsPromise, Promise!Spec

\* The promise is worth making: in every system that keeps it, whatever is
\* installed, switched to and started, the server accepts the live credential
\* and every one that a client holds.
THEOREM PromiseIsWorthKeeping == KeepsPromise => []Promise!NobodyLockedOut
  <1>1. Promise!Init => Promise!NobodyLockedOut
    BY DEF Promise!Init, Promise!NobodyLockedOut
  <1>2. ASSUME Promise!NobodyLockedOut, [Promise!Next]_(Promise!vars)
        PROVE  Promise!NobodyLockedOut'
    <2>1. ASSUME NEW c \in Users \X Versions, Promise!Install(c) PROVE Promise!NobodyLockedOut'
      BY <2>1 DEF Promise!Install, Promise!NobodyLockedOut
    <2>2. ASSUME NEW c \in Users \X Versions, Promise!Switch(c) PROVE Promise!NobodyLockedOut'
      BY <1>2, <2>2 DEF Promise!Switch, Promise!NobodyLockedOut
    <2>3. ASSUME NEW k \in Tasks, Promise!Start(k) PROVE Promise!NobodyLockedOut'
      BY <1>2, <2>3 DEF Promise!Start, Promise!NobodyLockedOut
    <2>4. CASE UNCHANGED Promise!vars
      BY <1>2, <2>4 DEF Promise!vars, Promise!NobodyLockedOut
    <2>. QED BY <1>2, <2>1, <2>2, <2>3, <2>4 DEF Promise!Next
  <1>. QED BY <1>1, <1>2, PTL DEF KeepsPromise, Promise!Spec

\* So nobody is locked out of the database: neither a task that runs nor one
\* that would start now, whatever the deliveries, faults and crashes.
THEOREM NobodyLockedOutByRotation ==
  ASSUME RollFirst = TRUE PROVE Spec => []Promise!NobodyLockedOut
  BY Implements, PromiseIsWorthKeeping, PTL

=============================================================================
