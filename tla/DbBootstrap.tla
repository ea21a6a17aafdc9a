---------------------------- MODULE DbBootstrap ----------------------------
(***************************************************************************)
(* The CloudFormation custom resource that creates the database roles and  *)
(* writes the first application secret (app.py, bootstrap_handler), beside *)
(* the rotation of that secret (SecretRotation).  One invocation runs at a *)
(* time: CloudFormation does not update a stack twice at once, and Lambda  *)
(* repeats an event only after the previous run died.  The password an     *)
(* invocation draws is named by a version in Seeds that is nowhere in use. *)
(***************************************************************************)
EXTENDS SecretRotation

\* A password is not drawn twice, however many are in use.
ASSUME SeedsAssumption ==
  \A a, b, c \in Versions \cup {NoVersion} : \E s \in Seeds : s \notin {a, b, c}

VARIABLES
  deployed,   \* the stack reached the resources that depend on the bootstrap
  request,    \* RequestType of the last custom-resource request
  cfn,        \* what CloudFormation knows of it
  bpc,        \* the call the bootstrap invocation makes next
  draw,       \* the version its random passwords are named by
  live,       \* the version it read as the live credential
  adopted     \* objects in schema public belong to the owner role

bootVars == <<deployed, request, cfn, bpc, draw, live, adopted>>
allVars  == <<vars, bootVars>>

BootPCs == {"idle", "check", "readLive", "liveRole", "findOther", "otherRole",
            "role1", "role2", "adopt", "put", "success", "failed", "gaveUp"}

Initialized == verUser[current] # NoUser

\* Faulty: no password is drawn.
FreshDraw_None == NoVersion

\* Passwords are random: which unused version names them does not matter.
FreshDraw == CHOOSE b \in Seeds : /\ b # current
                                 /\ verUser[b] = NoUser
                                 /\ \A u \in Users : rolePw[u] # b

\* A first deployment finds the template's {"bootstrap":"pending"}, and roles
\* only if the database outlived an earlier deployment.
FirstDeployment ==
  /\ verUser = [v \in Versions |-> NoUser]
  /\ \E c \in {NoVersion, current} : rolePw = [u \in Users |-> c]
  /\ held = [k \in Tasks |-> NoVersion]
  /\ deployed = FALSE
  /\ adopted = FALSE

\* An update finds a live secret; the inactive user may be missing.
LaterUpdate ==
  /\ verUser = [v \in Versions |-> IF v = current THEN APP_USERS[1] ELSE NoUser]
  /\ \E c \in {NoVersion, current} :
        rolePw = [u \in Users |-> IF u = APP_USERS[1] THEN current ELSE c]
  /\ held = [k \in Tasks |-> current]
  /\ deployed = TRUE
  /\ adopted = TRUE

BInit ==
  /\ current = CHOOSE s \in Seeds : TRUE
  /\ pending = NoVersion
  /\ previous = NoVersion
  /\ NothingRunning
  /\ FirstDeployment \/ LaterUpdate
  /\ request = "none"
  /\ cfn = "idle"
  /\ bpc = "idle"
  /\ draw = NoVersion
  /\ live = NoVersion

-----------------------------------------------------------------------------
(* CloudFormation and Lambda (external).                                   *)

CfnRequest(type) ==
  /\ cfn # "waiting"
  /\ bpc = "idle"
  /\ request # "Delete"
  /\ deployed <=> type = "Update"
  /\ request' = type
  /\ cfn' = "waiting"
  /\ UNCHANGED <<vars, deployed, bpc, draw, live, adopted>>

CfnDelete ==
  /\ cfn # "waiting"
  /\ bpc = "idle"
  /\ request' = "Delete"
  /\ cfn' = "waiting"
  /\ UNCHANGED <<vars, deployed, bpc, draw, live, adopted>>

\* The first delivery, and Lambda's own retry of an invocation that died.
BootInvoke ==
  /\ cfn = "waiting"
  /\ bpc = "idle"
  /\ bpc' = IF request = "Delete" THEN "success" ELSE "check"
  /\ draw' = FreshDraw
  /\ live' = NoVersion
  /\ UNCHANGED <<vars, deployed, request, cfn, adopted>>

\* ServiceTimeout: CloudFormation stops waiting for an answer.
ServiceTimeout ==
  /\ cfn = "waiting"
  /\ bpc = "gaveUp"
  /\ cfn' = "failed"
  /\ bpc' = "idle"
  /\ UNCHANGED <<vars, deployed, request, draw, live, adopted>>

-----------------------------------------------------------------------------
(* bootstrap_handler, one step per call.                                   *)

BootStep(from, to) == bpc = from /\ bpc' = to

\* Faulty: a call that fails counts as "not initialized".
_app_secret_is_initialized_Blip ==
  /\ BootStep("check", "readLive") \/ BootStep("check", "role1")
  /\ UNCHANGED <<vars, deployed, request, cfn, draw, live, adopted>>

_app_secret_is_initialized ==
  /\ BootStep("check", IF Initialized THEN "readLive" ELSE "role1")
  /\ UNCHANGED <<vars, deployed, request, cfn, draw, live, adopted>>

ReadLive ==
  /\ BootStep("readLive", "liveRole")
  /\ live' = current
  /\ UNCHANGED <<vars, deployed, request, cfn, draw, adopted>>

\* _ensure_roles sets the password whether or not the role exists.
EnsureRole(u, v) ==
  /\ rolePw' = [rolePw EXCEPT ![u] = v]
  /\ UNCHANGED <<secretVars, rotVars, pc, jobVars, ecsVars, faults, deployed,
                 request, cfn, draw, live, adopted>>

\* Faulty: converging also draws a new password for the live user.
EnsureLiveRole_Reset ==
  /\ BootStep("liveRole", "findOther")
  /\ EnsureRole(verUser[live], draw)

EnsureLiveRole ==
  /\ BootStep("liveRole", "findOther")
  /\ EnsureRole(verUser[live], live)

\* Faulty: the inactive user is set whether or not it exists.
FindOther_Always ==
  /\ BootStep("findOther", "otherRole")
  /\ UNCHANGED <<vars, deployed, request, cfn, draw, live, adopted>>

FindOther ==
  /\ BootStep("findOther", IF rolePw[_other_user(verUser[live])] = NoVersion
                           THEN "otherRole" ELSE "adopt")
  /\ UNCHANGED <<vars, deployed, request, cfn, draw, live, adopted>>

EnsureOtherRole ==
  /\ BootStep("otherRole", "adopt")
  /\ EnsureRole(_other_user(verUser[live]), draw)

\* Faulty: only the first of the two users is created.
EnsureFirstRoles_One ==
  BootStep("role1", "adopt") /\ EnsureRole(APP_USERS[1], draw)

EnsureFirstRoles ==
  \/ BootStep("role1", "role2") /\ EnsureRole(APP_USERS[1], draw)
  \/ BootStep("role2", "adopt") /\ EnsureRole(APP_USERS[2], draw)

_adopt_existing_objects ==
  /\ BootStep("adopt", IF live = NoVersion THEN "put" ELSE "success")
  /\ adopted' = TRUE
  /\ UNCHANGED <<vars, deployed, request, cfn, draw, live>>

\* put_secret_value without stages labels the new version AWSCURRENT.
PutFirstSecret ==
  /\ BootStep("put", "success")
  /\ verUser' = [verUser EXCEPT ![draw] = APP_USERS[1]]
  /\ current' = draw
  /\ previous' = current
  /\ UNCHANGED <<pending, rolePw, rotVars, pc, jobVars, ecsVars, faults,
                 deployed, request, cfn, draw, live, adopted>>

\* Faulty: a failure is never reported.
CfnRespond_SuccessOnly ==
  /\ BootStep("success", "idle") /\ cfn' = "success"
  /\ deployed' = /\ request # "Delete"
                 /\ (deployed \/ (bpc = "success" /\ request = "Create"))
  /\ UNCHANGED <<vars, request, draw, live, adopted>>

\* _cfn_respond, delivered within its three attempts.
CfnRespond ==
  /\ \/ BootStep("success", "idle") /\ cfn' = "success"
     \/ BootStep("failed", "idle") /\ cfn' = "failed"
  /\ deployed' = /\ request # "Delete"
                  /\ (deployed \/ (bpc = "success" /\ request = "Create"))
  /\ UNCHANGED <<vars, request, draw, live, adopted>>

\* Any call of the try block raises, the SUCCESS answer included; a FAILED
\* answer that cannot be delivered is only logged.
BootRaise ==
  /\ bpc \notin {"idle", "gaveUp"}
  /\ faults < MaxFaults
  /\ faults' = faults + 1
  /\ bpc' = IF bpc = "failed" THEN "gaveUp" ELSE "failed"
  /\ UNCHANGED <<secretVars, rolePw, rotVars, pc, jobVars, ecsVars, deployed,
                 request, cfn, draw, live, adopted>>

\* The function times out or its environment dies.
BootCrash ==
  /\ bpc \notin {"idle", "gaveUp"}
  /\ faults < MaxFaults
  /\ faults' = faults + 1
  /\ bpc' = "idle"
  /\ UNCHANGED <<secretVars, rolePw, rotVars, pc, jobVars, ecsVars, deployed,
                 request, cfn, draw, live, adopted>>

BootHandler ==
  \/ _app_secret_is_initialized \/ ReadLive \/ EnsureLiveRole \/ FindOther
  \/ EnsureOtherRole \/ EnsureFirstRoles \/ _adopt_existing_objects
  \/ PutFirstSecret \/ CfnRespond

-----------------------------------------------------------------------------
\* The rotation schedule and the service depend on the bootstrap.  As with an
\* invocation of the rotation, a bootstrap that is about to assert the
\* credential it read does not outlive the rotation after the next.
BoundedBootstrap == bpc = "liveRole" => live = current

Rotation ==
  \/ deployed /\ BoundedBootstrap /\ \E t \in Tokens : StartRotation(t)
  \/ Reattempt
  \/ Abandon
  \/ \E w \in Workers :
       \/ Invoke(w)
       \/ \E t \in Tokens, s \in Steps : Redeliver(w, t, s)
       \/ Handler(w)
       \/ Crash(w)
  \/ deployed /\ \E k \in Tasks : StartTask(k)

BNext ==
  \/ Rotation /\ UNCHANGED bootVars
  \/ \E type \in {"Create", "Update"} : CfnRequest(type)
  \/ CfnDelete
  \/ BootInvoke
  \/ ServiceTimeout
  \/ BootHandler
  \/ BootRaise
  \/ BootCrash

BSpec == BInit /\ [][BNext]_allVars

BFairSpec == BSpec /\ WF_allVars(BootInvoke) /\ WF_allVars(BootHandler)

-----------------------------------------------------------------------------
BTypeOK ==
  /\ TypeOK
  /\ deployed \in BOOLEAN
  /\ request \in {"none", "Create", "Update", "Delete"}
  /\ cfn \in {"idle", "waiting", "success", "failed"}
  /\ bpc \in BootPCs
  /\ draw \in Seeds \cup {NoVersion}
  /\ live \in Versions \cup {NoVersion}
  /\ adopted \in BOOLEAN

\* "do NOT reset passwords out from under running tasks": once the secret
\* holds a credential, no bootstrap and no rotation, however they interleave,
\* changes the password of the user that is live at that moment.
LivePasswordKept ==
  [][Initialized => rolePw'[verUser[current]] = rolePw[verUser[current]]]_allVars

\* A stack that was told SUCCESS has a secret its tasks can log in with, both
\* users for the rotation to alternate between, and adopted objects.
SuccessMeansReady ==
  cfn = "success" /\ request # "Delete" =>
    /\ Usable(current)
    /\ \A u \in Users : rolePw[u] # NoVersion
    /\ adopted

\* Once a secret was written it is usable, also while the bootstrap of an
\* update runs between two rotations.
SecretUsable == Initialized => Usable(current)

\* "must always answer CFN": every request is answered, unless an answer was
\* undeliverable twice, the SUCCESS one and the FAILED one after it.
RequestAnswered == (cfn = "waiting") ~> (cfn # "waiting" \/ bpc = "gaveUp")

=============================================================================
