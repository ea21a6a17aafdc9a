# Verification of the Claude gateway deployment for GovCloud

TLA+ models, TLC runs and TLAPS proofs for the parts of this repository that
keep state or run concurrently. Paths are relative to the repository root.
Parse with SANY, check a run with `tlc -config X.cfg Module`, check the proofs
with `tlapm X_proofs.tla`. `PROJECT.json` lists runs, properties, faulty
variants, findings, hazards and, definition by definition, the code each one
stands for.

Definitions whose comment starts with "Faulty:" are deliberate errors (a dropped
guard, a missing retry). No specification uses them: they are there to be put in
the place of the definition that follows them, to confirm that a property
notices.

## 1. The system

The repository deploys a closed-source gateway on ECS behind an internal load
balancer, its PostgreSQL database, a download and administration portal
(Flask), telemetry, and the scripts and installers around them.

| Component | Code | State it keeps | Operations | Talks to |
|---|---|---|---|---|
| Credential rotation | `docker/db-admin/app.py` `rotate_handler`; `cloudformation/02-gateway.yaml` | secret versions with their labels, two database users | createSecret, setSecret, testSecret, finishSecret | Secrets Manager (which calls it and retries), PostgreSQL, ECS |
| Database bootstrap | `app.py` `bootstrap_handler` | the same secret and users; the CloudFormation request it must answer | Create, Update, Delete | CloudFormation, Lambda retries, PostgreSQL |
| Spend caps | `docker/portal/portal/views/admin.py` `_admin_mutate`, `gateway.py`; `scripts/set-spend-limit.sh` | rows in the gateway's table, the portal's audit log | set, clear by id, clear by row | gateway API, CloudWatch |
| Admin session | `views/admin.py`, `gateway.py`, `identity.py`, `views/common.py` | cookies `portal_gw` and `portal_gwdev`, the identity map | connect, poll, refresh, disconnect | gateway OAuth endpoints, S3, one browser with several tabs |
| Portal login | `views/auth.py`, `crypto.py`, `authz.py` | cookies `portal_txn` and `portal_session` | login, callback | Okta |
| OIDC client | `oidc.py` | cached discovery document and key set, per process | verify, forced refetch | Okta; eight threads of each of two processes |
| Fingerprint cache | `fingerprint.py` | one entry with an expiry | get | the gateway's TLS endpoint; the same threads |
| Downloads | `artifacts.py`, `views/downloads.py`, `audit.py` | none of its own | download with audit | S3, CloudWatch |
| Releases | `scripts/publish-portal-release.sh`, `scripts/mirror/mirror-claude-release.sh` | objects of the release bucket | mirror, publish | S3; read by downloads at any time |
| Amounts, selection | `money.py`, `selection.py`, `scripts/common.sh` | none | dollars to cents, option parsing | used by caps and downloads |
| Installers | `client/install-claude-code.sh`, `client/Install-ClaudeCode.ps1` | files and managed settings on a workstation | verify, install, merge | the downloaded archive |
| Deployment scripts | `scripts/deploy-*.sh`, `scripts/common.sh` | parameters and resources of stacks | deploy, roll a secret, resolve the key | CloudFormation, Secrets Manager, ECS |

The rest of the repository (section 7) keeps no state of its own or is not a program.

What makes each one hard, and what makes it correct:

* **Rotation.** Steps are delivered again, late, or in two environments at once;
  an invocation dies between any two calls; every call reads state that another
  one may change before the next. Correct: the credential labelled AWSCURRENT
  always works, the one it replaced works until the next rotation, no running
  task is locked out, a retired password stays retired, a rotation ends and the
  tasks end up on its result.
* **Bootstrap.** A stack update runs it beside rotations; it may die between the
  database and the secret; CloudFormation waits for its timeout for an answer that never
  comes. Correct: no live password is ever reset, SUCCESS means the service can
  start, the request is answered.
* **Spend caps.** Every operation is two or three HTTP calls without a
  transaction, several admins use it at once, and an answer may be lost after
  the change was made. The gateway accepts rows it never applies. Correct: what
  is written is a cap that applies to the person who was meant, a clear removes
  the row that was meant, and the admin is told what happened.
* **Admin session.** Tabs share cookies, so that an answer computed from an old
  cookie overwrites a newer one: two polls of one device code, two refreshes of
  one token, a poll answered after a disconnect. Correct: a poll that loses keeps
  the connection the other one made, a grant ends in a connection or an explicit
  error, a page that waits comes to an end.
* **Login and caches.** Two tabs share one transaction cookie; threads race to
  fill a cache whose expiry was computed before the fetch; the throttle that
  protects Okta delays the pickup of a new signing key. Correct: a callback only
  completes the login that issued it; a key rotation is noticed in bounded time.
* **Releases.** Publishing is one object after another while the portal reads.
  Correct: what a user installs is a version whose checksum was published.
* **Amounts.** Two implementations of one conversion, with leading zeros, missing
  parts and very long numbers. Correct: they agree, to the cent.
* **Deployment scripts.** Sequences of deployments of stacks that share one key.
  Correct: the key keeps its owner.

## 2. Plan

The modules were written in this order, each with its run before its proofs.

| # | Module | What it answers | State |
|---|---|---|---|
| 1 | `LiveCredential` | what a rotation promises to clients, without mechanism | proved |
| 2 | `SecretRotation` | the handler, its callers and its services; implements 1 | checked and proved |
| 3 | `DbBootstrap` | the bootstrap composed with 2 | checked and proved |
| 4 | `SpendCaps` | concurrent setting and clearing of caps | checked and proved |
| 5 | `AdminSession` | tabs over the portal's cookies, device flow and refresh, the pages that share them | checked and proved |
| 6 | `PortalProcess`, `KeyCache`, `FingerprintCache` | threads of one process over its two caches, in time | checked and proved |
| 7 | `PortalLogin` | logins of several tabs, composed with the key cache and the discovery document | checked and proved |
| 8 | `Release`, `Download` | mirroring and publishing a release while it is downloaded and installed | checked and proved |
| 9 | `Amounts`, `Selection` | typed and shown amounts, cost centers and teams, against reference definitions | checked and proved |

What could be added: the merging of managed settings by the installers (merging
twice is merging once) and the ownership of the key that two stacks share. Both
are straight-line programs over state that is not the repository's (files of a
workstation, CloudFormation's stacks), so they come last.

## 3. The modules

### SecretRotation and LiveCredential

A password is 32 random characters and is stored at most once, so it is named by
the secret version it was drawn for (`Usable(v)`: the database accepts the
password of version v for the username stored in v). Variables: `verUser` and the
labels `current`, `pending`, `previous` are the secret; `rolePw` the database;
`rotToken` and `rotStep` what Secrets Manager is driving; `pc`, `step`, `token`,
`seen`, `user` the locals of each Lambda environment; `held` and `stale` the ECS
tasks. `rotate_handler` is one action per call it makes:

| Action | Call |
|---|---|
| `Describe` | `describe_secret` and the early return for a version already current |
| `ReadPending`, `_pending` | `get_secret_value` of the version under AWSPENDING |
| `ReadCurrent`, `PutPending` | createSecret: the other user, a fresh password; a second put under one token is refused |
| `AlterRole` | setSecret |
| `Connect` | testSecret |
| `MoveCurrent`, `RollService` | finishSecret: the label, conditional on what `Describe` saw, then the deployment |
| `Return`, `Raise`, `Crash` | how an invocation ends |

External: `StartRotation`, `Invoke`, `Redeliver`, `Reattempt` (Secrets Manager and
Lambda), `Abandon` (the operator's runbook), `StartTask` (ECS). A crash may happen
before every call, so the loss of an answer after its effect is covered. The plain attach of
the label, which the code has for a secret without any AWSCURRENT, is the second case of
`MoveCurrent` with no version seen; a bootstrapped secret, the only one rotated here, always
has one.

`LiveCredential` says only: there is one live credential, the server accepts at
most one other, installing a new one displaces the other, so that is done only
while all clients hold the live one. The mapping takes the credential of version
v to the pair of its username and v; `accepted` is what `rolePw` allows.

### DbBootstrap

Extends `SecretRotation` with CloudFormation's request (`request`, `cfn`,
`deployed`), the locals of the one bootstrap invocation (`bpc`, `draw`, `live`)
and the ownership of the schema (`adopted`). `BInit` starts either at a first
deployment, with a database that may have outlived an earlier one, or at a later
update where the second user may be missing. Steps of `SecretRotation` are steps
here; the schedule and the service exist only once the stack has come past the
bootstrap.

### SpendCaps

One request is one form post or one run of the script. A key is a scope and an
id; a row's id is its key and a generation, so ids are not reused. `Submit`,
`SubmitRow` and `NotConnected` are the entry of `_admin_mutate`;
`resolve_user_email`, `find_spend_limit_id` and `Write` are one HTTP call each,
and other requests and first sign-ins may come in between. The script takes the
same path with `via = "script"` and differs where the code does: it does not
refuse a bare sub, it goes on with a clear after a failed lookup, and it writes no
audit line. `amount` says what the row of a key grants; `Unlimited` is the null
amount that older versions wrote. `Emails` are the spellings of one address. The
table and its API are external, modelled from the comments and the handling of
answers in `gateway.py`; in particular an
HTTP status below 500 comes from the gateway and means that nothing changed. A status of
500 or above may as well be a load balancer's, sent in place of the answer to a change that
was made, and a network error (`GatewayError`) means nothing either way. The code shows and
logs every status but 200 and 201 as a refusal ("Gateway refused (... HTTP 504)", outcome
`denied`), the script as a failed `curl`. `AnswerHonest` is therefore about what can be
read off an answer: "Done" that the change was made, "not applied" and a status below 500
that it was not; a status of 500 or above says neither.
An address is searched with `limit=100`. With `SearchFits` no search matches more users than
that; without it a search shows any part of them.

### AdminSession

The portal keeps nothing about an admin's gateway session; it is in the cookies
`portal_gw` (`gw`) and `portal_gwdev` (`gwdev`), which all tabs of a browser share.
`req[t]` is the request of tab t: the cookies it carried, the call to the gateway
its handler makes next (`at`), and then what the reply sets and shows. `admin`
sends a request and takes the branch that its cookies choose; `_render_connected`,
`refresh` and `_poll_device_flow` are one call to the gateway each;
`admin_connect` and `admin_disconnect` are the two posts. `Receive` stores what
the reply sets, after any number of other replies, and `Lose` drops it. `Sizes`
says whether a token fits the browser's limit for a cookie with its refresh token,
without it or not at all; `build_gw_cookie` decides by it, and the browser keeps what
`fits`. `paired` says of each session whether its principal was put to the identity map
(`record_principal_email`): the write may fail, which is only logged, and a sub that makes no
S3 key, or a session without an email (not in `Keyed`), is left out without a word. The gateway's codes and
sessions are external: an approved code is granted once, a session may end at any
time, a refresh may be refused.

The page of all users and the audit page read the same cookie. `admin_users` refreshes
as the main page does but sends back to itself, and where the main page shows an
error it sends to the main page with a message (`flash`); `admin_audit` does not
refresh. The first call of these two is one step with the sending of the
request, which keeps the run small: a session that ends between the two counts as
ended before the sending. The refresh that follows, the reply and all that other tabs
do in between are still steps of their own; what is lost is that another tab may be
served with the same session between the sending and its end, and no property relates
those two. The polling interval, the content of the flash cookie
and the gate before every handler, which only lets members in, are left out.

### PortalProcess, KeyCache and FingerprintCache

`PortalProcess` is what the threads of one gunicorn worker share: `Threads` and the
clock. The processes do not share memory, and no property needs two of them.

`KeyCache` is `OidcClient.jwks` and `verify_id_token`. `_jwks` and `_jwks_fetched_at`
are the attributes, assigned in two steps; `call[t]` is thread t in
`verify_id_token`: the time it read at the start, whether it forces, the keys it was
sent. `Check` looks the key id up in the attribute as it is when `jwks()` returns, and
asks a second time with force. `Publish` and `Retire` are Okta's. A fetch takes at
most `FetchTime` (its timeout); `lastDone` is history.

`FingerprintCache` is `get_fingerprint`: one entry with its expiry, assigned together
and counted from the time read before the fetch, whose length is not bounded here.

### PortalLogin

Extends `KeyCache` with the two handlers of `views/auth.py`. The state, nonce and
verifier that one `login` draws are one value of `Logins`, which is also what Okta
knows the login by. `portal_txn` and `portal_session` are the cookies; a request
carries `portal_txn` as it is when it is sent, and its reply is applied at any later
time (`Receive`) or never (`Lose`), after which the tab may reload. `discovery` is
the lazy fetch of the document, whose issuer is adopted in a step of its own.
`exchange_code` is the token call: Okta grants a code once, to the verifier of its
login, and voids it otherwise. `verified` is the rest of `callback`: group check,
cookies and page. A signature is what only its signer can make, so a forged cookie or
token is not in the model.

### Release and Download

A file is named by the build it is of; the manifest of a build gives the digests of
that build's binaries, so "has the digest of the manifest" is equality of names, and
`Partial` is a file that is being written. `Release` has both scripts: `mirror` is the
directory they share, `bucket` the objects under the version, `publishing.n` the
position in the script's order of checks and uploads. Upstream may have released the
version again (`Builds`), a script may stop at any step and be run again, and a
mirror run may start while a publication is under way. `sound` and `fresh` are
history: the release was published whole and undisturbed, and a download has read
its manifest while it was.

`Download` is one download from its form to the installed binary: the manifest and
the scripts before the response starts, the audit line, then the binary in the
stream, then the installer's check of the digest that the package carries
(`install_claude_code`). Each is a step, with steps of `Release` in between.

### Amounts, Selection and MCPortalProcess

`Amounts` builds every text of a few characters, one at a time, and compares what
`dollars_to_cents` makes of it in the portal (`money.py`) and in the script
(`common.sh`, `printf_d` being what `printf '%d'` does with a leading zero) with
`Denotes`, which reads the figure from left to right in one pass and counts the digits after
its dot. `percent_used` and the rows of
the two usage pages are compared with each other and with the next half cent spent.
`Selection` builds every configuration of cost centers and teams from well-formed and
odd entries, and compares the form's two stages, the check of a request and the
operator's list.

`MCPortalProcess` puts the parts of one process side by side. They share nothing that
one of them changes for another, so `serving` picks the part that gets requests and
the run explores one after the other.

## 4. The runs

| Run | Instance | Shows |
|---|---|---|
| `RotationSafety` | 3 rotations, 2 environments, 1 task, 2 faults, abandoning allowed; about 1,049,000 states | `CurrentUsable`, `PreviousUsable`, `Alternates`, `RetiredStaysRetired`, `RaisesHarmlessly`; `KeepsPromise`: every step implements `LiveCredential` |
| `RotationProgress` | 2 rotations, 2 environments, 2 faults; about 332,000 states | `RotationCompletes`, `ServiceCatchesUp` under fairness |
| `Bootstrap` | 2 rotations, 1 environment, 4 passwords to draw, 2 faults; about 543,000 states | `LivePasswordKept`, `SuccessMeansReady`, `SecretUsable`, `NoDeadCredential`, `RequestAnswered` |
| `Caps` | 2 requests, 2 people, 1 address, 1 bare sub, the organization, 1 amount beside `Unlimited`; about 1,604,000 states | `AnswerHonest`, `OneAddressOnePerson`, `OnlyLiveCaps`, `SetTakesEffect`, `LegacyRowFirst`, `ClearRemovesNamed` |
| `AdminSession` | 2 tabs, 1 device code, 2 sessions, one of them `Keyed`; about 1,085,000 states | `PairedBeforeUse`, `ConnectionKept`, `GrantNeverSilent`, `PendingEnds` |
| `Login` | 2 tabs, 3 logins, 2 keys, a member and another user; about 665,000 states | `CodeMeetsItsVerifier`, `OneSessionPerLogin` |
| `Process` | 2 threads, 2 keys, 2 certificates, times to 4; 2 builds, 1 download; texts to 5 characters; 2 entries of 2 teams; about 2,553,000 states | `KeyPickup`, `RefetchThrottled`, `FingerprintSettles`, `InstalledAsAudited`, `RefusedOnlyIfTorn`, `AmountExact`, `UsageHonest`, `OfferedIsAccepted` |
| `RotationDeadCredential` | `RollFirst = FALSE` | violation, finding 1 |
| `RotationAbandon` | one rotation, no faults | violation, finding 2 |
| `CapsAudit` | one request | violation, finding 3 |
| `CapsSpelling` | one request, two spellings of the address | violation, finding 4 |
| `AmountsScript` | texts to 3 characters | violation, finding 5 |

Bounds. Three tokens give a rotation, the one after it and the one after that, in
which the first user comes round again: what can go wrong with a late step needs
the same user twice. Two environments make every pair of invocations overlap, and
two faults let one duplicate meet one crash. A step of any earlier rotation may be
delivered again at any time (`Redeliver`), so with three tokens also one that is two rotations
late. The proofs remove these bounds for
the safety properties. Deadlock is checked in the two rotation runs, the
bootstrap run and `AdminSession`. `CHECK_DEADLOCK FALSE` is for the caps, where every
request ends, and for `Login`, `Process` and `AmountsScript`, which end when the
logins are drawn, the clock is at its bound or the text is as long as it may be. `MaxRows` bounds the rows a key is given (a row, and the one set after it
was cleared, or two rows since an open page showed the first), `MaxFaults` the crashes and repeated deliveries. Requests and
people, and tokens and environments, are interchangeable and are symmetry sets in
the safety runs only. Two requests suffice for a cap: a request's decision
depends on the table and the sign-ins, which one other request and `SignIn`
change in every way. Groups behave as the organization does (a key that is never
resolved) and are left empty. In `AdminSession` two tabs and one code give every
race for a grant, and the second session is the refreshed one. One of the sessions is `Keyed` and
one is not, in either order; the proofs remove
these bounds for the safety properties. `LegacyRowFirst` holds in `Caps` because there the
address has one spelling and one page holds the listing (`PageSize = 5`, which a table with a row for
every key just fills).
`CapsSpelling` shows what another spelling does; with `PageSize = 1`, a table longer
than the 200 rows that the code asks for, TLC finds the property violated too: the
legacy row is not in the page, and the principal's is deleted in its place. Likewise
`OneAddressOnePerson` is checked with `SearchFits = TRUE`; when more than 100 users can match
a search, two requests may each be shown another one of two people with the address, and TLC
finds the property violated. Everything else about the caps is proved for either value.

In `Login` a third login is there for the tab that was refused to try again, and the
clock stands still (`MaxTime = 0`): time only decides when a key set is fetched
again, which the key cache's part of `Process` explores, and `LoginUsesKeyCache`
carries over. In `Process` the clock goes past an interval and a fetch after the
first change, so that what is refused or cached meanwhile can expire: 4 for an
interval of 2 with fetches of 1, and for times to live of 3 and 1. Two builds make the
bucket, the directory and a package differ from each other; more than one download
adds nothing, as downloads only read. The typed characters are the dot, a space, 0, 1
and 8 (which is no octal digit), and five of them give a sign of every rule: two parts,
one to three decimals, leading and trailing zeros and spaces, and a figure one digit too
long, `MaxDigits` being 4 instead of 18. The caps of 1, 3 and 7 cents have percentages
that are not exact, and the spending goes past ten times the largest of them. Two entries
of two teams are a cost center and team given twice, in one entry and in two.

### Fairness

Weak fairness of each worker's `Handler` (Lambda runs what it started, its calls
have timeouts), of `Invoke` and `Reattempt` (Secrets Manager retries a step that
did not succeed and an unfinished rotation), of `StartTask` for a task that an
open deployment has to replace (ECS carries out a deployment it accepted; its new
task is healthy exactly if the credential works), and of `BootInvoke` and
`BootHandler`. In `AdminSession`: of each `Handler` (a call to the gateway has a
timeout of 15 s), of `Receive` (a reply that is not lost arrives), of the reload of
the pending page (its refresh header) and of the redirects, and of `CodeDies` (the
gateway's codes expire). No fairness is assumed of the operator, of faults, of new rotations
or of CloudFormation's requests and timeout. Faults are finite, as `MaxFaults`
says; without a bound nothing could be promised of a handler that may always die.

### What is assumed of the environment

* `NoStragglers`: when a new rotation is opened, an invocation still in flight
  belongs to the rotation whose version is live. The function times out after
  120 s (`02-gateway.yaml:1868-1880`), a rotation is due every so many days.
  Without it, a setSecret that passed its label check two rotations ago could reset a
  live password. An invocation that begins late is not excluded: see the next point.
* `LateSteps`: createSecret, setSecret and testSecret of any earlier rotation may be delivered
  again at any time, and that they do no harm is what the label check of `_pending` is for
  (without it `RetiredStaysRetired` and `RaisesHarmlessly` fail). finishSecret is delivered
  again only for the open rotation. It looks at no label but AWSCURRENT, so one
  that came later still would make a retired version current: with `LateSteps = Steps` TLC
  finds `CurrentUsable` violated. That is the cause of finding 2 with a larger effect; it needs
  an invocation queued for longer than the time between two rotations.
* `RollFirst`: a rotation is opened only once all tasks run on AWSCURRENT. Nothing
  in the code enforces it (finding 1); `RotationSafety` and the theorems
  that need it say so, the others do not use it.
* `BoundedBootstrap` and a bootstrap that runs one invocation at a time:
  CloudFormation serialises updates of a stack, and the function's timeout is
  shorter than two rotations.
* ECS reads username and password of one version together; the agent is outside
  the repository.

## 5. The proofs

`SecretRotation_proofs` proves for every number of rotations, environments,
tasks and faults: `TypeCorrect`, `CurrentAlwaysUsable`, `PreviousStaysUsable`,
`AlwaysAlternates`, `RetiredNeverReturns`, and, assuming `RollFirst = TRUE`,
`NoTaskLockedOut` and `Implements` (`Spec => KeepsPromise`).

None of these is inductive alone. That the live credential works is lost if a
setSecret in flight names the live user; that it cannot is because the other user
was computed from the version that was live when the rotation opened, and that
depends on the labels at a later time. The invariant `IInv` therefore refers to
`Base`, the version live when the last rotation was opened (the current one until
the label moves, the previous one after), and to `Installed`, the state of the
new password. Its parts: `TypeOK`; `LabelInv` (`Base` and the current version are
usable); `RotationInv` (the rotation's version is for the other user than `Base`;
past setSecret it is installed); `WorkerInv` (an invocation in flight is for the
open rotation or for `Base`, and what it has read is still true where it
matters; or it is `Late`, of an earlier rotation, and gets no further than the label check); `TaskInv` (under `RollFirst`, tasks hold `Base` or the new version, and
it works). There is a lemma for each action; `FrameStep` and `WorkerFrame` say
once what the actions that leave labels and passwords alone preserve. The action
properties follow from `IInv` and from the lemmas that say which actions write.
The refinement shows that setSecret is `Install`, the label move `Switch`, the
start of a task `Start`, and all else stutters.

What the promise is worth is proved of it alone (`PromiseIsWorthKeeping`: in every
behaviour of `LiveCredential` the server accepts the live credential and every one that a
client holds) and carried over by the refinement: `NobodyLockedOutByRotation`. That is
why `NoDeadCredential` is no property of `RotationSafety`: `KeepsPromise` implies it.

`RaisesAreHarmless` says when an invocation of the open rotation raises although no call
of its failed: its version is live or has been, another createSecret stored the version
first, or the operator abandoned the rotation. So a retry has nothing to repair, and
neither setSecret nor testSecret of the open rotation fails for what another invocation
did, of this rotation or of an earlier one. (A createSecret that raises every time because it
does not look for its own version is not what this property is for: `RotationCompletes`
notices it.) Its invariant `CauseInv` follows
the pending version: it is created with its label, which stays on it until the rotation is
abandoned, is there once createSecret was answered (`PendingInv`), and a worker in
flight for the open rotation relies on just that (`DrivenOK`). Of every other step
`OnlyHandlersRaise` shows that it makes no invocation raise.

`DbBootstrap_proofs` builds on that: `BootTypeCorrect`, `SuccessIsReady`,
`SecretStaysUsable`, `LiveIsNotReset` and, with `RollFirst = TRUE`,
`BootLocksNobodyOut`. Its invariant `BInv` says that nothing rotates before the first
secret (`Unwritten`) and that from then on the rotation's invariant holds
(`SecretInv`); what an invocation that creates the first secret has drawn and set
(`FirstInv`); and what one that converges has read (`ConvergeInv`): until it has
asserted the password it read, that is the live one or the one before, and works,
because `BoundedBootstrap` does not let a second rotation open. `RotationStep` shows
that the rotation keeps this, `BootReads`, `BootRoles` and `BootPut` that the bootstrap
keeps both. Asserting a password that is in place, or giving one to a user without,
takes nothing away from the rotation (`MoreUsable`).

`SpendCaps_proofs` proves, for any sets of requests, people, addresses, groups and
amounts: `TypeCorrect`, `AnswersAreHonest`, `OnePersonPerAddress`,
`ClearsWhatWasNamed`, `OnlyLiveCapsWritten`, `SetsTakeEffect` and `EnteredRowFirst`. The invariant
says what a request has learnt and still relies on at its last call: whom it
resolved has signed in with the address (`TargetInv`), the row it will delete is
the entered id's or that person's (`RowInv`), the key it will write is one the
gateway applies (`KeyInv`), and nothing is applied before the last call
(`AppliedInv`). `OnePersonPerAddress` assumes `SearchFits`, on which `OneAddressOnePerson` is
inductive together with `TargetInv`: sign-ins only add people, so a lookup that finds exactly one finds
the one that an earlier lookup found. `ClearsWhatWasNamed` is about the row itself and not only
its key: ids are not used twice, so a row that another admin set in its place stays. `EnteredRowFirst` says of any table that
fits a page that a clear prefers the row of the id as it was entered;
`LegacyRowsFoundFirst` states `LegacyRowFirst` from it, on two conditions that the
code does not ensure: one spelling of the address (finding 4) and a table that fits a
page.

`AdminSession_proofs` proves, for any numbers of tabs, codes and sessions:
`TypeCorrect`, `AlwaysPaired`, `ConnectionIsKept` and `GrantsAreNeverSilent`. A
reply may arrive at any later time, so the invariant says of every reply in
flight what it may do then (`GoodReply`): the cookie it sets is paired and fits,
the session issued to it is the one it sets or it shows an error, and it clears
the connection only for a disconnect or for a session that is over. This stays
true while it is under way because the gateway only goes `Forward`: a session that
is over stays over, and a principal that was put to the identity map, or whose failure was
logged, stays so. `SoundStays` says that once for all actions, and each action's lemma shows
that the one request it touches is sound.

`ProcessCaches_proofs` proves, for any threads, keys, certificates, intervals, times to
live and bound of the clock: `KeyTypeCorrect`, `KeyPickupHolds`, `RefetchThrottledHolds`
and `FingerprintSettlesHolds`. The argument for the keys: a set that lacks a published
key was asked for before the key was published (`AnswerInv`), is assigned within one
fetch of that, and so is the time that is recorded with it (`RecordedInv`), whichever
thread writes which of the two last. A second lookup that is throttled therefore began
within an interval and a fetch of the publication (`LookupInv`). `ThrottleInv` is the
same for the fetches: a recorded time is turned back by one fetch at most.

`PortalLogin_proofs` proves that signing in only takes steps of the key cache
(`LoginUsesKeyCache`, so `LoginPicksKeyUp`), then `LoginTypeCorrect`,
`CodeMeetsItsVerifierHolds` and `OneSessionPerLoginHolds`. A request offers a code with
the transaction it compared (`OfferInv`); a login is asked of Okta by one tab, whose
address it stays (`AskInv`); what opens a session holds a code that was spent for it,
is the only one that does, and names the person who authenticated (`OpenInv`).

`Download_proofs` proves `TypeCorrect`, `AuditTellsWhatWasInstalled` and
`NoRefusalWithoutCause` for any builds and downloads. The invariant follows the
publication: a manifest in the bucket has its binaries beside it (`BinariesThere`);
without a mirror run meanwhile the files uploaded are those verified
(`VerifiedSoFar`, `UploadedSoFar`), so that a sound release agrees with its manifest
(`SoundRelease`); and a download that is fresh has what is in the bucket
(`Gathered`).

`Forms_proofs` proves, for texts, amounts and configurations of any size, `MoneyIsExact`,
`UsageIsHonest` and `OfferIsAccepted`, and of the script `ScriptIsExactButForZero`: a
leading zero is all that finding 5 is about. `ScriptAgreesWithPortal` says that for what has
neither a leading zero nor blanks (the portal trims those, the script refuses them) the
break-glass script and the portal read the same cents. What a recursive function
computes is not shown by an induction theorem but by least counterexample: among the
arguments for which a claim fails there would be a smallest (`Least`, from the
well-foundedness of < on numbers), and the definition relates the claim there to
a smaller argument. `Recursion` shows in this way that a recursive definition whose
argument decreases defines a function at all, and `Agree` that two functions that agree
at the next argument, when they do at this one, are equal. So `NumberIs` and `FigureIs` say how numbers grow
by a digit, `FigureParts` that the figure read in one pass is the whole part followed by the
decimals, which gives `CentsExact`, and `WrittenIsRead` that the numeral written of a number is
read as that number. `UsageIsHonest` rests on `Division` (how a rounded quotient grows) and on one lemma for each thing a row shows. For
`OfferIsAccepted`, in a configuration that boots each cost center has one entry
(`BootedIs`), so that the parsed map has every entry as it is (`ParsedIs`).
`ProcessKeepsItsParts` proves that the specification of the run `Process`, which takes the
parts of a process one at a time, implements that of each part: they share the clock, and a tick
of the certificate page's is one of the key cache's because no thread is then verifying
a token (`NoLoginsElsewhere`). So the theorems about the parts hold of what that run
checks; `ProcessIsHonest` says it of the amounts and the forms.

Assumptions are the named ASSUMEs of the modules: kinds of values are distinct, bounds
and times are numbers, there is an amount and a key, and (`SeedsAssumption`) there is
always one more password to draw than three that are in use.

Only model-checked: the liveness properties (`RotationCompletes`,
`ServiceCatchesUp`, `RequestAnswered`, `PendingEnds`), which need fairness and
ENABLED. Every other property of a passing run is a theorem, `NoDeadCredential` and
`KeepsPromise` under `RollFirst = TRUE`, `OneAddressOnePerson` under `SearchFits` and
`LegacyRowFirst` on the conditions above.

## 6. Findings

1. `RotationDeadCredential`: finishSecret moves the label before it rolls the
   service. If the roll fails, or is not finished, and a rotation is opened (by
   hand, or because an earlier one is driven again), its setSecret resets the
   user the old tasks still log in with. The comment at the top of `app.py` says
   that the previous credential stays valid until the next rotation, so that
   tasks always hold a working one.
2. `RotationAbandon`: the runbook abandons a rotation by removing AWSPENDING.
   finishSecret does not look at that label: an invocation already delivered
   promotes the version all the same.
3. `CapsAudit`: when the gateway makes a change and its answer is lost,
   `_admin_mutate` logs nothing (when a load balancer answers in its place there is a line,
   which says `denied`). `docs/operations/cost-controls.md:417-419` counts
   on a portal line for a gateway row.
4. `CapsSpelling`: resolving an address ignores letter case, finding its row does
   not. A clear by an address typed in other case removes the principal's cap and
   leaves the legacy row, which the comments say is found first.
5. `AmountsScript`: the break-glass script converts the dollars with `printf '%d'`,
   which takes a figure with a leading zero for octal: 010 becomes 8 dollars, 018
   becomes 1. The comment on the function (`scripts/common.sh:28-29`) promises exact
   string arithmetic, and the portal reads the same texts as they are typed.

## 7. Not modelled

* The gateway container: its program is not in the repository. What the portal and the
  script know of it is in `SpendCaps` and `AdminSession`.
* CloudFormation templates, Grafana, the collector: declarative configuration of
  services, of which the rotation and the bootstrap take what concerns them.
* The scripts that deploy stacks, roll secrets and build images: sequences of calls by one
  operator over state that CloudFormation and Secrets Manager keep.
* Installers beyond the check of the binary: PATH and the merging of managed settings.
* Pages that only read, application factory, diagnostics and document generators.
* Of what is modelled: the polling interval and flash cookie of the admin pages, bytes
  and headers of the ZIP, encodings of certificates, wording. What the portal does not
  prevent and therefore no property states is under "hazards" in `PROJECT.json`, with
  a note.
