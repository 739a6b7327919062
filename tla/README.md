# Formal verification of the Secure SSI Platform

This directory holds a TLA+ model of the platform: modules that are translated
from the source, TLC configurations that model-check them on small instances, and
theorems that TLAPS checks for every instance. `PROJECT.json` lists the runs, the
source lines behind every definition, the hazards the properties are aimed at, and
for every property a plausible mistake in the code that would break it.

    tlc -workers 2 -config Presentations.cfg MCPresentations.tla    # one run
    tlapm ManagedKeysProofs.tla                                     # one module's proofs

Section 1 is the inventory of the system, section 2 the project, sections 3 to 10 one
component each, section 11 what the models show the code to do that its documents
do not say, section 12 what is left out.

## 1. The system and its parts

The platform is a set of Python services over MongoDB (or an in-memory store for
local use), some Solidity contracts and a web application. No service uses
transactions over several documents: a use case is a sequence of single-document
writes, most of them compare-and-set on a `version` field. What makes the code hard
is what happens between two writes: another request, a polling worker, a crash.

| Part | State it keeps | Operations | Hard because of |
|---|---|---|---|
| **Recovery service** (`services/recovery-service`) | guardians, policies, requests, approvals, share envelopes, audit events | assign, update and remove guardians; put the policy; create, approve, reject, cancel and reconcile a request; execute it | guardians, owner and workers race on one request; leases; retries; crashes between writes; deadlines |
| **Managed keys** (`identity-service`, `managed_key_service.py`, key providers) | key metadata with a lifecycle, successor links, reconciliation claims; the keys at an external provider | create, rotate, recover, suspend, resume, compromise, revoke, destroy, reconcile | provider calls between two writes, rotation over two keys and a wallet, idempotency keys |
| **Holder wallets** (`holder_wallet_service.py`) | wallet, its DID and its bound key; challenges | create, bind a key, lock, disable; issue a challenge | ownership and binding follow key rotation |
| **Presentations and challenges** (`presentation_service.py`) | challenges (consumed once), presentations with a processing claim | present, verify, reconcile stale verifications | single use under concurrency, claims, a crash after a claim |
| **Issuance, revocation, status lists** (`credential_issuance_service.py`, `credential_revocation_service.py`, `status_list_service.py`) | credentials, status entries, signed status lists | issue, revoke, expire, publish | index allocation, a snapshot read beside a revocation |
| **OID4VCI and OID4VP** (`oid4vci_service.py`, `oid4vp_service.py`) | offers, verification sessions, audit events | offer, claim; open a session, post, poll | a credential is signed before the offer is claimed |
| **Audit outbox** (`audit_outbox_service.py`) | records with claim, attempts and next time, in a collection and embedded in credentials; the audit log | enqueue, claim, publish, acknowledge, reschedule | at-least-once delivery, claims that outlive their lease |
| **Remote key provider adapter** (`generic_remote_kms.py`) | failures in a row and the time the circuit opened, shared by threads | send a request with retries | late answers of calls that began before the circuit opened |
| **Contracts** (`blockchain/contracts`) | owner per DID and its reverse; guardians, request and approvals per wallet; revocations; log hashes | register, update, transfer; configure, initiate, approve, execute, cancel, quarantine | flags and counters left by earlier requests |
| **Fraud service, API gateway, shared packages, web application, scripts, legacy layer 3** | none, or none that is shared | stateless requests | -- |

How they interact: the recovery service calls the identity service through
`IdentityManagedKeyRecoveryGateway` (HTTP, with a short-lived grant). The identity
service then runs `recover_wallet` of the managed keys, which rotates the key, binds
the wallet to its successor and marks the old key compromised. Managed keys reach
their provider directly or through the remote adapter. Presentations ask
the wallet for its key and the managed keys for a signature. An offer is exchanged
for a credential that issuance makes. Issuance, revocation, keys and presentations write
audit events to the outbox in the same store. Four workers poll:
`RecoveryReconciliationBackgroundService` and, in
the identity service, those of the managed keys, the presentations and the outbox.

What makes each part correct:

* *Recovery*: no rotation without a quorum and an elapsed time lock; success means
  rotated; one request at a time; an ended request stays as it is; every request ends;
  no race loses a quorum.
* *Managed keys*: the stored state follows the lifecycle; a destroyed key never
  comes back, and none is called destroyed that is not; the wallet is bound to a key that exists; a recovery that is reported has
  condemned the old key; an operation that was interrupted is finished or undone.
* *Presentations*: a challenge is used by one presentation; a decision says what held
  when it was claimed, at a time within its own lifetime; a verification whose verifier stopped is decided in the end.
* *Credentials*: a slot that was given never moves; a revocation is final and is in
  every list that is asked for afterwards.
* *OpenID endpoints*: one holder gets the credential of an offer; a credential
  revoked before the post never verifies; what was answered is what is stored.
* *Outbox*: every stored event is delivered; what counts as delivered is in the log.
* *Remote adapter*: the circuit is open after as many failures as configured and not
  otherwise; it does not stay open once the service is back.
* *Contracts*: an owner changes only after two guardians have approved the request at
  hand; the reverse lookup names no identifier that was handed on.

## 2. The project

| Module | Models | Checked by | Proved in |
|---|---|---|---|
| `Recovery` | the recovery service | `RecoveryExecution`, `RecoveryOwner`, `RecoveryKept` | `RecoveryProofs` |
| `RecoveryPromise`, `RecoveryRefinement` | what a recovery promises its owner, and the mapping of `Recovery` onto it | `RecoveryKept` (`MCRecoveryKept`) | `RecoveryProofs` (the step simulation) |
| `ManagedKeys` | the keys of a wallet | `KeysLifecycle`, `KeysRecovery`, `KeysLiveness` | `ManagedKeysProofs` |
| `Presentations` | wallets, challenges, presentations | `Presentations` | `PresentationsProofs` |
| `Credentials` | issuance, revocation, status lists | `Credentials` | `CredentialsProofs` |
| `Oid4` | offers and verification sessions | `Oid4` | `Oid4Proofs` |
| `AuditOutbox` | the outbox | `AuditOutbox` | `AuditOutboxProofs` |
| `RemoteKms` | the remote adapter's circuit breaker | `RemoteKms` | `RemoteKmsProofs` |
| `Contracts` | `DIDRegistry`, `EmergencyRecovery` | `Contracts` | `ContractsProofs` |

Each `MC` module extends the module it is named for with the model values and functions of
the configurations. Every module is built alike: documents are records, a
collection is a function from identifiers to documents; a process is a record whose
`step` says which access comes next and whose other fields are what the code holds in local
variables; an action is one access to a store or to a remote party, with all the code
around it that touches nothing shared.

A definition whose name ends in what a mistake would be (`ConsumableAsRead`,
`AfterConflictAgain`, ...) and that nothing uses is such a mistake: `PROJECT.json`
puts it in the place of the definition after it to see that a property notices.

Deadlock is not checked in any run, because each instance is finite: once the clock, the
versions, the identifiers or the requests are used up, nothing is left to do.

*What is proved.* Every safety invariant and every action property that a run checks is a
theorem of its module's `Spec`, for all values of the constants that satisfy the module's
assumptions, and so is the refinement `PromiseKept`. What stays with TLC is the
liveness under fairness (`EventuallyFinished`, `InterruptedOperationsEnd`, `EventuallyDecided`,
`EventuallyDelivered`, `ServedAgain`), which is out of the prover's reach. All proofs
have one plan: an inductive invariant `IInv` of a type invariant, of facts about stored
documents, and of what each process may rely on at its step; a lemma per action or group of actions;
a last temporal step by `PTL`. The invariants were checked by TLC on the instances of the runs before they
were proved.

*Assumptions.* Each module states what it assumes of its constants in one `ASSUME`, which TLC evaluates
on every run: sets and numbers of the right kind, valid policy terms. Four of them are there for a
proof. `AuditOutbox` assumes that the powers of two up to `MaxAttempts` are numbers, as the
prover knows nothing of `^`; `Credentials` that there are finitely many
credentials, since its measure counts those that can still take a slot; `RemoteKms` and `Recovery` that callers
and guardians are finitely many. `RemoteKms` also needs one caller, without
whom its bound on requests would be zero.

What a next step would be: the composition `RecoveredWallet` of a recovery with the
rotation it asks for, which replaces the external step `RotateKey` of `Recovery`.

## 3. Recovery

### State and steps

`Recovery.tla` models the recovery of *one wallet*: all operations of
`recovery_service.py` that change state, over the repository's collections
(`guardian`, `policy`, `request`, `approval`, `shares`). Documents are records with
the fields on which control depends. A share envelope is the key it is stored under
and the request it belongs to. Ids are model values, except that guardian ids are
numbers because shares are stored in guardian order.

A service call is cut where the store is written. Everything between two
writes -- the reads, the checks, the computation of the next document -- is one
step, and what the code keeps in local variables is the state of the process:

* `decider[d]`: a thread in `approve`/`reject`. `BeginDecision` (read and check) ->
  `RecordDecision` (insert the approval) -> `CountDecisions` (read request and approvals) ->
  `StoreQuorum` -> `StartTimelock`; a lost compare-and-set goes back to
  `CountDecisions`, eight times in the code and `QuorumTries` times here.
  `ExpireLate` is the decision that comes after the window.
* `call[o]`: a thread of the owner. `BeginEnrol`/`Enrol`,
  `BeginUpdateGuardian`/`UpdateGuardian` (also removal),
  `BeginPutPolicy`/`PutPolicy`, `BeginCancel`/`Cancel`, and for `create_request`:
  `BeginCreate`, for a wallet without a policy `BeginDefaultPolicy` and `CreateDefaultPolicy` (`put_policy`
  reads the policy again before it writes the default terms), `SnapshotPolicy`, `SaveShare` (one per
  guardian), `AddRequest`.
* `worker[w]`: the background worker or an admin's reconcile call. `Load` (read the
  request and the clock), `Reconcile` (store what the state calls for: expired, time
  lock started or elapsed, lease expired, retry), `Claim` (take the lease),
  `CombineShares`, `RotateKey`, `Complete`, or `ExecutionError` and `RecordFailure`.

`clock` is the time everybody reads; `Tick` advances it at any moment. `Crash` ends
a call between two of its steps. An exception of the store has the same effect on a
call, and so has a failing audit write after a store. `rotated` records the requests
for which the identity service rotated the key; the gateway sends the request id as
idempotency key, so a repeated rotation is the same rotation. This one step stands
for what `ManagedKeys` models in detail.

### What is abstracted

* `CountDecisions` reads the request, its approvals and the guardians at one
  moment; the code reads them one after another. The request is read first, and a
  count is stored only if its version has not changed; a later read of approvals can only
  see more of them. Guardian status can be fresher than the model's.
* One wallet: requests of other wallets matter only through the batch limit of
  `reconcile_due`, which is not modelled. `Load` may pick any active request, as the
  admin's call does; the fairness assumed is only that *due* requests are picked up.
* The criterion "not updated for a while" of `list_reconciliation_candidates`
  is left out of `Due`, which makes the assumed fairness weaker.
* `wait` between retries: a failed execution is loaded again at any moment; the
  code's retry interval only restricts the order.
* The proof material, challenges and the integrity of shares: a decision that fails
  one of these checks has no effect.
* `_require_cooldown_elapsed` sees the owner's 100 latest requests; the model has fewer.

### Runs

`RecoveryExecution` and `RecoveryOwner` are of `MCRecovery`, `RecoveryKept` of `MCRecoveryKept`, which adds
the refinement.

| Run | Instance | Shows |
|---|---|---|
| `RecoveryExecution` | one guardian, time lock 1, lease 1, two attempts, two workers, an owner who cancels, puts policies and creates a second request; clock 0 to 4 | `RotationAuthorised`, `CompletedMeansRotated`, `OneActiveRequest`, `TerminalIsFinal`, `TypeOK`. A lease expires while the first worker runs on, the request expires during an execution, and the next request is created while calls and workers still hold copies of the one that ended. |
| `RecoveryOwner` | two assignments of one account, two requests, two concurrent owner calls that assign, suspend, remove and reactivate, put policies, create and cancel, one of which may die between any two steps | `SharesHeld`, `QuorumOfDistinctAccounts`. Guardian and policy versions up to 3 let an assignment be suspended, replaced and reactivated; a cancelled request leaves its shares to the next one. |
| `RecoveryKept` | two guardians who must both approve within a window of 2, so that they come at different times and their calls overlap; one call may die; a worker; under `FairRecorded` | `PromiseKept`: `Recovery` implements `RecoveryPromise`. `EventuallyFinished`: every request ends. `QuorumRecognised`: as long as no call died, a recorded quorum is about to be counted, however the decisions and the worker interleave. |

`OnDemand` is whether an administrator may have any active request reconciled, beside the worker that takes up what
is due. The third run leaves him out to stay small; `PromiseIsKept` and `QuorumsAreRecognised` are proved for both, and
he can only help a request to its end.

*The promise.* `RecoveryPromise` says what the owner of a wallet may rely on, without saying
how: one recovery at a time; approved by the threshold fixed when it opens, counting the answers of its
team, each given once and by a guardian who came to decide; its rotation released only when the time lock has
run out; completed only after the rotation. `RecoveryRefinement` reads the stage of each recovery off its
stored document. It adds one history variable: `asked` notes which guardian began a decision when (`Recorded` is
`Spec` with that note), because the promise speaks of it and no document keeps it.

*From when the time lock counts.* The code takes the quorum's time from the clock of the call
that counts it, read when that call came in (recovery_service.py:583, stored at :647), not when the
approval was written. Calls run side by side: a slow call of a guardian who came first may be the one that
counts the quorum, after a second guardian came later and recorded his approval. The lock then counts from
the first call, a little before the last approval. So the promise is: the lock counts from the call of a
guardian of the team who has answered, made while the request was collecting approvals -- never from before the
request was open, nor from a time at which no such guardian came. `PromiseKept` would fail if the
lock counted from the creation of the request or from the reading of a document, and its mutant
(`DatedAsRead`) does that.

*Bounds.* `MaxClock` bounds time; `SnapshotPolicy` creates no request that would
outlive it, so that every deadline of a created request happens. `MaxVersion` bounds
guardian and policy updates, `MaxCrashes` the calls that die. Policy durations are
one to three instants: the order of two deadlines is what the code depends on. Two tries
are enough for a decider to exhaust them: two others write the request, by counting and by
reconciling. Symmetry is used on threads, workers and request ids in safety runs only.

*Fairness.* `Fairness` says that time passes, that a started call runs on (a thread
of the server; a dead one is `Crash`), and that the background worker keeps
picking up due requests: `run` loops until it is stopped and swallows every
exception of a cycle. No client is assumed to call, and no rotation to succeed.

### Proofs

`RecoveryProofs.tla` proves for all guardians, policies, thread and worker sets,
lease lengths and bounds that satisfy `ConstantsAssumption`:

| Theorem | Statement |
|---|---|
| `TypeCorrect` | `Spec => []TypeOK` |
| `Invariant` | `Spec => []IInv` |
| `RotationIsAuthorised` | `Spec => []RotationAuthorised` |
| `CompletionIsTrue` | `Spec => []CompletedMeansRotated` |
| `RequestsAreSequential` | `Spec => []OneActiveRequest` |
| `EndedRequestsStay` | `Spec => TerminalIsFinal` |
| `WritersMoveLegally` | `Spec => LegalTransitions` |
| `PromiseIsKept` | `Recorded => PromiseKept` (the refinement of `RecoveryPromise`) |
| `TeamInvariant` | `Spec => []Teams` |
| `TeamsAreDistinctAccounts` | `Spec => []QuorumOfDistinctAccounts` |
| `SharesAreComplete` | `Spec => []SharesHeld` |
| `ApproversStayOut` | `Spec => []EngagedOK` |
| `QuorumsAreRecognised` | `QuorumTries >= 2 => (Spec => []QuorumRecognised)` |

`RotationAuthorised` is not inductive: it speaks of stored requests, but what is
stored comes from copies that were read steps ago. `IInv` therefore has three
layers. `DocOK(r, q)` says what a document owes to its state (an approved request
has its approvals recorded, an unlocked one has its time lock behind it, ...).
`DeciderOK`, `CallOK` and `WorkerOK` say of every copy held by a process that it is a
`CopyOf` the stored document: not newer, and *equal to it if it has the same
version*. So a compare-and-set that succeeds writes a successor of the stored
document, and what the process checked on its copy holds of it. The proof shows
for each kind of process that its writes are of that form (`DeciderWrites`,
`OwnerWrites`, `WorkerWrites`), that every step only lets the store grow
(`StepGrows`), and then that copies, documents and calls of the others survive
(`DecidersKept`, `CallsKept`, `WorkersKept`, `RecordsKept`).

*What an expired lease allows.* Finishing is exclusive: a stale copy is not stored, so that a request that
ended is never written again (`EndedRequestsStay`) and its successor is the only active one
(`RequestsAreSequential`). Rotating is not: a worker whose lease was taken over while it combined the shares
still calls the identity service, under the same request id, which answers with the same rotation. The
project states no property against that.

*The refinement.* `PromiseIsKept` shows that every step of `Recovery` is a step of
`RecoveryPromise` or leaves its variables alone, under the mapping of `RecoveryRefinement`. A write
of a request is silent if it leaves the stage, the opening and the end of the lock as they
were (`SilentWrite`); otherwise `IInv` and the compare-and-set give the guard of the abstract
step (`WriteKept`). The beginning of a decision is the promise's `Ask`, a recorded decision its `Answer`, a call of the
identity service its rotation, `Tick` its time. `Agree` needs the call that the lock counts from: the
invariant `CallsNoted` says that the guardian and the time which a deciding call holds are in `asked`.

*Teams.* `QuorumOfDistinctAccounts` and `SharesHeld` speak of what calls of the owner have
prepared in several writes. `Teams` adds: the unique index keeps the assigned guardians distinct accounts; a
begun enrolment is of an unassigned guardian and the only one of it; a begun update names a
version not newer than the stored one and, if it is that version, a legal move from its status; the team of a
request being created is distinct, and all shares but those still to be saved are stored.

*Quorums.* A recorded quorum could be overlooked in two ways: by a count that was read before
the last approval and stored after it, and by a call that loses its last compare-and-set. The invariant `Attended`
names the witness: a call about to count that either has a try to spare or has no rival whose count
is stale (`NoneStale`). A stale count that is stored leaves no other stale one, so that the witness needs
its spare try only once; hence two tries suffice. With one try the property fails, which TLC shows
after a few steps. `EngagedOK` is what makes the tally monotone: while a request waits,
no approver who was suspended comes back, since the updates that could bring him back were
begun before the request and are out of date once he is suspended.

Only model-checked: `EventuallyFinished`.

## 4. Managed keys

### State and steps

`ManagedKeys.tla` models the presentation-signing keys of *one wallet*: every
operation of `managed_key_service.py` that changes state. Three places hold state,
and no transaction spans them: `key[n]` is the metadata document of key `n` (its
lifecycle state, version, idempotency key, links, reconciliation lease and
attempts), `provider[n]` the key at the external provider, `wallet` the wallet's
document with the key it is bound to. Keys are numbered by their key version, which the
store keeps unique; an active key of a wallet is unique by an index
(`MayBecome`), and so is an idempotency key (`ByToken`).

A call or a reconciliation is cut at each write and each provider call; the reads
before one of these belong to its step or to the step before, and what it has read
(`from`, `seen`, `walletSeen`) is kept in the process:

* `caller[c]`: a thread that serves an API call.
  Provisioning is `Number` (the next version, or the key of a repeated request),
  `Insert` (a PENDING document), `Provide` (the provider creates the key), `Activate`; then
  `AddWallet` for a new wallet, `Bind` for `create`. A rotation is
  `BeginRotate`/`BeginRecovery`, `Rotate`, `ClaimRotation`, provisioning,
  `LinkSuccessor`, `Linked`, `Bind` and, without a grace period, `Silence` and `Retire`.
  A recovery from a compromised account goes on with `AccusePredecessor`, `Store`, `Block`;
  `RepeatRecovery` is its repetition under the same request id. The lifecycle calls read
  and check (`BeginLifecycle`, `BeginDeletion`, `BeginCompromise`), call
  the provider (`Act`) and store (`Store`). `BeginStatus`/`UpdateStatus` lock or disable
  the wallet. `Fail` ends a call at any step: the provider or the store raised or timed
  out, or the process died.
* `worker[w]`: a reconciliation, of the background worker or of an administrator:
  `Pick`, `ClaimReconciliation` (lease and attempt), an `Examine...` step that
  decides by the state of the key, the provider calls (`DestroyKey`, `ProvideAgain`,
  `SuspendKey`), the writes (`ActivatePending`, `BindKey`, `StoreKey`, `Sync`) and, when any of
  them fails, `GiveUp`, which stores FAILED when the attempts are used. `Error` is an
  exception in a step, `Crash` the death of the process, which leaves the lease.

`Mature` ends a grace period or a cancellation window, `Lapse` a lease: time is the
set of deadlines that have passed.

### What is abstracted

* One wallet and one purpose; a key id and its key version are the same. Of the wallet's
  other data only its status and binding are kept.
* Attempts are counted up to `RetryLimit`, with which alone they are compared.
* The provider is what the development provider does, except that its memory
  survives a restart, as an external provider's does. That it has forgotten a key is the step
  `ExamineMissing`.
* Provisioning never stores a provider reference before the key is active. The branch
  of reconciliation for a PENDING key with a reference is dead code and is left out.
* The size of a batch and the order within it, policies, audit events, metrics, and the
  checks of the wallet's DID. `reported` is history, read by a property only.

### Runs

All runs are of `MCManagedKeys`.

| Run | Instance | Shows |
|---|---|---|
| `KeysLifecycle` | one key, two callers of all lifecycle operations, a worker, no grace period | `LegalTransitions`, `DestroyedForGood`, `TypeOK`. Calls start from versions up to 3, deletions up to 5: a key is revoked, its destruction scheduled and cancelled, executed by the worker beside a cancellation, and scheduled again, while another call holds a copy from before. |
| `KeysRecovery` | two keys, two executions of one recovery, a worker, a grace period | `ReportedCompromise`: whoever is interrupted where, a recovery that is reported has condemned the compromised key. |
| `KeysLiveness` | two keys, a caller that creates, rotates, revokes, schedules a destruction and cancels it, a worker with one fault, under `FairSpec` | `InterruptedOperationsEnd`: no key stays PENDING, ROTATING or DESTROY_PENDING. `SuccessorIsNewer`, `BoundKeyProvisioned`. |

*Bounds.* `MaxVersion` bounds the versions from which a call that can be repeated for
ever starts, and the reconciliations of a key that only synchronise it; no step of a
started call is cut off by it. Deletions, which end the life of a key, start from two versions more. `MaxRevocable` bounds
the keys the wallet has when one is revoked or destroyed: with one the successor's life is not multiplied with its
predecessor's end. `MaxKeys` bounds rotations. `MaxFaults` bounds the steps of a
worker that raise and the workers that die; a caller may fail at every step without
a bound. Symmetry is used on callers in safety runs only.

*Fairness.* `FairSpec` says that the thread of a call runs until it ends or fails,
that a worker's reconciliation does so too, and that time passes. Strong
fairness of `ReconcileBatch` says that a worker takes up every key again and again: the
batch is ordered by the time of the last update, and a reconciliation, also one that
only synchronises, updates the document and so moves it to the end. No client is
assumed to call, and no provider to succeed.

### Proofs

`ManagedKeysProofs.tla` proves for all numbers of keys, tokens, callers, workers and
retries that satisfy `ConstantsAssumption`, with and without a grace period:

| Theorem | Statement |
|---|---|
| `TypeCorrect` | `Spec => []TypeOK` |
| `Invariant` | `Spec => []IInv` |
| `TransitionsLegal` | `Spec => LegalTransitions` |
| `DestroyedStays` | `Spec => []DestroyedForGood` |
| `ChainAscends` | `Spec => []SuccessorIsNewer` |
| `BindingProvisioned` | `Spec => []BoundKeyProvisioned` |
| `CompromiseKept` | `Spec => []ReportedCompromise` |

None of these is inductive: a write is decided on a copy that was read before a
provider call. `IInv` says of each document what it owes to its state and to
the other documents (`DocOK`: a key in use is provisioned and exists at the provider,
links go upwards, a destroyed key is in one of the four `Ending` states), and of each
process what it knows at its step (`CallerOK`, `WorkerOK`), above all that its copy
is a `CopyOf` the document: not newer, and in the same state if it has the same version.

`Grows` says what a step may do to the documents: insert one under the next
key version (`Inserted`), or give one its next version along the lifecycle
(`Advanced`). `CallGrows` and `WorkGrows` show this of each write, from the
compare-and-set and the copy. `DocsKept`, `CallerRests` and `WorkerRests` show
that it is all the others need to know; `CallMoves` and `WorkMoves` follow the
process that moves. `LegalTransitions` is then a consequence of `Grows`;
`DestroyedForGood` needs that `Ending` is closed under
`VALID_KEY_TRANSITIONS` (`MovesFacts`), so that a cancellation between the worker's
read and the provider's destruction still leads to REVOKED only, and, for its second part, that `Grows` lets a
document say DESTROYED only when the provider has destroyed the key and that the provider never takes that back.

Only model-checked: `InterruptedOperationsEnd`, which is liveness.

## 5. Presentations

### State and steps

`Presentations.tla` models `presentation_service.py` with the challenges of
`holder_wallet_service.py` and the repositories behind both. `challenge`, `item` and
`credential` are the collections, `wallet` and `key` what a presentation depends on of
wallets and managed keys, `known` the DIDs that the process-local holder key provider can
resolve: it forgets those of legacy wallets at a restart.

* `call[h]`, a request. Creation: `OpenCreate`, `ReadChallenge` (which also stores that a
  challenge expired), `Consume` (the conditional update), `Build` (binding, lifetime, signature),
  `Insert`. Verification: `OpenVerify`, `Claim`, `Inspect`, `Complete`.
* `job[r]`, the reconciliation by a worker or an administrator: `OpenCycle` takes a batch of
  stale items, `OpenReconcile` one item; then for each `ReadItem`, `Reclaim`, `Evidence`,
  `InspectAgain`, `CompleteAgain`.
* `running` are the workers whose loop has not ended. `JobStep` takes a worker out when
  it meets an exception that nothing catches (section 11).
* The environment closes, rotates, suspends and resumes wallets and keys, revokes credentials,
  restarts the process, and lets accesses fail: `CallFails`, `JobFails`.

*Abstracted*: a signature, a digest or a proof is whether it fits (`intact`);
error codes are whether there are any; wallets are numbered, and a DID is a wallet with the
number of its rotations. The clock is coarser than a request.

### The run

`Presentations`: a wallet that is legacy or managed (`Init` chooses), a challenge, a
presentation; two clients, one of which may also reconcile; a worker. The clock runs from 0 to 3: a
challenge expires before, at and after its use (lifetime 2), a presentation asks for a lifetime of 1 or 2 and
ends before its challenge or with it, is stale (age 1), and another reconciler takes over. One mishap is any one failed access, restart, rotation,
suspension, revocation or closure, at any moment; two clients and a worker suffice for
three claims of one presentation. `BatchLimit` 1 is the whole collection.

* `SingleUse`: of the requests that consumed a challenge and the presentations made
  with it there is at most one.
* `VerifiedAsClaimed`: a VERIFIED presentation was within its own lifetime, and its credentials unrevoked, at the
  claim it was decided by; findings of a verifier whose claim was taken over are not stored. A verifier that
  claimed in time and is overtaken by a claim after the end of the lifetime must not have its verdict stored,
  although the challenge is still in time. It says something of legacy wallets only: those of managed wallets are
  never VERIFIED (section 11).
* `AuditTruthful`: the decision in the audit trail is the stored one.
* `EventuallyDecided`: a PROCESSING presentation is decided while every worker's loop runs.

*Fairness*: time passes, and a worker polls and finishes what it took: `run` waits for a
time and starts again. No client is assumed to go on, and the administrator not to help. The
condition `running = Workers` in the property is not fairness but the gap described in section 11.

### Proofs

`PresentationsProofs.tla` proves, for any number of wallets, challenges, presentations, clients
and reconcilers: `TypeCorrect` (`TypeOK`), `VerdictsHold` (`VerifiedAsClaimed`), `AuditIsTrue`
(`AuditTruthful`) and `ChallengesAreSingleUse` (`SingleUse`), the first three from `Invariant`.

`IInv` says of a verifier or a reconciler that is about to store a good verdict that the verdict
holds for the claim which the stored document names, *if* it still has the version read back
(`Decides`, `Justified`). A verdict found by a verifier that was overtaken says nothing, and is refused by the
compare-and-set: every claim writes a new version and is counted (`JobOK`). What makes the verdict stay
good is that no claim is later than the clock (`ItemOK`), and a new revocation is dated now. For `AuditTruthful` a decision is followed from the write to its event.
`SingleUse` has an induction of its own, `UsedOnce`: who consumed a challenge found it ISSUED, in its first
version (`ChallengeOK`); from then on it is CONSUMED, and the one call that holds it becomes the one
presentation made with it. A failed call loses the challenge, and does not give it back.

Only model-checked: `EventuallyDecided`.

## 6. Credentials

### State and steps

`Credentials.tla` models issuance (`credential_issuance_service.py`), revocation and status
(`credential_revocation_service.py`) and publication
(`status_list_service.py`) on their three collections. The point is that a slot is reserved in one
of *two* collections, each with a unique index of its own: an issued credential embeds its
slot, one from before status lists gets an entry.

* Issuance: `OpenIssue`, `ReadSlots`, `Insert`; a slot that was taken meanwhile is passed over.
* Revocation: `OpenRevoke`, `Ensure` (the assignment there is, or a search),
  `ProbeSlot`, `Reserve`, `Revoke` (one update that embeds slot and outbox record).
* Status: `OpenStatus`, `MarkExpired`; of a revoked credential it does what revocation does.
* Publication: `OpenPublication`, `ReadRevoked`, `ReadExisting`, `Publish`, `Respond`.
* `CallFails` ends a request at any access: the database cannot be reached, or the process dies.

*Abstracted*: one issuer, one status purpose (suspension is defined but no operation performs
it); the hash that picks the first slot is the constant `Candidate`; the proof and the
digest of a list are its content; its encoding is one bit per slot.

### The run

`Credentials`: a legacy credential, unrevoked or revoked from the start, that may expire,
two credentials to be issued, two lists of two slots, two requests at a time. All three
hash to the last slot, so that every search goes round, collides and goes on to the second list.
Publications of list 1 start from version 0 or 1 (`MaxVersion`), so that one can overtake another twice.

* `NeverMoves`: an assignment, in whichever collection, is never lost or changed.
* `RevokedForGood`: a revoked credential stays as it is, an expired one can only be revoked.
* `FreshAnswers`: who asks for a list after a revocation gets that revocation.
* `EveryCallAdvances`: every access brings its request nearer to its end, by the measure
  `Left`, whatever others take meanwhile. This bounds the two retry loops without
  any fairness.

### Proofs

`CredentialsProofs.tla` proves all of them, for any number of credentials, lists, slots and requests, and any
hash: `TypeCorrect` (`TypeOK`), `AnswersAreFresh` (`FreshAnswers`), `SlotsAreForGood` (`NeverMoves`),
`RevocationIsForGood` (`RevokedForGood`) and `CallsAdvance` (`EveryCallAdvances`).

`IInv` holds the two collections together: an issued credential that has an entry has it for the slot it
embeds (`DocOK`), and a slot is searched for only while no issuance embeds one (`Unembedded`). A publication
must show what was revoked when it was asked for, and has seen it from its read on (`must` in `CallOK`);
as revocations stay (`RevocationsStay`), later ones only add to it.

`CallsAdvance` is a termination argument without fairness: the measure `Left` is a natural number that
every access of a request lowers. Between two accesses others may take slots; a search that is passed
over notes the slot in `taken`, and the number of slots not yet tried in this list and in those after it
falls. The least free slot from a candidate exists since every set of naturals has a least element
(`WFMin` of the library).

## 7. OpenID endpoints

### State and steps

`Oid4.tla` models `oid4vci_service.py` and `oid4vp_service.py`. The first exchanges an offer for a
credential: `OpenClaim`, `Sign` (the credential is issued, which is the matter of
`Credentials` and one step here), `MarkClaimed`, `AuditClaim`, after which the holder is answered.
The second decides a session: `Post`, `CheckStatus`, `Decide`, `AuditVerdict`; `Poll` is the verifier
that waits. `Expire`, `RevokeCredential` and `Fail` may come at any moment.
`handed` and `verdicts` are history, what the two routes have answered. A posted presentation
(`Token`) is the credential it names and the outcomes of the stateless checks.

### The run

`Oid4`: one offer with a PIN, one session, two holders, two requests at a time, two credentials.
Two credentials are what two racing claims of one offer sign; a session may be posted any of them, or a
foreign one, again and again.

* `HandedOnce`: however many requests exchange one code, one holder is answered, with a
  credential made out to him, and the stored offer and an audit event say the same.
* `RevokedNeverVerifies`: a credential revoked when it was posted never makes a session VERIFIED.
* `ToldIsStored`: a verdict that anyone was told is the stored one and stays so, and no
  audit event contradicts it.

No liveness: whoever asks may give up.

*Proved* in `Oid4Proofs`, for any number of offers, sessions, holders, requests and credentials:
`TypeCorrect` (`TypeOK`), `OneHolderIsAnswered` (`HandedOnce`), `RevokedStaysOut`
(`RevokedNeverVerifies`) and `VerdictsAreStored` (`ToldIsStored`). `IInv` ties each request to the document
it has written (`ClaimedAs`, `DecidedAs`): from the successful compare-and-set on, the offer or session is settled
and no later step changes it (`SettledStay`), so that the audit event and the answer, two accesses later,
still say what is stored. A revocation seen at the post stays one.

## 8. Audit outbox

### State and steps

`AuditOutbox.tla` models `audit_outbox_service.py` and the two places its records live: the
collection, and the credential documents (`Embedded`; `CommitEmbedded` is the revocation that
stores one). A request stores an event (`Ensure`, as the key, wallet and presentation services do, or
`RecordStatusCheck`; then `Enqueue`) and delivers it at once; a worker
polls (`Poll`, `NextOfBatch`). A delivery is `Get`, `Claim`, `ReadBack`, `Publish`, `Acknowledge`, or
`Reschedule`. `Error` is an access that fails without an effect, or one with an effect whose answer is
lost; `Crash` is the death of the process.

*Abstracted*: version numbers would grow for ever; a deliverer notes instead if what it read
is still the stored version, which every write takes from the others. Times are what
is left until they come. Attempts are counted up to the one at which the back-off is longest. A lease
is long for a delivery, so that a lease which ends under a running delivery counts as a fault (`Lapsing`).

### The run

`AuditOutbox`: a standalone and an embedded record, two requests and a worker, batches of one, two
faults, so that a crash and a lost answer, or an expired claim and a late acknowledgement, fall together.

* `DeliveredIsPublished`: what counts as delivered is in the log, although publishing,
  acknowledging and retrying are separate writes of deliverers that may hold one claim.
* `EventuallyDelivered`: every stored record is delivered.

*Fairness*: time passes; the loop of a worker outlives every error; a request that has begun
to deliver goes on (its death is `Crash`). No request is assumed to start. The faults are
bounded, as they must be for anything to be delivered.

*Proved* in `AuditOutboxProofs`, for any number of events and deliverers, any lease, batch and back-off:
`TypeCorrect` (`TypeOK`) and `DeliveryIsTrue` (`DeliveredIsPublished`). `IInv` adds what a deliverer is honest
about: its claim has counted an attempt, and it acknowledges only an event that is in the log, so that neither a second holder of a claim nor a late acknowledgement can lie.
`EventuallyDelivered` is only model-checked.

## 9. Remote key provider adapter

`RemoteKms.tla` models `GenericRemoteKmsAdapter` of `generic_remote_kms.py`: `Enter` (the circuit is
asked once for each call), `Send`, `Succeed`, `Fail` and `Raise` with `RecordSuccess` and `RecordFailure`.
The lock protects each access to the breaker, not a call, so that late answers of calls that began before
the circuit opened meet the resets of others. `Toggle` is the service that goes and comes; `sent`
counts the requests sent since the circuit opened, for a property only.

`RemoteKms` runs three threads with two retries each, threshold 3, reset time 2: more attempts than the
threshold, so that the circuit opens in the middle of calls.

* `CircuitIsEarned`: the circuit is open exactly when as many failures as the threshold have come in a row.
* `SentWhileOpen`: while it is open no more is sent than what calls that had begun before still had to try.
* `ServedAgain`: once the service stays up, the circuit lets calls pass for good.

*Fairness*: time passes, and the attempts of a call end (requests have a timeout). Nobody has to call.

*Proved* in `RemoteKmsProofs`, for any number of threads and any settings: `TypeCorrect`,
`AlwaysEarned` (`Spec => []CircuitIsEarned`, with the type invariant inductive) and `RetriesAreBounded`
(`Spec => []SentWhileOpen`). The last bounds `sent` by what calls had left to try, a sum over the
calls. The proof takes the attempts left as a set of pairs of a caller and a number instead (`Left`), so that a
sum is a cardinality: while the circuit is open nobody enters without closing it, every request sent removes a pair, and
the failure that opened it has used one (`Drains`). `ServedAgain` is only model-checked.

## 10. Contracts

`Contracts.tla` models `DIDRegistry` and `EmergencyRecovery`. A transaction is atomic: an action is one
external function called by any account, its guard the modifiers and `require` statements, its
effect the assignments. `executeRecovery` is not an action: no reachable state enables it
(`ExecutableByHand`), which `ApprovalsCounted` states. `RevocationRegistry` and `AuditLogger` are stores that are
only added to.

`Contracts` runs five accounts, one wallet with three guardians of any four of them, two identifiers and
two hashes: enough that the guardians of two requests overlap, and that an owner has two identifiers.

* `ReverseIsOwned`: the reverse lookup names no identifier that its account no longer owns.
* `ApprovalsCounted`: the counter is the number of guardians whose flag is set, and no active
  request has its quorum.
* `OwnedByQuorum`: a wallet's owner changes only to whom the request at hand proposes, with two
  of its guardians' approvals of it.

*Proved* in `ContractsProofs`, for all accounts, wallets and identifiers: `TypeCorrect`,
`ReverseAlwaysOwned` (inductive as it stands), `AlwaysCounted` and `AlwaysOwnedByQuorum`. The last two
need `QuorumInv` and `Unconfigured`: an active request has one approval (the second one executes it), flags
are of guardians, and a wallet that is not configured has neither.

## 11. What the models show that the documents do not say

The following behaviours are in the models, at the definitions named. They were met while
modelling and are listed for whoever maintains the code or its documents; the
properties of the runs are stated so that they hold beside them.

*Recovery*

* An approval is stored and its caller dies before counting (`RecordDecision`, `Crash`). A repeated approval
  returns the stored one, and reconciliation never counts: the request waits until it expires.
  docs/account-recovery.md:12 and :147 call reconciliation restart-safe. `QuorumRecognised` is
  therefore stated for calls that do not die.
* A guardian update that saw no active request is written after one has been created
  (`BeginUpdateGuardian`, `UpdateGuardian`); docs/account-recovery.md:74 says that mutation is
  blocked meanwhile. If it suspends an approver, the execution fails for good: approvals
  are filtered by the guardians' current status (`CombineShares`).
* Workers that die while executing are replaced after their lease without a look at
  the policy's maximum attempts (`Reconcile`, `Claim`); docs/account-recovery.md:161 says that
  retries are bounded.
* After a failed attempt whose rotation did take place, the request is ready again and can be
  cancelled (`BeginCancel`); docs/api-contracts.md:174 says *before* execution.
* Share version 1 is a constant, so that the next request under the same policy version
  meets the old shares and is refused (`SaveShare`); docs/account-recovery.md:83 says that a share
  version is generated for each request.
* The first request of a wallet without a policy reads that there is none, and `put_policy` reads again before it writes the
  default terms (recovery_service.py:318, :267): a policy that the owner PUT in between is overwritten by the
  default as its next version (`BeginDefaultPolicy`, `CreateDefaultPolicy`).
* Every error answer of the identity service, also 404 and 409, is retried until the attempts are used
  (`RecordFailure`).

*Managed keys*

* A key that is being rotated can be resumed (`BeginLifecycle`);
  docs/external-kms-key-lifecycle.md:226 says from SUSPENDED only.
* The provider schedules a deletion before the transition is checked and refused, and a
  cancellation revokes an active key that nobody scheduled (`BeginDeletion`, `Act`, `Store`);
  docs/external-kms-key-lifecycle.md:107 allows the destruction of a revoked key only.
* A cancellation that is stored while the worker destroys the key is answered with REVOKED although the key is
  gone: the provider cancels, the worker, which has read the key before, destroys it, and the worker's own write loses
  (`Act`, `DestroyKey`, `Store`). docs/external-kms-key-lifecycle.md:235 says that cancellation returns a pending key
  to REVOKED. `DestroyedForGood` therefore does not say that a key which is not stored as DESTROYED exists.
* COMPROMISED is stored before the provider is asked to suspend the key; if that fails, a repeated recovery finds the key
  COMPROMISED and does not ask again (managed_key_service.py:520; `Store`, `Block`, `RepeatRecovery`).
  `ReportedCompromise` speaks of the stored state only.
* A creation request that is repeated after a rotation binds the wallet to the
  retired key again (`BeginCreate`, `Bind`).
* `reconciliation_attempts` counts successful synchronisations and is never reset, so that the
  first transient failure of a key that was synchronised often enough stores FAILED, which is terminal
  (`ClaimReconciliation`, `GiveUp`); docs/external-kms-key-lifecycle.md:256 reserves it for
  exhausted retries.
* A recovery that died after its successor became active is answered with success when it is
  repeated, although the wallet is still bound to the old key (`RepeatRecovery`);
  docs/account-recovery.md:179 says that the repetition returns the same completed rotation.
* A rotation dies between the activation of the successor and the link. The worker tries to
  restore the predecessor, which the index on active keys refuses until the key is FAILED; the
  wallet stays bound to it. docs/external-kms-key-lifecycle.md:246-254 lists inconsistent
  bindings among what the worker handles.

*Presentations*

* A managed key that may not sign raises `ManagedKeySigningRejectedError`
  (presentation_service.py:763), which neither the reconciliation nor the worker's loop catches:
  the worker ends (`Evidence`, `running`). docs/holder-wallet-and-key-custody.md:195-196 and
  docs/verifiable-presentation.md:165-166 say that missing or inconsistent evidence ends as REJECTED.
* The validators of both services are given the process-local holder key provider only (dependencies.py:543 and
  :956), which knows no key of a managed wallet: a presentation that such a wallet signed ends REJECTED with
  HOLDER_RESOLUTION_FAILED (presentation_proof_service.py:385; `HolderKeyErrors`). docs/verifiable-presentation.md:166
  says that valid evidence completes as VERIFIED.
* A verifier accepts a challenge in the very second of its expiry, a reconciler refuses it
  (`EnvelopeErrors`, `Evident`).

*Credentials*

* An issued and a legacy credential may get one slot: the embedded slots and the entries have
  an index each, and the check across them is a read (`HeldInCredentials` in `ProbeSlot`, nothing in
  `Insert`). Revoking one then shows the other revoked. docs/threat-model.md:96 (T28)
  counts on a unique reservation, docs/issuance-lifecycle.md:68-71 on that check.
* A publication that read the revocations earlier may be stored over a newer one, after
  it read the newer version: the stored list loses a revocation until the next request
  recomputes it (`ReadRevoked`, `ReadExisting`, `Publish`). `FreshAnswers` is therefore stated for the answers.

*OpenID endpoints*

* A claim that loses the race, or fails after signing, leaves an ACTIVE credential that belongs to no offer
  (`MarkClaimed`); one that fails after `MarkClaimed` leaves a CLAIMED offer whose holder got nothing.
* A proof without a nonce and an end of validity that cannot be read pass (`ChallengeValid`,
  `ExpiryValid`), and so does a credential that the service does not know (`Clear`). Of several credentials in a
  presentation only the first is looked at (oid4vp_service.py:141; `Token`): the verdict, and
  `RevokedNeverVerifies`, are about that one.
* A credential that is revoked between the read of its status and the storing of the verdict still makes the session
  VERIFIED (`CheckStatus`, `RevokeCredential`, `Decide`).

*Outbox*

* Embedded records are listed only if the batch has room after those of the collection (`Batches`).
* A stale reschedule raises and ends the worker's batch (`Raised`); the rest waits for the next cycle.
* There is no limit of attempts and no dead-letter state.
* A record with the digest of another event ends the request, without an error to the caller (`Ensure`).

*Remote adapter*

* Calls that have begun go on to send while the circuit is open, and open it again after a reset
  (`Send`, `Fail`); a late success of an earlier call resets the failures (`RecordSuccess`);
  after the reset time all waiting callers pass at once. The circuit belongs to the
  process, as docs/external-kms-key-lifecycle.md:400 says.

*Contracts*

* The quarantine flag is read by no function (`SetQuarantine`). `executeRecovery` always
  reverts (`ExecutableByHand`). `approveRecovery` does not name the proposal that is
  approved (`ApproveRecovery`). The owner after a recovery may be a guardian, and recovery does not
  transfer the identifier in `DIDRegistry`. An owner of several identifiers may not be found by the reverse
  lookup (`ReverseAfter`).

## 12. Not modelled

* *Recovery*: HTTP translation, authentication, grants, metrics, settings; the mathematics of secret sharing
  (whether shares suffice is modelled).
* *Identity service*: validation, proofs and DID resolution are stateless checks of one document, whose outcome is
  an input of the models. Routes, authentication, configuration, metrics and error mapping translate and keep no state.
  The legacy layer 3 and its sqlite database are demonstration code without a protocol.
* *Outbox*: a different event under an identifier that the log already has, which would fail every delivery
  (`_publish_idempotently`). Identifiers are the keys of the collection, and only its stored record is appended.
* *Contracts*: `RevocationRegistry` and `AuditLogger`.
* *Fraud service* (a stateless scoring function), *API gateway* (a stateless proxy), *shared packages*
  (cryptography and encodings), the *web application*, scripts, infrastructure.
* The batch limit of recovery's reconciliation: requests that wait for approvals can fill the batch
  of the oldest candidates. The model has one wallet, and its fairness assumes that every
  due request is reached.
* The composition of recovery and rotation (`RecoveredWallet`, section 2).
