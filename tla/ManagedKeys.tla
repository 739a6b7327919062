---------------------------- MODULE ManagedKeys ----------------------------
(***************************************************************************)
(* The presentation-signing keys of one holder wallet: provisioning,       *)
(* rotation, recovery, the lifecycle of a key, its destruction, and the    *)
(* worker that repairs what was interrupted.                               *)
(*                                                                         *)
(* A key has a metadata document in the store and a key at an external     *)
(* provider; the wallet's document says which key it is bound to.  A call  *)
(* writes these one after another, so that each step below is one write,   *)
(* one provider call, or the reads between two of them.  A key is known    *)
(* by its key version, which is unique for a wallet.                       *)
(***************************************************************************)
EXTENDS Naturals, FiniteSets

CONSTANTS
    MaxKeys,            \* bound: keys of the wallet
    OwnerTokens,        \* idempotency keys the owner sends
    RecoveryTokens,     \* idempotency keys derived from recovery requests
    WalletToken,        \* the idempotency key of the wallet's first key
    Callers,            \* threads that serve API calls
    Workers,            \* reconciliation workers, and admin reconcile calls
    Ops,                \* which operations are called
    Grace,              \* whether a rotated key has a grace period
    RetryLimit,         \* reconciliation attempts before a key is given up
    MaxVersion,         \* bound: document versions that repeatable calls start from
    MaxRevocable,       \* bound: keys the wallet has when one is revoked or destroyed
    MaxFaults           \* bound: worker steps that raise, and workers that die

VARIABLES
    key,                \* key[n]: the stored metadata of key n
    provider,           \* provider[n]: the key at the provider
    wallet,             \* the holder wallet's document
    matured,            \* keys whose grace period or deletion delay is over
    lapsed,             \* keys whose reconciliation lease has run out
    reported,           \* recoveries answered with success
    caller,             \* the state of each API call
    worker,             \* the state of each reconciliation
    faults              \* worker steps that have raised, and workers that have died

vars == <<key, provider, wallet, matured, lapsed, reported, caller, worker, faults>>

Keys == 1 .. MaxKeys
NoKey == 0
Tokens == OwnerTokens \cup RecoveryTokens \cup {WalletToken}
NoToken == "no token"

ASSUME ConstantsAssumption ==
    /\ MaxKeys \in Nat \ {0}
    /\ NoToken \notin Tokens
    /\ WalletToken \notin OwnerTokens \cup RecoveryTokens
    /\ OwnerTokens \cap RecoveryTokens = {}
    /\ Grace \in BOOLEAN
    /\ RetryLimit \in Nat \ {0}
    /\ MaxVersion \in Nat
    /\ MaxRevocable \in Nat
    /\ MaxFaults \in Nat

-----------------------------------------------------------------------------
(* Documents *)

KeyState == {"ABSENT", "PENDING", "ACTIVE", "ROTATING", "SUSPENDED", "COMPROMISED",
             "REVOKED", "DESTROY_PENDING", "DESTROYED", "FAILED"}

\* VALID_KEY_TRANSITIONS.
Moves(s) ==
    {t \in KeyState :
        \/ s = "PENDING" /\ t \in {"ACTIVE", "FAILED"}
        \/ s = "ACTIVE" /\ t \in {"ROTATING", "SUSPENDED", "COMPROMISED", "REVOKED", "FAILED"}
        \/ s = "ROTATING" /\ t \in {"ACTIVE", "SUSPENDED", "COMPROMISED", "REVOKED", "FAILED"}
        \/ s = "SUSPENDED" /\ t \in {"ACTIVE", "COMPROMISED", "REVOKED", "FAILED"}
        \/ s = "COMPROMISED" /\ t \in {"REVOKED", "FAILED"}
        \/ s = "REVOKED" /\ t \in {"DESTROY_PENDING", "FAILED"}
        \/ s = "DESTROY_PENDING" /\ t \in {"REVOKED", "DESTROYED", "FAILED"}}

\* provisioned: the provider reference and the public key are known.  Attempts
\* are counted up to RetryLimit, which is all that is compared.
KeyDoc ==
    [state : KeyState, version : Nat, token : Tokens \cup {NoToken},
     provisioned : BOOLEAN, predecessor : Keys \cup {NoKey},
     successor : Keys \cup {NoKey}, attempts : 0 .. RetryLimit, leased : BOOLEAN]
ProviderKey ==
    [created : BOOLEAN, suspended : BOOLEAN, revoked : BOOLEAN, destroyed : BOOLEAN,
     deletion : BOOLEAN]
WalletDoc ==
    [status : {"NONE", "ACTIVE", "LOCKED", "DISABLED"}, key : Keys \cup {NoKey},
     version : Nat]

NoDoc ==
    [state |-> "ABSENT", version |-> 0, token |-> NoToken, provisioned |-> FALSE,
     predecessor |-> NoKey, successor |-> NoKey, attempts |-> 0, leased |-> FALSE]
NewDoc(token, predecessor) ==
    [NoDoc EXCEPT !.state = "PENDING", !.version = 1, !.token = token,
                  !.predecessor = predecessor]

Enabled(n) == ~(provider[n].suspended \/ provider[n].revoked \/ provider[n].destroyed)
ByToken(t) == {n \in Keys : key[n].token = t}
ActiveKeys == {n \in Keys : key[n].state = "ACTIVE"}
\* The key version that follows all others.
IsNext(n) ==
    /\ key[n].state = "ABSENT"
    /\ \A m \in Keys : m < n => key[m].state # "ABSENT"

\* Variant: the update is not conditional on the version.
LastWriterWins(n, version) == TRUE
\* The compare-and-set of update, claim_rotation, link_successor and
\* claim_reconciliation: every one of them increments the version.
Unchanged(n, version) == key[n].version = version

\* The unique index on the active key of a wallet and purpose.
MayBecome(n, s) == s = "ACTIVE" => ActiveKeys \subseteq {n}

Put(n, s) == key' = [key EXCEPT ![n].state = s, ![n].version = @ + 1]

-----------------------------------------------------------------------------
(* Processes *)

Lifecycle == {"suspend", "resume", "revoke"}
Deletions == {"schedule", "cancel"}
Recoveries == {"recover", "recoverCompromised"}
Rotations == {"rotate"} \cup Recoveries
WalletOps == {"lock", "disable"}
Operations ==
    {"open", "create", "compromise"} \cup Rotations \cup Lifecycle \cup Deletions \cup WalletOps

\* A call on key "key", which it has read in state "from" at version "seen".  It
\* provisions key "new", which is "ready" when its provider reference is known;
\* walletSeen is the version of the wallet it has read.
CallerState ==
    [pc : {"idle", "number", "insert", "provide", "activate", "add", "rotate", "claim",
           "link", "linked", "bind", "silence", "retire", "accuse", "act", "store",
           "block", "status"},
     op : Operations \cup {"none"}, token : Tokens \cup {NoToken},
     key : Keys \cup {NoKey}, from : KeyState, seen : Nat,
     new : Keys \cup {NoKey}, ready : BOOLEAN, walletSeen : Nat]
NoCall ==
    [pc |-> "idle", op |-> "none", token |-> NoToken, key |-> NoKey, from |-> "ABSENT",
     seen |-> 0, new |-> NoKey, ready |-> FALSE, walletSeen |-> 0]

\* A reconciliation of key "key", read in state "from" at version "seen", which is
\* to end in state "target"; it binds the wallet to key "new".
WorkerState ==
    [pc : {"idle", "claim", "examine", "destroy", "provide", "activate", "adopt", "bind",
           "suspend", "store", "sync", "failing"},
     key : Keys \cup {NoKey}, from : KeyState, seen : Nat,
     target : KeyState, new : Keys \cup {NoKey}, walletSeen : Nat]
NoWork ==
    [pc |-> "idle", key |-> NoKey, from |-> "ABSENT", seen |-> 0, target |-> "ABSENT",
     new |-> NoKey, walletSeen |-> 0]

Init ==
    /\ key = [n \in Keys |-> NoDoc]
    /\ provider = [n \in Keys |-> [created |-> FALSE, suspended |-> FALSE,
                                   revoked |-> FALSE, destroyed |-> FALSE,
                                   deletion |-> FALSE]]
    /\ wallet = [status |-> "NONE", key |-> NoKey, version |-> 0]
    /\ matured = {}
    /\ lapsed = {}
    /\ reported = {}
    /\ caller = [c \in Callers |-> NoCall]
    /\ worker = [w \in Workers |-> NoWork]
    /\ faults = 0

Usable == wallet.status = "ACTIVE"
MayBind(version) == wallet.version = version /\ Usable
BindTo(n) == wallet' = [wallet EXCEPT !.key = n, !.version = @ + 1]

SuspendAtProvider(n) == provider' = [provider EXCEPT ![n].suspended = TRUE]
CreateAtProvider(n) == provider' = [provider EXCEPT ![n].created = TRUE]
DestroyAtProvider(n) ==
    provider' = [provider EXCEPT ![n].destroyed = TRUE, ![n].suspended = TRUE,
                                 ![n].deletion = FALSE]
\* Variant: the state is what the provider says of the key.
HydrateAsReported(n) ==
    key' = [key EXCEPT ![n].state = "ENABLED", ![n].provisioned = TRUE, ![n].version = @ + 1]
Hydrate(n) ==
    key' = [key EXCEPT ![n].state = "ACTIVE", ![n].provisioned = TRUE, ![n].version = @ + 1]

-----------------------------------------------------------------------------
(* API calls: provisioning and binding a key *)

Call(c, s) == caller' = [caller EXCEPT ![c] = s]
At(c, pc) == Call(c, [caller[c] EXCEPT !.pc = pc])
Done(c) == Call(c, NoCall)
\* The fields the steps of call c work on.
K(c) == caller[c].key
New(c) == caller[c].new

\* POST /wallets: the wallet's id is new, so that its first key is requested once.
BeginOpen(c) ==
    /\ caller[c].pc = "idle"
    /\ "open" \in Ops
    /\ wallet.status = "NONE"
    /\ ActiveKeys \cup ByToken(WalletToken) = {}
    /\ \A d \in Callers : caller[d].op # "open"
    /\ Call(c, [NoCall EXCEPT !.pc = "number", !.op = "open", !.token = WalletToken])
    /\ UNCHANGED <<key, provider, wallet, matured, reported>>

\* create_for_wallet: a repeated request binds the wallet to the key it created.
BeginCreate(c, t) ==
    /\ caller[c].pc = "idle"
    /\ "create" \in Ops
    /\ Usable
    /\ LET call == [NoCall EXCEPT !.op = "create", !.token = t,
                                  !.walletSeen = wallet.version]
       IN \/ /\ ActiveKeys = {}
             /\ Call(c, [call EXCEPT !.pc = "number"])
          \/ /\ ActiveKeys # {}
             /\ wallet.version < MaxVersion
             /\ \E m \in ByToken(t) :
                   Call(c, [call EXCEPT !.pc = "bind", !.new = m,
                                        !.ready = key[m].provisioned])
    /\ UNCHANGED <<key, provider, wallet, matured, reported>>

\* _provision: the key of the token, if there is one, or else the next version.
\* A rotation has read back the key it claimed.
Number(c) ==
    LET call == [caller[c] EXCEPT !.seen = IF K(c) = NoKey THEN 0 ELSE key[K(c)].version]
    IN /\ caller[c].pc = "number"
       /\ \/ \E m \in ByToken(caller[c].token) :
                Call(c, [call EXCEPT !.new = m, !.ready = key[m].provisioned,
                                     !.pc = CASE call.op = "open" -> "add"
                                              [] call.op = "create" -> "bind"
                                              [] OTHER -> "link"])
          \/ /\ ByToken(caller[c].token) = {}
             /\ \E n \in Keys :
                   /\ IsNext(n)
                   /\ Call(c, [call EXCEPT !.pc = "insert", !.new = n])
       /\ UNCHANGED <<key, provider, wallet, matured, reported>>

\* The unique indexes on the key version and on the idempotency key.
Insert(c) ==
    /\ caller[c].pc = "insert"
    /\ key[New(c)].state = "ABSENT"
    /\ ByToken(caller[c].token) = {}
    /\ key' = [key EXCEPT ![New(c)] = NewDoc(caller[c].token, K(c))]
    /\ At(c, "provide")
    /\ UNCHANGED <<provider, wallet, matured, reported>>

Provide(c) ==
    /\ caller[c].pc = "provide"
    /\ CreateAtProvider(New(c))
    /\ At(c, "activate")
    /\ UNCHANGED <<key, wallet, matured, reported>>

Activate(c) ==
    /\ caller[c].pc = "activate"
    /\ Unchanged(New(c), 1)
    /\ MayBecome(New(c), "ACTIVE")
    /\ Hydrate(New(c))
    /\ Call(c, [caller[c] EXCEPT !.ready = TRUE,
                                 !.pc = CASE caller[c].op = "open" -> "add"
                                          [] caller[c].op = "create" -> "bind"
                                          [] OTHER -> "link"])
    /\ UNCHANGED <<provider, wallet, matured, reported>>

AddWallet(c) ==
    /\ caller[c].pc = "add"
    /\ caller[c].ready
    /\ wallet' = [status |-> "ACTIVE", key |-> New(c), version |-> 1]
    /\ Done(c)
    /\ UNCHANGED <<key, provider, matured, reported>>

-----------------------------------------------------------------------------
(* API calls: rotation and recovery *)

Report(c) ==
    reported' = reported \cup
        {r \in [old : {K(c)}, new : {New(c)}, compromise : {caller[c].op = "recoverCompromised"}] :
            caller[c].op \in Recoveries}

BeginRotate(c, n, t) ==
    /\ caller[c].pc = "idle"
    /\ "rotate" \in Ops
    /\ key[n].state = "ACTIVE"
    /\ key[n].version < MaxVersion
    /\ Call(c, [NoCall EXCEPT !.pc = "rotate", !.op = "rotate", !.token = t, !.key = n])
    /\ UNCHANGED <<key, provider, wallet, matured, reported>>

\* recover_wallet on its first execution.
BeginRecovery(c, op, t) ==
    /\ caller[c].pc = "idle"
    /\ op \in Ops
    /\ Usable
    /\ ByToken(t) = {}
    /\ \E n \in ActiveKeys :
          /\ key[n].version < MaxVersion
          /\ Call(c, [NoCall EXCEPT !.pc = "rotate", !.op = op, !.token = t, !.key = n])
    /\ UNCHANGED <<key, provider, wallet, matured, reported>>

\* Variant: a predecessor that the rotation has retired is left alone.
AccusableInUse == {"ACTIVE", "ROTATING"}
\* The states in which a repeated recovery still has to accuse the predecessor.
Accusable == {"ACTIVE", "ROTATING", "SUSPENDED"}

\* recover_wallet repeated: the successor of the first execution, in whatever
\* state it is.
RepeatRecovery(c, op, t) ==
    /\ caller[c].pc = "idle"
    /\ op \in Ops
    /\ Usable
    /\ \E m \in ByToken(t) :
          LET n == key[m].predecessor
              call == [NoCall EXCEPT !.pc = "accuse", !.op = op, !.token = t,
                                     !.key = n, !.new = m]
              result == [old |-> n, new |-> m, compromise |-> op = "recoverCompromised"]
          IN /\ n # NoKey
             /\ IF op = "recoverCompromised" /\ key[n].state \in Accusable
                THEN Call(c, call) /\ UNCHANGED reported
                ELSE reported' = reported \cup {result} /\ UNCHANGED caller
    /\ UNCHANGED <<key, provider, wallet, matured>>

\* Variant: a token that another key holds starts a rotation.
MayRotateAgain(c) == key[K(c)].state = "ACTIVE"
MayRotate(c) == ByToken(caller[c].token) = {} /\ key[K(c)].state = "ACTIVE"

\* rotate: an earlier request with this token has rotated the key already, or
\* the key is active and is to be claimed.
Rotate(c) ==
    /\ caller[c].pc = "rotate"
    /\ Usable
    /\ \/ \E m \in ByToken(caller[c].token) :
             /\ key[m].predecessor = K(c)
             /\ IF caller[c].op = "recoverCompromised"
                THEN /\ Call(c, [caller[c] EXCEPT !.pc = "accuse", !.new = m])
                     /\ UNCHANGED reported
                ELSE /\ Done(c)
                     /\ reported' = reported \cup
                            {r \in [old : {K(c)}, new : {m}, compromise : {FALSE}] :
                                caller[c].op = "recover"}
       \/ /\ MayRotate(c)
          /\ Call(c, [caller[c] EXCEPT !.pc = "claim", !.seen = key[K(c)].version])
          /\ UNCHANGED reported
    /\ UNCHANGED <<key, provider, wallet, matured>>

ClaimRotation(c) ==
    /\ caller[c].pc = "claim"
    /\ Unchanged(K(c), caller[c].seen)
    /\ key[K(c)].state = "ACTIVE"
    /\ Put(K(c), "ROTATING")
    /\ matured' = IF Grace THEN matured \ {K(c)} ELSE matured \cup {K(c)}
    /\ At(c, "number")
    /\ UNCHANGED <<provider, wallet, reported>>

LinkSuccessor(c) ==
    /\ caller[c].pc = "link"
    /\ Unchanged(K(c), caller[c].seen)
    /\ key[K(c)].state = "ROTATING"
    /\ key[K(c)].successor = NoKey
    /\ key' = [key EXCEPT ![K(c)].successor = New(c), ![K(c)].version = @ + 1]
    /\ At(c, "linked")
    /\ UNCHANGED <<provider, wallet, matured, reported>>

\* The readback of the link, and the wallet it is to be bound in.
Linked(c) ==
    /\ caller[c].pc = "linked"
    /\ Usable
    /\ Call(c, [caller[c] EXCEPT !.pc = "bind", !.walletSeen = wallet.version,
                                 !.from = key[K(c)].state, !.seen = key[K(c)].version])
    /\ UNCHANGED <<key, provider, wallet, matured, reported>>

\* What follows the rotation: the end of the call, or the accusation.
Rotated(c) ==
    IF caller[c].op = "recoverCompromised"
    THEN At(c, "accuse") /\ UNCHANGED reported
    ELSE Done(c) /\ Report(c)

Bindable(c) == caller[c].ready /\ MayBind(caller[c].walletSeen)

Bind(c) ==
    /\ caller[c].pc = "bind"
    /\ Bindable(c)
    /\ caller[c].op = "create" => wallet.key # New(c)
    /\ BindTo(New(c))
    /\ CASE caller[c].op = "create" -> Done(c) /\ UNCHANGED reported
         [] caller[c].op # "create" /\ Grace -> Rotated(c)
         [] OTHER -> At(c, "silence") /\ UNCHANGED reported
    /\ UNCHANGED <<key, provider, matured>>

Silence(c) ==
    /\ caller[c].pc = "silence"
    /\ SuspendAtProvider(K(c))
    /\ At(c, "retire")
    /\ UNCHANGED <<key, wallet, matured, reported>>

Retire(c) ==
    /\ caller[c].pc = "retire"
    /\ "SUSPENDED" \in Moves(caller[c].from)
    /\ Unchanged(K(c), caller[c].seen)
    /\ Put(K(c), "SUSPENDED")
    /\ Rotated(c)
    /\ UNCHANGED <<provider, wallet, matured>>

-----------------------------------------------------------------------------
(* API calls: the lifecycle of a key *)

Target(op) ==
    CASE op = "suspend" -> "SUSPENDED"
      [] op = "resume" -> "ACTIVE"
      [] op \in {"revoke", "cancel"} -> "REVOKED"
      [] op = "schedule" -> "DESTROY_PENDING"
      [] OTHER -> "COMPROMISED"

\* A call that has read key n and goes on at step pc.
Reading(op, n, pc) ==
    [NoCall EXCEPT !.pc = pc, !.op = op, !.key = n,
                   !.from = key[n].state, !.seen = key[n].version]

\* suspend, resume and revoke: the transition is checked before the provider is
\* called; require_resume_allowed refuses nothing.
BeginLifecycle(c, op, n) ==
    /\ caller[c].pc = "idle"
    /\ op \in Ops
    /\ Usable
    /\ Target(op) \in Moves(key[n].state)
    /\ key[n].provisioned
    /\ key[n].version < MaxVersion
    /\ Call(c, Reading(op, n, "act"))
    /\ UNCHANGED <<key, provider, wallet, matured, reported>>

\* Bound: no key is revoked or destroyed once there are more than MaxRevocable.
Revocable == Cardinality({n \in Keys : key[n].state # "ABSENT"}) <= MaxRevocable

Suspend(c, n) == BeginLifecycle(c, "suspend", n)
Resume(c, n) == BeginLifecycle(c, "resume", n)
Revoke(c, n) == Revocable /\ BeginLifecycle(c, "revoke", n)

\* schedule_destruction and cancel_destruction call the provider first, and check
\* the transition after that.  Bound: they start from two versions more than other
\* calls, as a key has to be revoked and scheduled first.
BeginDeletion(c, op, n) ==
    /\ caller[c].pc = "idle"
    /\ op \in Ops
    /\ Revocable
    /\ key[n].provisioned
    /\ key[n].version < MaxVersion + 2
    /\ Call(c, Reading(op, n, "act"))
    /\ UNCHANGED <<key, provider, wallet, matured, reported>>

ScheduleDestruction(c, n) == BeginDeletion(c, "schedule", n)
CancelDestruction(c, n) == BeginDeletion(c, "cancel", n)

\* mark_compromised reads the key, whatever the state of the wallet.
Accuse(c, op, n, call) ==
    /\ "COMPROMISED" \in Moves(key[n].state)
    /\ Call(c, [call EXCEPT !.pc = "store", !.op = op, !.key = n,
                            !.from = key[n].state, !.seen = key[n].version])
    /\ UNCHANGED <<key, provider, wallet, matured, reported>>

BeginCompromise(c, n) ==
    /\ caller[c].pc = "idle"
    /\ "compromise" \in Ops
    /\ Accuse(c, "compromise", n, NoCall)

AccusePredecessor(c) ==
    /\ caller[c].pc = "accuse"
    /\ Accuse(c, caller[c].op, K(c), caller[c])

Act(c) ==
    /\ caller[c].pc = "act"
    /\ \/ /\ caller[c].op = "suspend"
          /\ SuspendAtProvider(K(c))
       \/ /\ caller[c].op = "resume"
          /\ ~provider[K(c)].revoked
          /\ ~provider[K(c)].destroyed
          /\ provider' = [provider EXCEPT ![K(c)].suspended = FALSE]
       \/ /\ caller[c].op = "revoke"
          /\ provider' = [provider EXCEPT ![K(c)].revoked = TRUE, ![K(c)].suspended = TRUE]
       \/ /\ caller[c].op \in Deletions
          /\ provider' = [provider EXCEPT ![K(c)].deletion = (caller[c].op = "schedule")]
    /\ At(c, "store")
    /\ UNCHANGED <<key, wallet, matured, reported>>

Store(c) ==
    LET target == Target(caller[c].op)
    IN /\ caller[c].pc = "store"
       /\ target \in Moves(caller[c].from)
       /\ Unchanged(K(c), caller[c].seen)
       /\ MayBecome(K(c), target)
       /\ Put(K(c), target)
       /\ matured' = IF target = "DESTROY_PENDING" THEN matured \ {K(c)} ELSE matured
       /\ IF target = "COMPROMISED" THEN At(c, "block") ELSE Done(c)
       /\ UNCHANGED <<provider, wallet, reported>>

\* The provider is told of the compromise after it has been stored.
Block(c) ==
    /\ caller[c].pc = "block"
    /\ key[K(c)].provisioned
    /\ SuspendAtProvider(K(c))
    /\ Done(c)
    /\ Report(c)
    /\ UNCHANGED <<key, wallet, matured>>

BeginStatus(c, op) ==
    /\ caller[c].pc = "idle"
    /\ op \in WalletOps \cap Ops
    /\ wallet.status \in (IF op = "lock" THEN {"ACTIVE"} ELSE {"ACTIVE", "LOCKED"})
    /\ Call(c, [NoCall EXCEPT !.pc = "status", !.op = op, !.walletSeen = wallet.version])
    /\ UNCHANGED <<key, provider, wallet, matured, reported>>

UpdateStatus(c) ==
    /\ caller[c].pc = "status"
    /\ wallet.version = caller[c].walletSeen
    /\ wallet' = [wallet EXCEPT !.version = @ + 1,
                    !.status = IF caller[c].op = "lock" THEN "LOCKED" ELSE "DISABLED"]
    /\ Done(c)
    /\ UNCHANGED <<key, provider, matured, reported>>

\* A call may end at any step: the provider or the store raises or times out, the
\* client gives up, the process dies, or a guard of the next step does not hold.
Fail(c) ==
    /\ caller[c].pc # "idle"
    /\ Done(c)
    /\ UNCHANGED <<key, provider, wallet, matured, reported>>

-----------------------------------------------------------------------------
(* Reconciliation *)

Work(w, s) == worker' = [worker EXCEPT ![w] = s]
WorkAt(w, pc) == Work(w, [worker[w] EXCEPT !.pc = pc])
W(w) == worker[w].key
\* The reconciliation has changed nothing yet.
Idle == UNCHANGED <<key, provider, wallet, lapsed, faults>>
Finish(w) == Work(w, NoWork)

\* Reconciling a key in such a state, again and again, only counts its versions.
Settled(n) ==
    \/ key[n].state \in {"ACTIVE", "SUSPENDED", "COMPROMISED", "REVOKED", "DESTROYED", "FAILED"}
    \/ key[n].state = "ROTATING" /\ n \notin matured

\* What list_reconciliation_candidates looks for: keys in the middle of an operation,
\* failed keys, keys whose destruction is due, and active keys to synchronise.
Candidate(n) ==
    \/ key[n].state \in {"PENDING", "ROTATING", "FAILED", "ACTIVE"}
    \/ key[n].state = "DESTROY_PENDING" /\ n \in matured

\* A candidate of the batch, or the key of an administrator's request.
Pick(w, n) ==
    /\ worker[w].pc = "idle"
    /\ key[n].state # "ABSENT"
    /\ Settled(n) => key[n].version < MaxVersion
    /\ Work(w, [NoWork EXCEPT !.pc = "claim", !.key = n, !.seen = key[n].version])
    /\ Idle

\* Variant: a lease that is held is never taken over.
NeverLeased(n) == ~key[n].leased
\* A lease is free, or was held for longer than its time.
LeaseFree(n) == ~key[n].leased \/ n \in lapsed

ClaimReconciliation(w) ==
    /\ worker[w].pc = "claim"
    /\ IF Unchanged(W(w), worker[w].seen) /\ LeaseFree(W(w))
       THEN /\ key' = [key EXCEPT ![W(w)].leased = TRUE, ![W(w)].version = @ + 1,
                                  ![W(w)].attempts = IF @ < RetryLimit THEN @ + 1 ELSE @]
            /\ lapsed' = lapsed \ {W(w)}
            /\ WorkAt(w, "examine")
            /\ UNCHANGED <<provider, wallet, faults>>
       ELSE Work(w, NoWork) /\ Idle

\* The reconciliation of the key it has read goes on at step pc.
Go(w, pc, target, new) ==
    /\ Work(w, [worker[w] EXCEPT !.pc = pc, !.target = target, !.new = new,
                                 !.from = key[W(w)].state, !.seen = key[W(w)].version,
                                 !.walletSeen = IF pc = "bind" THEN wallet.version ELSE 0])
    /\ Idle

Examining(w, state) == worker[w].pc = "examine" /\ key[W(w)].state = state

ExamineDestruction(w) ==
    /\ Examining(w, "DESTROY_PENDING")
    /\ Go(w, IF W(w) \in matured THEN "destroy" ELSE "failing", "DESTROYED", NoKey)

\* Variant: a pending key is given to the wallet before it is created.
AdoptPending(w) ==
    /\ Examining(w, "PENDING")
    /\ Go(w, "adopt", "ACTIVE", NoKey)
\* A pending document has no provider reference: the key is created again.
ExaminePending(w) ==
    /\ Examining(w, "PENDING")
    /\ Go(w, "provide", "ACTIVE", NoKey)

ExamineRotation(w) ==
    LET n == W(w)
        m == key[n].successor
    IN /\ Examining(w, "ROTATING")
       /\ ~provider[n].destroyed
       /\ \/ n \notin matured /\ Go(w, "sync", "ROTATING", NoKey)
          \/ /\ n \in matured
             /\ \/ m = NoKey /\ Go(w, "store", "ACTIVE", NoKey)
                \/ /\ m # NoKey
                   /\ key[m].state # "ACTIVE" \/ wallet.status = "NONE"
                   /\ Go(w, "failing", "SUSPENDED", m)
                \/ /\ m # NoKey
                   /\ key[m].state = "ACTIVE"
                   /\ wallet.status # "NONE"
                   /\ Go(w, IF wallet.key # m THEN "bind" ELSE "suspend", "SUSPENDED", m)

ExamineActive(w) ==
    /\ Examining(w, "ACTIVE")
    /\ ~provider[W(w)].destroyed
    /\ \/ ~Enabled(W(w)) /\ Go(w, "store", "SUSPENDED", NoKey)
       \/ Enabled(W(w)) /\ wallet.status = "NONE" /\ Go(w, "suspend", "FAILED", NoKey)
       \/ Enabled(W(w)) /\ wallet.status # "NONE" /\ Go(w, "sync", "ACTIVE", NoKey)

\* The provider does not know the key any more.
ExamineMissing(w) ==
    /\ Examining(w, "ACTIVE")
    /\ Go(w, "store", "FAILED", NoKey)

ExamineOther(w) ==
    LET n == W(w)
    IN /\ worker[w].pc = "examine"
       /\ key[n].state \in {"SUSPENDED", "COMPROMISED", "REVOKED", "DESTROYED", "FAILED"}
       /\ key[n].provisioned
       /\ ~provider[n].destroyed
       /\ Go(w, "sync", key[n].state, NoKey)

\* There is no provider reference, or its metadata is that of a destroyed key.
ExamineUnusable(w) ==
    LET n == W(w)
    IN /\ worker[w].pc = "examine"
       /\ key[n].state \notin {"PENDING", "DESTROY_PENDING"}
       /\ provider[n].destroyed \/ ~key[n].provisioned
       /\ Go(w, "failing", key[n].state, NoKey)

DestroyKey(w) ==
    /\ worker[w].pc = "destroy"
    /\ DestroyAtProvider(W(w))
    /\ WorkAt(w, "store")
    /\ UNCHANGED <<key, wallet, lapsed, faults>>

ProvideAgain(w) ==
    /\ worker[w].pc = "provide"
    /\ CreateAtProvider(W(w))
    /\ WorkAt(w, "activate")
    /\ UNCHANGED <<key, wallet, lapsed, faults>>

\* Go on at step pc when the store takes the new document, and fail otherwise.
IfStored(w, target, stored) ==
    LET n == W(w)
    IN IF Unchanged(n, worker[w].seen) /\ MayBecome(n, target)
       THEN stored /\ UNCHANGED <<provider, wallet, lapsed, faults>>
       ELSE WorkAt(w, "failing") /\ Idle

ActivatePending(w) ==
    /\ worker[w].pc = "activate"
    /\ IfStored(w, "ACTIVE", Hydrate(W(w)) /\ WorkAt(w, "adopt"))

\* The key that has been activated is bound to the wallet, when there is one.
Adopt(w) ==
    /\ worker[w].pc = "adopt"
    /\ IF wallet.status = "NONE" \/ wallet.key = W(w)
       THEN Finish(w) /\ UNCHANGED <<key, provider, wallet, lapsed, faults>>
       ELSE /\ Work(w, [worker[w] EXCEPT !.pc = "bind", !.new = W(w),
                                         !.walletSeen = wallet.version])
            /\ Idle

BindKey(w) ==
    /\ worker[w].pc = "bind"
    /\ IF MayBind(worker[w].walletSeen)
       THEN /\ BindTo(worker[w].new)
            /\ IF worker[w].from = "PENDING"
               THEN Finish(w)
               ELSE WorkAt(w, "suspend")
            /\ UNCHANGED <<key, provider, lapsed, faults>>
       ELSE WorkAt(w, "failing") /\ Idle

SuspendKey(w) ==
    /\ worker[w].pc = "suspend"
    /\ SuspendAtProvider(W(w))
    /\ WorkAt(w, "store")
    /\ UNCHANGED <<key, wallet, lapsed, faults>>

StoreKey(w) ==
    /\ worker[w].pc = "store"
    /\ IfStored(w, worker[w].target, Put(W(w), worker[w].target) /\ Finish(w))

\* The document is stored again, without its lease.
Sync(w) ==
    /\ worker[w].pc = "sync"
    /\ IfStored(w, "SYNCED",
           /\ key' = [key EXCEPT ![W(w)].leased = FALSE, ![W(w)].version = @ + 1]
           /\ Finish(w))

\* The handler of reconcile: the key is given up when its attempts are used.
GiveUp(w) ==
    LET n == W(w)
    IN /\ worker[w].pc = "failing"
       /\ IF /\ key[n].attempts = RetryLimit
             /\ "FAILED" \in Moves(worker[w].from)
             /\ Unchanged(n, worker[w].seen)
          THEN Put(n, "FAILED")
          ELSE UNCHANGED key
       /\ Work(w, NoWork)
       /\ UNCHANGED <<provider, wallet, lapsed, faults>>

Fault ==
    /\ faults < MaxFaults
    /\ faults' = faults + 1
    /\ UNCHANGED <<key, provider, wallet, lapsed>>

\* The provider or the store raises or times out.
Error(w) ==
    /\ worker[w].pc \notin {"idle", "claim", "failing"}
    /\ IF worker[w].pc = "examine"
       THEN Work(w, [worker[w] EXCEPT !.pc = "failing", !.from = key[W(w)].state,
                                      !.seen = key[W(w)].version])
       ELSE WorkAt(w, "failing")
    /\ Fault

\* The process dies; the lease it holds stays.
Crash(w) ==
    /\ worker[w].pc # "idle"
    /\ Work(w, NoWork)
    /\ Fault

-----------------------------------------------------------------------------
(* Time *)

Mature(n) ==
    /\ key[n].state \in {"ROTATING", "DESTROY_PENDING"}
    /\ n \notin matured
    /\ matured' = matured \cup {n}
    /\ UNCHANGED <<key, provider, wallet, lapsed, reported, caller, worker, faults>>

Lapse(n) ==
    /\ key[n].leased
    /\ n \notin lapsed
    /\ lapsed' = lapsed \cup {n}
    /\ UNCHANGED <<key, provider, wallet, matured, reported, caller, worker, faults>>

-----------------------------------------------------------------------------

Begin(c) ==
    /\ \/ BeginOpen(c)
       \/ \E t \in OwnerTokens : BeginCreate(c, t)
       \/ \E n \in Keys, t \in OwnerTokens : BeginRotate(c, n, t)
       \/ \E op \in Recoveries, t \in RecoveryTokens : BeginRecovery(c, op, t)
       \/ \E op \in Recoveries, t \in RecoveryTokens : RepeatRecovery(c, op, t)
       \/ \E n \in Keys : Suspend(c, n) \/ Resume(c, n) \/ Revoke(c, n)
       \/ \E n \in Keys : ScheduleDestruction(c, n) \/ CancelDestruction(c, n)
       \/ \E n \in Keys : BeginCompromise(c, n)
       \/ \E op \in WalletOps : BeginStatus(c, op)
    /\ UNCHANGED <<worker, lapsed, faults>>

CallStep(c) ==
    /\ \/ Number(c) \/ Insert(c) \/ Provide(c) \/ Activate(c) \/ AddWallet(c)
       \/ Rotate(c) \/ ClaimRotation(c) \/ LinkSuccessor(c) \/ Linked(c) \/ Bind(c)
       \/ Silence(c) \/ Retire(c) \/ AccusePredecessor(c) \/ Act(c) \/ Store(c)
       \/ Block(c) \/ UpdateStatus(c) \/ Fail(c)
    /\ UNCHANGED <<worker, lapsed, faults>>

WorkStep(w) ==
    /\ \/ ClaimReconciliation(w) \/ ExamineDestruction(w) \/ ExaminePending(w)
       \/ ExamineRotation(w) \/ ExamineActive(w) \/ ExamineMissing(w) \/ ExamineOther(w)
       \/ ExamineUnusable(w) \/ DestroyKey(w) \/ ProvideAgain(w) \/ ActivatePending(w)
       \/ Adopt(w) \/ BindKey(w) \/ SuspendKey(w) \/ StoreKey(w) \/ Sync(w) \/ GiveUp(w)
    /\ UNCHANGED <<caller, matured, reported>>

\* An administrator, or the owner, may name any key.
ReconcileAuthorized(w, n) == Pick(w, n) /\ UNCHANGED <<caller, matured, reported>>
ReconcileBatch(w, n) == Candidate(n) /\ ReconcileAuthorized(w, n)

Disturb(w) ==
    /\ Error(w) \/ Crash(w)
    /\ UNCHANGED <<caller, matured, reported>>

Next ==
    \/ \E c \in Callers : Begin(c) \/ CallStep(c)
    \/ \E w \in Workers : WorkStep(w) \/ Disturb(w)
    \/ \E w \in Workers, n \in Keys : ReconcileAuthorized(w, n)
    \/ \E n \in Keys : Mature(n) \/ Lapse(n)

Spec == Init /\ [][Next]_vars

\* A thread that serves a call runs to its end, time passes, and the batches of a
\* worker come round to every candidate: a reconciled document goes to the end of the
\* order they are taken in.
FairSpec ==
    /\ Spec
    /\ \A c \in Callers : WF_vars(CallStep(c))
    /\ \A w \in Workers : WF_vars(WorkStep(w))
    /\ \A w \in Workers, n \in Keys : SF_vars(ReconcileBatch(w, n))
    /\ \A n \in Keys : WF_vars(Mature(n)) /\ WF_vars(Lapse(n))

-----------------------------------------------------------------------------
(* Properties *)

\* The type invariant: documents, provider keys and processes have their types.
TypeOK ==
    /\ key \in [Keys -> KeyDoc]
    /\ provider \in [Keys -> ProviderKey]
    /\ wallet \in WalletDoc
    /\ matured \subseteq Keys
    /\ lapsed \subseteq Keys
    /\ reported \subseteq
           [old : Keys \cup {NoKey}, new : Keys \cup {NoKey}, compromise : BOOLEAN]
    /\ caller \in [Callers -> CallerState]
    /\ worker \in [Workers -> WorkerState]
    /\ faults \in 0 .. MaxFaults

\* Every change of a stored state is one of VALID_KEY_TRANSITIONS, although each
\* call checks it against a state it has read several steps before.
LegalTransitions ==
    [][\A n \in Keys :
          key'[n].state # key[n].state =>
             \/ key[n].state = "ABSENT" /\ key'[n].state = "PENDING"
             \/ key'[n].state \in Moves(key[n].state)]_vars

\* Destruction is final on both sides, whatever cancellation or retry ran beside
\* the worker: the document of a key that the provider has destroyed never leads
\* back to use, and a document says DESTROYED only of a key that the provider has
\* destroyed.  Not said: that a cancellation which is answered keeps the key.  One
\* that is stored while the worker destroys leaves REVOKED over a destroyed key.
DestroyedForGood ==
    \A n \in Keys :
       /\ provider[n].destroyed =>
             key[n].state \in {"REVOKED", "DESTROY_PENDING", "DESTROYED", "FAILED"}
       /\ key[n].state = "DESTROYED" => provider[n].destroyed

\* A wallet is bound to a key whose provider reference is known and which exists
\* at the provider: _bind_presentation_key and rotate never bind a pending key.
BoundKeyProvisioned ==
    wallet.status # "NONE" =>
       /\ wallet.key \in Keys
       /\ key[wallet.key].provisioned
       /\ provider[wallet.key].created

\* A rotated key is linked to a key made after it, so that the chain from a key
\* to its replacement ends: an idempotency key names at most one rotation.
SuccessorIsNewer ==
    \A n \in Keys : key[n].successor # NoKey => n < key[n].successor

\* A recovery from a compromised account that is answered with success has left
\* the predecessor in a state it never signs from again, on the first execution
\* and on every repeated one.
ReportedCompromise ==
    \A r \in reported :
       r.compromise =>
          key[r.old].state \in {"COMPROMISED", "REVOKED", "DESTROY_PENDING", "DESTROYED", "FAILED"}

\* A provisioning, a rotation or a destruction that was interrupted ends: the
\* worker takes it over, and completes it or gives it up.
InterruptedOperationsEnd ==
    \A n \in Keys :
       key[n].state \in {"PENDING", "ROTATING", "DESTROY_PENDING"}
          ~> key[n].state \notin {"PENDING", "ROTATING", "DESTROY_PENDING"}

=============================================================================
