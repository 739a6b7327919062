------------------------- MODULE ManagedKeysProofs -------------------------
(***************************************************************************)
(* Machine-checked proofs about ManagedKeys, for every value of its        *)
(* constants.                                                              *)
(***************************************************************************)
EXTENDS ManagedKeys, TLAPS

-----------------------------------------------------------------------------
(* The inductive invariant *)

\* States that lead nowhere but to the end of the key.
Ending == {"REVOKED", "DESTROY_PENDING", "DESTROYED", "FAILED"}
Condemned == Ending \cup {"COMPROMISED"}
Unborn == {"ABSENT", "PENDING"}

\* What a stored document owes to its state and to the other documents.
DocOK(n) ==
    /\ key[n].state = "ABSENT" <=> key[n].version = 0
    /\ key[n].version = 1 => key[n].state = "PENDING"
    /\ key[n].state \notin Unborn \cup {"FAILED"} => key[n].provisioned
    /\ key[n].provisioned => provider[n].created /\ key[n].state \notin Unborn
    /\ key[n].successor # NoKey => n < key[n].successor
    /\ key[n].predecessor # NoKey => key[key[n].predecessor].state \notin Unborn
    /\ key[n].state # "ABSENT" => \A m \in Keys : m < n => key[m].state # "ABSENT"
    /\ provider[n].destroyed => key[n].state \in Ending
    /\ key[n].state = "DESTROYED" => provider[n].destroyed

\* A copy that was read in state "from" at version "seen" is not newer than the
\* document, and has its state if it has its version.
CopyOf(n, from, seen) ==
    /\ seen <= key[n].version
    /\ seen = key[n].version => key[n].state = from

Rotating(s) == s.op \in Rotations /\ s.pc # "idle"

\* What a call knows of the key it works on, and of the key it makes.
CallerOK(s) ==
    /\ Rotating(s) => s.key \in Keys /\ key[s.key].state \notin Unborn
    /\ s.pc \in {"claim", "link", "linked", "silence", "retire"} => Rotating(s)
    /\ s.pc \in {"rotate", "accuse"} => Rotating(s)
    /\ s.pc \in {"number", "insert", "provide", "activate"} =>
          Rotating(s) \/ (s.op \in {"open", "create"} /\ s.key = NoKey)
    /\ s.pc = "bind" => Rotating(s) \/ s.op = "create"
    /\ s.pc \in {"rotate", "claim", "number"} => ~s.ready
    /\ s.pc \in {"act", "store", "block"} => s.key \in Keys /\ key[s.key].state \notin Unborn
    /\ s.pc \in {"act", "store", "silence", "retire"} \/ (s.pc = "bind" /\ Rotating(s))
          => CopyOf(s.key, s.from, s.seen)
    /\ s.pc \in {"claim", "number"} /\ Rotating(s) =>
          \A m \in ByToken(s.token) : s.key < m
    /\ s.pc \in {"insert", "provide", "activate", "link", "linked"} =>
          s.new \in Keys /\ s.key < s.new
    /\ s.pc = "insert" => \A m \in Keys : m < s.new => key[m].state # "ABSENT"
    /\ s.pc = "activate" => provider[s.new].created
    /\ s.pc \in {"add", "bind"} => s.new \in Keys
    /\ s.ready => s.new \in Keys /\ key[s.new].provisioned
    /\ s.pc = "block" => key[s.key].state \in Condemned
    /\ s.pc = "status" => wallet.status # "NONE"

\* What a reconciliation knows of the key it repairs, and of the one it binds.
WorkerOK(s) ==
    /\ s.pc # "idle" => s.key \in Keys /\ key[s.key].state # "ABSENT"
    /\ s.pc \notin {"idle", "claim", "examine"} => CopyOf(s.key, s.from, s.seen)
    /\ s.pc \in {"provide", "activate"} => s.from = "PENDING"
    /\ s.pc = "activate" => provider[s.key].created
    /\ s.pc = "adopt" => s.from = "PENDING" /\ key[s.key].provisioned
    /\ s.pc \in {"destroy", "suspend", "store"} =>
          s.from # "PENDING" /\ s.target \in Moves(s.from)
    /\ s.pc = "bind" =>
          /\ s.from = "PENDING" \/ s.target \in Moves(s.from)
          /\ s.new \in Keys
          /\ key[s.new].provisioned
    /\ s.pc = "destroy" => key[s.key].state \in Ending
    /\ s.pc \in {"bind", "suspend"} => s.from = "PENDING" \/ s.target # "DESTROYED"
    /\ s.pc = "store" /\ s.target = "DESTROYED" => provider[s.key].destroyed

\* What has been reported concerns a key that exists.
ReportsOK ==
    \A r \in reported :
       r.old \in Keys /\ (r.compromise => key[r.old].state \in Condemned)

IInv ==
    /\ TypeOK
    /\ \A n \in Keys : DocOK(n)
    /\ \A c \in Callers : CallerOK(caller[c])
    /\ \A w \in Workers : WorkerOK(worker[w])
    /\ BoundKeyProvisioned
    /\ ReportsOK

-----------------------------------------------------------------------------
(* The lifecycle *)

\* What the proofs use of the transition table.
LEMMA MovesFacts ==
    ASSUME NEW s \in KeyState
    PROVE  /\ Moves(s) \subseteq KeyState \ Unborn
           /\ s \in Ending => Moves(s) \subseteq Ending
           /\ s \in Condemned => Moves(s) \subseteq Condemned
           /\ s = "PENDING" => Moves(s) \subseteq {"ACTIVE", "FAILED"}
           /\ s \in {"ABSENT", "FAILED"} => Moves(s) = {}
    BY DEF Moves, KeyState, Unborn, Ending, Condemned

LEMMA MovesThere ==
    /\ "ACTIVE" \in Moves("PENDING")
    /\ {"ROTATING", "SUSPENDED", "FAILED"} \subseteq Moves("ACTIVE")
    /\ {"ACTIVE", "SUSPENDED"} \subseteq Moves("ROTATING")
    /\ "DESTROYED" \in Moves("DESTROY_PENDING")
    BY DEF Moves, KeyState

-----------------------------------------------------------------------------
(* Types *)

LEMMA NoCallType == NoCall \in CallerState /\ CallerOK(NoCall)
    BY ConstantsAssumption
    DEF NoCall, CallerState, CallerOK, KeyState, Rotating, NoKey

LEMMA NoWorkType == NoWork \in WorkerState /\ WorkerOK(NoWork)
    BY ConstantsAssumption DEF NoWork, WorkerState, WorkerOK, KeyState, NoKey

LEMMA TypeInit == Init => TypeOK
    BY NoCallType, NoWorkType, ConstantsAssumption
    DEF Init, TypeOK, KeyDoc, NoDoc, KeyState, ProviderKey, WalletDoc, Keys, NoKey

\* A call that goes on in state s, and changes nothing else.
LEMMA CallType ==
    ASSUME TypeOK, NEW c \in Callers, NEW s \in CallerState, Call(c, s)
    PROVE  caller' \in [Callers -> CallerState] /\ caller'[c] = s
    BY DEF Call, TypeOK

LEMMA WorkType ==
    ASSUME TypeOK, NEW w \in Workers, NEW s \in WorkerState, Work(w, s)
    PROVE  worker' \in [Workers -> WorkerState] /\ worker'[w] = s
    BY DEF Work, TypeOK

LEMMA DocType ==
    ASSUME NEW d \in KeyDoc
    PROVE  /\ d.version + 1 \in Nat
           /\ d.version \in Nat /\ d.state \in KeyState /\ d.provisioned \in BOOLEAN
           /\ d.successor \in Keys \cup {NoKey} /\ d.predecessor \in Keys \cup {NoKey}
           /\ d.token \in Tokens \cup {NoToken} /\ d.attempts \in 0 .. RetryLimit
           /\ d.leased \in BOOLEAN
<1>1. d.version \in Nat
    BY DEF KeyDoc
<1>. QED  BY <1>1 DEF KeyDoc

LEMMA PutType ==
    ASSUME TypeOK, NEW n, NEW s \in KeyState, Put(n, s)
    PROVE  key' \in [Keys -> KeyDoc]
<1>1. key \in [Keys -> KeyDoc]
    BY DEF TypeOK
<1>2. \A m \in Keys :
         [[key[m] EXCEPT !.state = s] EXCEPT !.version = key[m].version + 1] \in KeyDoc
    BY <1>1, DocType DEF KeyDoc
<1>. QED  BY <1>1, <1>2 DEF Put

LEMMA HydrateType ==
    ASSUME TypeOK, NEW n, Hydrate(n)
    PROVE  key' \in [Keys -> KeyDoc]
<1>1. key \in [Keys -> KeyDoc]
    BY DEF TypeOK
<1>2. \A m \in Keys :
         [[[key[m] EXCEPT !.state = "ACTIVE"] EXCEPT !.provisioned = TRUE]
             EXCEPT !.version = key[m].version + 1] \in KeyDoc
    BY <1>1, DocType DEF KeyDoc, KeyState
<1>. QED  BY <1>1, <1>2 DEF Hydrate

LEMMA ProviderType ==
    ASSUME TypeOK, NEW n,
           \/ SuspendAtProvider(n) \/ CreateAtProvider(n) \/ DestroyAtProvider(n)
    PROVE  provider' \in [Keys -> ProviderKey]
<1>1. provider \in [Keys -> ProviderKey]
    BY DEF TypeOK
<1>2. CASE SuspendAtProvider(n)
  <2>1. \A m \in Keys : [provider[m] EXCEPT !.suspended = TRUE] \in ProviderKey
      BY <1>1 DEF ProviderKey
  <2>. QED  BY <1>1, <1>2, <2>1 DEF SuspendAtProvider
<1>3. CASE CreateAtProvider(n)
  <2>1. \A m \in Keys : [provider[m] EXCEPT !.created = TRUE] \in ProviderKey
      BY <1>1 DEF ProviderKey
  <2>. QED  BY <1>1, <1>3, <2>1 DEF CreateAtProvider
<1>4. CASE DestroyAtProvider(n)
  <2>1. \A m \in Keys :
           [[[provider[m] EXCEPT !.destroyed = TRUE] EXCEPT !.suspended = TRUE]
              EXCEPT !.deletion = FALSE] \in ProviderKey
      BY <1>1 DEF ProviderKey
  <2>. QED  BY <1>1, <1>4, <2>1 DEF DestroyAtProvider
<1>. QED  BY <1>2, <1>3, <1>4

LEMMA BindType ==
    ASSUME TypeOK, NEW n \in Keys \cup {NoKey}, BindTo(n)
    PROVE  wallet' \in WalletDoc
<1>1. wallet \in WalletDoc
    BY DEF TypeOK
<1>2. wallet.version + 1 \in Nat
    BY <1>1 DEF WalletDoc
<1>. QED  BY <1>1, <1>2 DEF BindTo, WalletDoc

\* What the type of a call, and of a reconciliation, says of its fields.
LEMMA CallerFields ==
    ASSUME NEW s \in CallerState
    PROVE  /\ s.op \in Operations \cup {"none"} /\ s.token \in Tokens \cup {NoToken}
           /\ s.key \in Keys \cup {NoKey} /\ s.new \in Keys \cup {NoKey}
           /\ s.from \in KeyState /\ s.seen \in Nat /\ s.walletSeen \in Nat
           /\ s.ready \in BOOLEAN
    BY DEF CallerState

LEMMA WorkerFields ==
    ASSUME NEW s \in WorkerState
    PROVE  /\ s.key \in Keys \cup {NoKey} /\ s.new \in Keys \cup {NoKey}
           /\ s.from \in KeyState /\ s.target \in KeyState
           /\ s.seen \in Nat /\ s.walletSeen \in Nat
    BY DEF WorkerState

LEMMA NewDocFields ==
    ASSUME NEW t \in Tokens \cup {NoToken}, NEW k \in Keys \cup {NoKey}
    PROVE  /\ NewDoc(t, k) \in KeyDoc
           /\ NewDoc(t, k).state = "PENDING" /\ NewDoc(t, k).version = 1
           /\ NewDoc(t, k).token = t /\ NewDoc(t, k).predecessor = k
           /\ ~NewDoc(t, k).provisioned /\ NewDoc(t, k).successor = NoKey
<1>1. NoDoc \in KeyDoc
  <2>1. 0 \in 0 .. RetryLimit
      BY ConstantsAssumption
  <2>. QED  BY <2>1 DEF NoDoc, KeyDoc, KeyState
<1>2. [NoDoc EXCEPT !.state = "PENDING", !.version = 1] \in KeyDoc
    BY <1>1 DEF KeyDoc, KeyState
<1>3. NewDoc(t, k) \in KeyDoc
    BY <1>1, <1>2 DEF NewDoc, KeyDoc, KeyState
<1>. QED  BY <1>1, <1>3 DEF NewDoc, NoDoc

LEMMA InsertType ==
    ASSUME TypeOK, NEW c \in Callers, Insert(c)
    PROVE  key' \in [Keys -> KeyDoc]
<1>1. caller[c] \in CallerState /\ key \in [Keys -> KeyDoc]
    BY DEF TypeOK
<1>2. NewDoc(caller[c].token, K(c)) \in KeyDoc
    BY <1>1, CallerFields, NewDocFields DEF K
<1>. QED  BY <1>1, <1>2 DEF Insert

LEMMA LinkType ==
    ASSUME TypeOK, NEW c \in Callers, LinkSuccessor(c)
    PROVE  key' \in [Keys -> KeyDoc]
<1>1. caller[c] \in CallerState /\ key \in [Keys -> KeyDoc]
    BY DEF TypeOK
<1>2. New(c) \in Keys \cup {NoKey}
    BY <1>1, CallerFields DEF New
<1>3. \A m \in Keys :
         [[key[m] EXCEPT !.successor = New(c)] EXCEPT !.version = key[m].version + 1] \in KeyDoc
    BY <1>1, <1>2, DocType DEF KeyDoc
<1>. QED  BY <1>1, <1>3 DEF LinkSuccessor

LEMMA ClaimType ==
    ASSUME TypeOK, NEW w \in Workers, ClaimReconciliation(w)
    PROVE  key' \in [Keys -> KeyDoc]
<1>1. key \in [Keys -> KeyDoc]
    BY DEF TypeOK
<1> DEFINE attempts(m) ==
        IF key[m].attempts < RetryLimit THEN key[m].attempts + 1 ELSE key[m].attempts
<1>2. \A m \in Keys : attempts(m) \in 0 .. RetryLimit
    BY <1>1, DocType, ConstantsAssumption
<1>. HIDE DEF attempts
<1>3. \A m \in Keys :
         [[[key[m] EXCEPT !.leased = TRUE] EXCEPT !.version = key[m].version + 1]
              EXCEPT !.attempts = attempts(m)] \in KeyDoc
    BY <1>1, <1>2, DocType DEF KeyDoc
<1>4. CASE key' = [key EXCEPT ![W(w)].leased = TRUE, ![W(w)].version = @ + 1,
                              ![W(w)].attempts = IF @ < RetryLimit THEN @ + 1 ELSE @]
    BY <1>1, <1>3, <1>4 DEF attempts
<1>5. CASE key' = key
    BY <1>1, <1>5
<1>. QED  BY <1>4, <1>5 DEF ClaimReconciliation, Idle

LEMMA SyncType ==
    ASSUME TypeOK, NEW w \in Workers, Sync(w)
    PROVE  key' \in [Keys -> KeyDoc]
<1>1. key \in [Keys -> KeyDoc]
    BY DEF TypeOK
<1>2. \A m \in Keys :
         [[key[m] EXCEPT !.leased = FALSE] EXCEPT !.version = key[m].version + 1] \in KeyDoc
    BY <1>1, DocType DEF KeyDoc
<1>3. CASE key' = [key EXCEPT ![W(w)].leased = FALSE, ![W(w)].version = @ + 1]
    BY <1>1, <1>2, <1>3
<1>4. CASE key' = key
    BY <1>1, <1>4
<1>. QED  BY <1>3, <1>4 DEF Sync, IfStored, Idle

LEMMA TargetType ==
    ASSUME NEW op
    PROVE  Target(op) \in KeyState
    BY DEF Target, KeyState

\* Documents, provider keys and the wallet, after a step of a call.
LEMMA TypeStored ==
    ASSUME TypeOK, NEW c \in Callers, CallStep(c)
    PROVE  /\ key' \in [Keys -> KeyDoc]
           /\ provider' \in [Keys -> ProviderKey]
           /\ wallet' \in WalletDoc
<1>1. /\ caller[c] \in CallerState /\ key \in [Keys -> KeyDoc]
      /\ provider \in [Keys -> ProviderKey] /\ wallet \in WalletDoc
    BY DEF TypeOK
<1>2. New(c) \in Keys \cup {NoKey}
    BY <1>1, CallerFields DEF New
<1>3. CASE \/ Number(c) \/ Rotate(c) \/ Linked(c) \/ AccusePredecessor(c) \/ Fail(c)
    BY <1>1, <1>3 DEF Number, Rotate, Linked, AccusePredecessor, Accuse, Fail
<1>4. CASE Insert(c)
    BY <1>1, <1>4, InsertType DEF Insert
<1>5. CASE Provide(c)
    BY <1>1, <1>5, ProviderType DEF Provide
<1>6. CASE Activate(c)
    BY <1>1, <1>6, HydrateType DEF Activate
<1>7. CASE AddWallet(c)
  <2>1. wallet' = [status |-> "ACTIVE", key |-> New(c), version |-> 1]
      BY <1>7 DEF AddWallet
  <2>2. wallet' \in WalletDoc
      BY <1>2, <2>1 DEF WalletDoc
  <2>. QED  BY <1>1, <1>7, <2>2 DEF AddWallet
<1>8. CASE ClaimRotation(c)
    BY <1>1, <1>8, PutType DEF ClaimRotation, KeyState
<1>9. CASE LinkSuccessor(c)
    BY <1>1, <1>9, LinkType DEF LinkSuccessor
<1>10. CASE Bind(c)
    BY <1>1, <1>2, <1>10, BindType DEF Bind
<1>11. CASE Silence(c)
    BY <1>1, <1>11, ProviderType DEF Silence
<1>12. CASE Retire(c)
    BY <1>1, <1>12, PutType DEF Retire, KeyState
<1>13. CASE Act(c)
  <2> DEFINE scheduled == caller[c].op = "schedule"
  <2>0. SUFFICES provider' \in [Keys -> ProviderKey]
      BY <1>1, <1>13 DEF Act
  <2>1. \A m \in Keys :
           /\ [provider[m] EXCEPT !.suspended = FALSE] \in ProviderKey
           /\ [[provider[m] EXCEPT !.revoked = TRUE] EXCEPT !.suspended = TRUE] \in ProviderKey
           /\ [provider[m] EXCEPT !.deletion = TRUE] \in ProviderKey
           /\ [provider[m] EXCEPT !.deletion = FALSE] \in ProviderKey
      BY <1>1 DEF ProviderKey
  <2>2. CASE SuspendAtProvider(K(c))
      BY <2>2, ProviderType
  <2>3. CASE provider' = [provider EXCEPT ![K(c)].suspended = FALSE]
      BY <1>1, <2>1, <2>3
  <2>4. CASE provider' = [provider EXCEPT ![K(c)].revoked = TRUE, ![K(c)].suspended = TRUE]
      BY <1>1, <2>1, <2>4
  <2>5. CASE provider' = [provider EXCEPT ![K(c)].deletion = (caller[c].op = "schedule")]
    <3>1. CASE scheduled
      <4>1. provider' = [provider EXCEPT ![K(c)].deletion = TRUE]
          BY <2>5, <3>1
      <4>. QED  BY <1>1, <2>1, <4>1
    <3>2. CASE ~scheduled
      <4>1. provider' = [provider EXCEPT ![K(c)].deletion = FALSE]
          BY <2>5, <3>2
      <4>. QED  BY <1>1, <2>1, <4>1
    <3>. QED  BY <3>1, <3>2
  <2>. QED  BY <1>13, <2>2, <2>3, <2>4, <2>5 DEF Act
<1>14. CASE Store(c)
    BY <1>1, <1>14, PutType, TargetType DEF Store
<1>15. CASE Block(c)
    BY <1>1, <1>15, ProviderType DEF Block
<1>16. CASE UpdateStatus(c)
  <2>1. wallet.version + 1 \in Nat
      BY <1>1 DEF WalletDoc
  <2>2. wallet' \in WalletDoc
      BY <1>1, <1>16, <2>1 DEF UpdateStatus, WalletDoc
  <2>. QED  BY <1>1, <1>16, <2>2 DEF UpdateStatus
<1>. QED
    BY <1>3, <1>4, <1>5, <1>6, <1>7, <1>8, <1>9, <1>10, <1>11, <1>12, <1>13, <1>14,
       <1>15, <1>16 DEF CallStep

\* The same after a step of a reconciliation.
LEMMA TypeRepaired ==
    ASSUME TypeOK, NEW w \in Workers, WorkStep(w)
    PROVE  /\ key' \in [Keys -> KeyDoc]
           /\ provider' \in [Keys -> ProviderKey]
           /\ wallet' \in WalletDoc
<1>1. /\ worker[w] \in WorkerState /\ key \in [Keys -> KeyDoc]
      /\ provider \in [Keys -> ProviderKey] /\ wallet \in WalletDoc
    BY DEF TypeOK
<1>2. worker[w].new \in Keys \cup {NoKey} /\ worker[w].target \in KeyState
    BY <1>1, WorkerFields
<1>3. CASE \/ ExamineDestruction(w) \/ ExaminePending(w) \/ ExamineRotation(w)
           \/ ExamineActive(w) \/ ExamineMissing(w) \/ ExamineOther(w) \/ ExamineUnusable(w)
    BY <1>1, <1>3 DEF ExamineDestruction, ExaminePending, ExamineRotation, ExamineActive,
                      ExamineMissing, ExamineOther, ExamineUnusable, Go, Idle
<1>4. CASE ClaimReconciliation(w)
    BY <1>1, <1>4, ClaimType DEF ClaimReconciliation, Idle
<1>5. CASE DestroyKey(w) \/ ProvideAgain(w) \/ SuspendKey(w)
    BY <1>1, <1>5, ProviderType DEF DestroyKey, ProvideAgain, SuspendKey
<1>6. CASE ActivatePending(w)
    BY <1>1, <1>6, HydrateType DEF ActivatePending, IfStored, Idle
<1>7. CASE Adopt(w)
    BY <1>1, <1>7 DEF Adopt, Idle
<1>8. CASE BindKey(w)
    BY <1>1, <1>2, <1>8, BindType DEF BindKey, Idle
<1>9. CASE StoreKey(w)
    BY <1>1, <1>2, <1>9, PutType DEF StoreKey, IfStored, Idle
<1>10. CASE Sync(w)
    BY <1>1, <1>10, SyncType DEF Sync, IfStored, Idle
<1>11. CASE GiveUp(w)
    BY <1>1, <1>11, PutType DEF GiveUp, KeyState
<1>. QED
    BY <1>3, <1>4, <1>5, <1>6, <1>7, <1>8, <1>9, <1>10, <1>11 DEF WorkStep

-----------------------------------------------------------------------------
(* What a step may do to the documents *)

\* Document n is new, and all earlier ones exist already.
Inserted(n) ==
    /\ key[n].state = "ABSENT"
    /\ key'[n].state = "PENDING"
    /\ key'[n].version = 1
    /\ ~key'[n].provisioned
    /\ key'[n].successor = NoKey
    /\ key'[n].predecessor # NoKey => key[key'[n].predecessor].state \notin Unborn
    /\ \A m \in Keys : m < n => key[m].state # "ABSENT"

\* Document n has its next version, and has moved along its lifecycle if at all.
Advanced(n) ==
    /\ key[n].state # "ABSENT"
    /\ key'[n].version = key[n].version + 1
    /\ key'[n].state = key[n].state \/ key'[n].state \in Moves(key[n].state)
    /\ key'[n].token = key[n].token
    /\ key'[n].predecessor = key[n].predecessor
    /\ key'[n].successor = key[n].successor \/ n < key'[n].successor
    /\ key[n].provisioned => key'[n].provisioned
    /\ key'[n].provisioned /\ ~key[n].provisioned =>
          key'[n].state = "ACTIVE" /\ provider[n].created
    /\ key[n].state = "PENDING" /\ key'[n].state = "ACTIVE" => key'[n].provisioned

\* A key stays at the provider, is destroyed when it is on its way out, and is
\* said to be destroyed only after that.
Grows ==
    /\ \A n \in Keys : key'[n] = key[n] \/ Inserted(n) \/ Advanced(n)
    /\ \A n \in Keys : provider[n].created => provider'[n].created
    /\ \A n \in Keys : provider'[n].destroyed => provider[n].destroyed \/ key[n].state \in Ending
    /\ \A n \in Keys : provider[n].destroyed => provider'[n].destroyed
    /\ \A n \in Keys : key'[n].state = "DESTROYED" =>
                           key[n].state = "DESTROYED" \/ provider[n].destroyed

LEMMA PutAdvances ==
    ASSUME TypeOK, NEW n \in Keys, NEW s \in KeyState, Put(n, s),
           key[n].state \notin Unborn \/ s = "FAILED",
           key[n].state # "ABSENT",
           s \in Moves(key[n].state)
    PROVE  /\ Advanced(n) /\ key'[n].state = s
           /\ \A m \in Keys \ {n} : key'[m] = key[m]
<1>1. key \in [Keys -> KeyDoc] /\ key[n] \in KeyDoc
    BY DEF TypeOK
<1>2. key'[n] = [[key[n] EXCEPT !.state = s] EXCEPT !.version = key[n].version + 1]
    BY <1>1 DEF Put
<1>3. /\ key'[n].state = s /\ key'[n].version = key[n].version + 1
      /\ key'[n].token = key[n].token /\ key'[n].predecessor = key[n].predecessor
      /\ key'[n].successor = key[n].successor /\ key'[n].provisioned = key[n].provisioned
    BY <1>1, <1>2 DEF KeyDoc
<1>4. \A m \in Keys \ {n} : key'[m] = key[m]
    BY <1>1 DEF Put
<1>. QED  BY <1>3, <1>4 DEF Advanced, Unborn

LEMMA HydrateAdvances ==
    ASSUME TypeOK, NEW n \in Keys, Hydrate(n), key[n].state = "PENDING", provider[n].created
    PROVE  /\ Advanced(n) /\ key'[n].provisioned /\ key'[n].state = "ACTIVE"
           /\ \A m \in Keys \ {n} : key'[m] = key[m]
<1>1. key \in [Keys -> KeyDoc] /\ key[n] \in KeyDoc
    BY DEF TypeOK
<1>2. key'[n] = [[[key[n] EXCEPT !.state = "ACTIVE"] EXCEPT !.provisioned = TRUE]
                    EXCEPT !.version = key[n].version + 1]
    BY <1>1 DEF Hydrate
<1>3. /\ key'[n].state = "ACTIVE" /\ key'[n].version = key[n].version + 1
      /\ key'[n].token = key[n].token /\ key'[n].predecessor = key[n].predecessor
      /\ key'[n].successor = key[n].successor /\ key'[n].provisioned
    BY <1>1, <1>2 DEF KeyDoc
<1>4. \A m \in Keys \ {n} : key'[m] = key[m]
    BY <1>1 DEF Hydrate
<1>. QED  BY <1>3, <1>4, MovesThere DEF Advanced

\* What a lease, a link or the end of a lease does not touch.
LEMMA TouchAdvances ==
    ASSUME TypeOK, NEW n \in Keys, key[n].state # "ABSENT",
           key'[n].version = key[n].version + 1,
           key'[n].state = key[n].state, key'[n].token = key[n].token,
           key'[n].predecessor = key[n].predecessor,
           key'[n].successor = key[n].successor \/ n < key'[n].successor,
           key'[n].provisioned = key[n].provisioned
    PROVE  Advanced(n)
    BY DEF Advanced

\* A step that stores nothing new, and one that only calls the provider.
LEMMA RestGrows ==
    ASSUME key' = key, provider' = provider
    PROVE  Grows
    BY DEF Grows

LEMMA ProviderGrows ==
    ASSUME TypeOK, NEW n \in Keys, key' = key,
           \/ SuspendAtProvider(n)
           \/ CreateAtProvider(n)
           \/ DestroyAtProvider(n) /\ key[n].state \in Ending
    PROVE  Grows
<1>1. provider \in [Keys -> ProviderKey]
    BY DEF TypeOK
<1>2. CASE SuspendAtProvider(n)
    BY <1>1, <1>2 DEF Grows, SuspendAtProvider, ProviderKey
<1>3. CASE CreateAtProvider(n)
    BY <1>1, <1>3 DEF Grows, CreateAtProvider, ProviderKey
<1>4. CASE DestroyAtProvider(n) /\ key[n].state \in Ending
    BY <1>1, <1>4 DEF Grows, DestroyAtProvider, ProviderKey
<1>. QED  BY <1>2, <1>3, <1>4

LEMMA KeyGrows ==
    ASSUME NEW n \in Keys, Inserted(n) \/ Advanced(n),
           \A m \in Keys \ {n} : key'[m] = key[m], provider' = provider,
           key'[n].state = "DESTROYED" => key[n].state = "DESTROYED" \/ provider[n].destroyed
    PROVE  Grows
    BY DEF Grows

LEMMA CallGrows ==
    ASSUME IInv, NEW c \in Callers, CallStep(c)
    PROVE  Grows
<1> DEFINE s == caller[c]
<1>1. /\ TypeOK /\ s \in CallerState /\ CallerOK(s)
      /\ key \in [Keys -> KeyDoc] /\ provider \in [Keys -> ProviderKey]
      /\ \A n \in Keys : DocOK(n)
    BY DEF IInv, TypeOK
<1>2. CASE \/ Number(c) \/ AddWallet(c) \/ Rotate(c) \/ Linked(c) \/ Bind(c)
           \/ AccusePredecessor(c) \/ UpdateStatus(c) \/ Fail(c)
    BY <1>2, RestGrows DEF Number, AddWallet, Rotate, Linked, Bind, AccusePredecessor, Accuse,
                           UpdateStatus, Fail
<1>3. CASE Insert(c)
  <2>1. New(c) \in Keys /\ \A m \in Keys : m < New(c) => key[m].state # "ABSENT"
      BY <1>1, <1>3 DEF Insert, CallerOK, New
  <2>2. key'[New(c)] = NewDoc(s.token, s.key) /\ \A m \in Keys \ {New(c)} : key'[m] = key[m]
      BY <1>1, <1>3, <2>1 DEF Insert, K
  <2>3. s.key # NoKey => key[s.key].state \notin Unborn
      BY <1>1, <1>3 DEF Insert, CallerOK
  <2>4. Inserted(New(c))
      BY <1>1, <1>3, <2>1, <2>2, <2>3, NewDocFields, CallerFields DEF Insert, Inserted
  <2>. QED  BY <1>3, <2>1, <2>2, <2>4, KeyGrows DEF Insert, Inserted
<1>4. CASE Provide(c)
  <2>1. New(c) \in Keys
      BY <1>1, <1>4 DEF Provide, CallerOK, New
  <2>. QED  BY <1>1, <1>4, <2>1, ProviderGrows DEF Provide
<1>5. CASE Activate(c)
  <2>1. New(c) \in Keys /\ provider[New(c)].created /\ key[New(c)].state = "PENDING"
      BY <1>1, <1>5 DEF Activate, CallerOK, New, Unchanged, DocOK
  <2>. QED  BY <1>1, <1>5, <2>1, HydrateAdvances, KeyGrows DEF Activate
<1>6. CASE ClaimRotation(c)
  <2>1. K(c) \in Keys
      BY <1>1, <1>6 DEF ClaimRotation, CallerOK, K
  <2>2. /\ Advanced(K(c)) /\ key'[K(c)].state = "ROTATING"
        /\ \A m \in Keys \ {K(c)} : key'[m] = key[m]
      BY <1>1, <1>6, <2>1, PutAdvances, MovesThere DEF ClaimRotation, KeyState, Unborn
  <2>. QED  BY <1>6, <2>1, <2>2, KeyGrows DEF ClaimRotation
<1>7. CASE LinkSuccessor(c)
  <2>1. K(c) \in Keys /\ K(c) < New(c)
      BY <1>1, <1>7 DEF LinkSuccessor, CallerOK, K, New
  <2>2. key'[K(c)] = [[key[K(c)] EXCEPT !.successor = New(c)]
                         EXCEPT !.version = key[K(c)].version + 1]
      BY <1>1, <1>7, <2>1 DEF LinkSuccessor
  <2>3. Advanced(K(c)) /\ key'[K(c)].state = key[K(c)].state
      BY <1>1, <1>7, <2>1, <2>2, TouchAdvances DEF LinkSuccessor, KeyDoc
  <2>4. \A m \in Keys \ {K(c)} : key'[m] = key[m]
      BY <1>1, <1>7 DEF LinkSuccessor
  <2>. QED  BY <1>7, <2>1, <2>3, <2>4, KeyGrows DEF LinkSuccessor
<1>8. CASE Silence(c) \/ Block(c)
  <2>1. K(c) \in Keys
      BY <1>1, <1>8 DEF Silence, Block, CallerOK, K
  <2>. QED  BY <1>1, <1>8, <2>1, ProviderGrows DEF Silence, Block
<1>9. CASE Retire(c)
  <2>1. K(c) \in Keys /\ key[K(c)].state = s.from /\ key[K(c)].state \notin Unborn
      BY <1>1, <1>9 DEF Retire, CallerOK, CopyOf, Unchanged, K
  <2>2. /\ Advanced(K(c)) /\ key'[K(c)].state = "SUSPENDED"
        /\ \A m \in Keys \ {K(c)} : key'[m] = key[m]
      BY <1>1, <1>9, <2>1, PutAdvances DEF Retire, KeyState, Unborn
  <2>. QED  BY <1>9, <2>1, <2>2, KeyGrows DEF Retire
<1>10. CASE Act(c)
    BY <1>1, <1>10 DEF Act, Grows, SuspendAtProvider, ProviderKey
<1>11. CASE Store(c)
  <2>1. K(c) \in Keys /\ key[K(c)].state = s.from /\ key[K(c)].state \notin Unborn
      BY <1>1, <1>11 DEF Store, CallerOK, CopyOf, Unchanged, K
  <2>2. /\ Advanced(K(c)) /\ key'[K(c)].state = Target(s.op)
        /\ \A m \in Keys \ {K(c)} : key'[m] = key[m]
      BY <1>1, <1>11, <2>1, PutAdvances, TargetType DEF Store, Unborn
  <2>3. Target(s.op) # "DESTROYED"
      BY DEF Target
  <2>. QED  BY <1>11, <2>1, <2>2, <2>3, KeyGrows DEF Store
<1>. QED
    BY <1>2, <1>3, <1>4, <1>5, <1>6, <1>7, <1>8, <1>9, <1>10, <1>11 DEF CallStep

LEMMA WorkGrows ==
    ASSUME IInv, NEW w \in Workers, WorkStep(w)
    PROVE  Grows
<1> DEFINE s == worker[w]
<1>1. /\ TypeOK /\ s \in WorkerState /\ WorkerOK(s)
      /\ key \in [Keys -> KeyDoc] /\ provider \in [Keys -> ProviderKey]
      /\ \A n \in Keys : DocOK(n)
    BY DEF IInv, TypeOK
<1>2. s.pc # "idle" => W(w) \in Keys /\ key[W(w)].state # "ABSENT"
    BY <1>1 DEF WorkerOK, W
<1>3. CASE \/ ExamineDestruction(w) \/ ExaminePending(w) \/ ExamineRotation(w)
           \/ ExamineActive(w) \/ ExamineMissing(w) \/ ExamineOther(w) \/ ExamineUnusable(w)
           \/ Adopt(w) \/ BindKey(w)
    BY <1>3, RestGrows
    DEF ExamineDestruction, ExaminePending, ExamineRotation, ExamineActive, ExamineMissing,
        ExamineOther, ExamineUnusable, Go, Adopt, BindKey, Idle
<1>4. CASE ClaimReconciliation(w)
  <2>1. CASE key' = key
      BY <1>4, <2>1, RestGrows DEF ClaimReconciliation, Idle
  <2>2. CASE key' # key
    <3>1. /\ s.pc = "claim" /\ provider' = provider
          /\ key' = [key EXCEPT ![W(w)].leased = TRUE, ![W(w)].version = @ + 1,
                                ![W(w)].attempts = IF @ < RetryLimit THEN @ + 1 ELSE @]
        BY <1>4, <2>2 DEF ClaimReconciliation, Idle
    <3>2. \A m \in Keys \ {W(w)} : key'[m] = key[m]
        BY <1>1, <3>1
    <3>3. key'[W(w)] =
             [[[key[W(w)] EXCEPT !.leased = TRUE] EXCEPT !.version = key[W(w)].version + 1]
                 EXCEPT !.attempts = IF key[W(w)].attempts < RetryLimit
                                     THEN key[W(w)].attempts + 1 ELSE key[W(w)].attempts]
        BY <1>1, <1>2, <3>1
    <3>4. Advanced(W(w)) /\ key'[W(w)].state = key[W(w)].state
        BY <1>1, <1>2, <3>1, <3>3, TouchAdvances DEF KeyDoc
    <3>. QED  BY <1>2, <3>1, <3>2, <3>4, KeyGrows
  <2>. QED  BY <2>1, <2>2
<1>5. CASE DestroyKey(w) \/ ProvideAgain(w) \/ SuspendKey(w)
    BY <1>1, <1>2, <1>5, ProviderGrows DEF DestroyKey, ProvideAgain, SuspendKey, WorkerOK, W
<1>6. CASE ActivatePending(w)
  <2>1. CASE key' = key
      BY <1>6, <2>1, RestGrows DEF ActivatePending, IfStored, Idle
  <2>2. CASE key' # key
    <3>1. /\ s.pc = "activate" /\ Unchanged(W(w), s.seen) /\ Hydrate(W(w))
          /\ provider' = provider
        BY <1>6, <2>2 DEF ActivatePending, IfStored, Idle
    <3>2. key[W(w)].state = "PENDING" /\ provider[W(w)].created
        BY <1>1, <3>1 DEF WorkerOK, CopyOf, Unchanged, W
    <3>. QED  BY <1>1, <1>2, <3>1, <3>2, HydrateAdvances, KeyGrows
  <2>. QED  BY <2>1, <2>2
<1>7. CASE StoreKey(w)
  <2>1. CASE key' = key
      BY <1>7, <2>1, RestGrows DEF StoreKey, IfStored, Idle
  <2>2. CASE key' # key
    <3>1. /\ s.pc = "store" /\ Unchanged(W(w), s.seen) /\ Put(W(w), s.target)
          /\ provider' = provider
        BY <1>7, <2>2 DEF StoreKey, IfStored, Idle
    <3>2. /\ key[W(w)].state = s.from /\ s.from # "PENDING"
          /\ s.target \in Moves(s.from) /\ s.target \in KeyState
        BY <1>1, <3>1, WorkerFields DEF WorkerOK, CopyOf, Unchanged, W
    <3>3. /\ Advanced(W(w)) /\ key'[W(w)].state = s.target
          /\ \A m \in Keys \ {W(w)} : key'[m] = key[m]
        BY <1>1, <1>2, <3>1, <3>2, PutAdvances DEF Unborn
    <3>4. s.target = "DESTROYED" => provider[W(w)].destroyed
        BY <1>1, <3>1 DEF WorkerOK, W
    <3>. QED  BY <1>2, <3>1, <3>3, <3>4, KeyGrows
  <2>. QED  BY <2>1, <2>2
<1>8. CASE Sync(w)
  <2>1. CASE key' = key
      BY <1>8, <2>1, RestGrows DEF Sync, IfStored, Idle
  <2>2. CASE key' # key
    <3>1. /\ s.pc = "sync" /\ provider' = provider
          /\ key' = [key EXCEPT ![W(w)].leased = FALSE, ![W(w)].version = @ + 1]
        BY <1>8, <2>2 DEF Sync, IfStored, Idle
    <3>2. \A m \in Keys \ {W(w)} : key'[m] = key[m]
        BY <1>1, <3>1
    <3>3. key'[W(w)] = [[key[W(w)] EXCEPT !.leased = FALSE]
                          EXCEPT !.version = key[W(w)].version + 1]
        BY <1>1, <1>2, <3>1
    <3>4. Advanced(W(w)) /\ key'[W(w)].state = key[W(w)].state
        BY <1>1, <1>2, <3>1, <3>3, TouchAdvances DEF KeyDoc
    <3>. QED  BY <1>2, <3>1, <3>2, <3>4, KeyGrows
  <2>. QED  BY <2>1, <2>2
<1>9. CASE GiveUp(w)
  <2>1. CASE key' = key
      BY <1>9, <2>1, RestGrows DEF GiveUp
  <2>2. CASE key' # key
    <3>1. /\ s.pc = "failing" /\ Unchanged(W(w), s.seen) /\ Put(W(w), "FAILED")
          /\ provider' = provider /\ "FAILED" \in Moves(s.from)
        BY <1>9, <2>2 DEF GiveUp
    <3>2. key[W(w)].state = s.from
        BY <1>1, <3>1 DEF WorkerOK, CopyOf, Unchanged, W
    <3>3. /\ Advanced(W(w)) /\ key'[W(w)].state = "FAILED"
          /\ \A m \in Keys \ {W(w)} : key'[m] = key[m]
        BY <1>1, <1>2, <3>1, <3>2, PutAdvances DEF KeyState
    <3>. QED  BY <1>2, <3>1, <3>3, KeyGrows
  <2>. QED  BY <2>1, <2>2
<1>. QED  BY <1>3, <1>4, <1>5, <1>6, <1>7, <1>8, <1>9 DEF WorkStep

LEMMA StepGrows ==
    ASSUME IInv, [Next]_vars
    PROVE  Grows
<1>1. CASE \E c \in Callers : CallStep(c)
    BY <1>1, CallGrows
<1>2. CASE \E c \in Callers : Begin(c)
    BY <1>2, RestGrows
    DEF Begin, BeginOpen, BeginCreate, BeginRotate, BeginRecovery, RepeatRecovery,
        BeginLifecycle, BeginDeletion, BeginCompromise, Accuse, BeginStatus,
        Suspend, Resume, Revoke, ScheduleDestruction, CancelDestruction, Lifecycle, Deletions
<1>3. CASE \E w \in Workers : WorkStep(w)
    BY <1>3, WorkGrows
<1>4. CASE \/ \E w \in Workers : Disturb(w)
           \/ \E w \in Workers, n \in Keys : ReconcileAuthorized(w, n)
           \/ \E n \in Keys : Mature(n) \/ Lapse(n)
           \/ UNCHANGED vars
    BY <1>4, RestGrows
    DEF Disturb, Error, Crash, Fault, ReconcileAuthorized, Pick, Idle, Mature, Lapse, vars
<1>. QED  BY <1>1, <1>2, <1>3, <1>4 DEF Next

-----------------------------------------------------------------------------
(* What the steps of others leave true *)

LEMMA KeysAreNumbers == Keys \subseteq Nat /\ NoKey \notin Keys
    BY ConstantsAssumption DEF Keys, NoKey

LEMMA DocumentsKept ==
    ASSUME IInv, key' \in [Keys -> KeyDoc], Grows, NEW n \in Keys
    PROVE  /\ key[n].state # "ABSENT" => key'[n].state # "ABSENT"
           /\ key[n].state \notin Unborn => key'[n].state \notin Unborn
           /\ key[n].provisioned => key'[n].provisioned
           /\ key[n].state \in Ending => key'[n].state \in Ending
           /\ key[n].state \in Condemned => key'[n].state \in Condemned
           /\ \A f \in KeyState, s \in Nat : CopyOf(n, f, s) => CopyOf(n, f, s)'
<1>1. /\ key[n] \in KeyDoc /\ key[n].state \in KeyState /\ key[n].version \in Nat /\ DocOK(n)
      /\ key'[n].version \in Nat
    BY DocType DEF IInv, TypeOK
<1>2. CASE key'[n] = key[n]
    BY <1>2 DEF CopyOf
<1>3. CASE Inserted(n)
    BY <1>1, <1>3 DEF Inserted, CopyOf, DocOK, Unborn, Ending, Condemned
<1>4. CASE Advanced(n)
    BY <1>1, <1>4, MovesFacts DEF Advanced, CopyOf, Unborn
<1>. QED  BY <1>2, <1>3, <1>4 DEF Grows

LEMMA DocsKept ==
    ASSUME IInv, key' \in [Keys -> KeyDoc], Grows, NEW n \in Keys
    PROVE  DocOK(n)'
<1>1. /\ key[n] \in KeyDoc /\ key[n].state \in KeyState /\ key[n].version \in Nat /\ DocOK(n)
      /\ key[n].predecessor \in Keys \cup {NoKey} /\ key[n].provisioned \in BOOLEAN
      /\ key'[n].version \in Nat /\ key'[n].provisioned \in BOOLEAN
      /\ key'[n].predecessor \in Keys \cup {NoKey}
    BY DocType DEF IInv, TypeOK
<1>2. \A m \in Keys : /\ key[m].state # "ABSENT" => key'[m].state # "ABSENT"
                      /\ key[m].state \notin Unborn => key'[m].state \notin Unborn
    BY DocumentsKept
<1>3. /\ provider[n].created => provider'[n].created
      /\ provider'[n].destroyed => provider[n].destroyed \/ key[n].state \in Ending
      /\ key[n].state \in Ending => key'[n].state \in Ending
      /\ key'[n].state = "DESTROYED" => provider'[n].destroyed
    BY <1>1, DocumentsKept DEF Grows, DocOK
<1>4. CASE key'[n] = key[n]
    BY <1>1, <1>2, <1>3, <1>4 DEF DocOK
<1>5. CASE Inserted(n)
  <2>1. key'[n].predecessor # NoKey => key'[key'[n].predecessor].state \notin Unborn
      BY <1>1, <1>2, <1>5 DEF Inserted
  <2>2. ~provider'[n].destroyed
      BY <1>1, <1>3, <1>5 DEF Inserted, DocOK, Ending
  <2>. QED  BY <1>1, <1>2, <1>5, <2>1, <2>2 DEF Inserted, DocOK, Unborn
<1>6. CASE Advanced(n)
  <2>1. /\ key'[n].state # "ABSENT" /\ key'[n].version # 0
        /\ key'[n].version = 1 => key'[n].state = "PENDING"
      BY <1>1, <1>2, <1>6 DEF Advanced, DocOK
  <2>2. key'[n].state \notin Unborn \cup {"FAILED"} => key'[n].provisioned
      BY <1>1, <1>6, MovesFacts DEF Advanced, DocOK, Unborn
  <2>3. key'[n].provisioned => provider'[n].created /\ key'[n].state \notin Unborn
      BY <1>1, <1>2, <1>3, <1>6 DEF Advanced, DocOK, Unborn
  <2>4. /\ key'[n].successor # NoKey => n < key'[n].successor
        /\ key'[n].predecessor # NoKey => key'[key'[n].predecessor].state \notin Unborn
        /\ \A m \in Keys : m < n => key'[m].state # "ABSENT"
        /\ provider'[n].destroyed => key'[n].state \in Ending
        /\ key'[n].state = "DESTROYED" => provider'[n].destroyed
      BY <1>1, <1>2, <1>3, <1>6 DEF Advanced, DocOK
  <2>. QED  BY <2>1, <2>2, <2>3, <2>4 DEF DocOK
<1>. QED  BY <1>4, <1>5, <1>6 DEF Grows

\* A wallet that exists stays.
LEMMA WalletStays ==
    ASSUME IInv, [Next]_vars, wallet.status # "NONE"
    PROVE  wallet'.status # "NONE"
<1>1. wallet \in WalletDoc
    BY DEF IInv, TypeOK
<1>2. ASSUME NEW c \in Callers, CallStep(c)
      PROVE  wallet'.status # "NONE"
  <2>1. CASE AddWallet(c)
      BY <2>1 DEF AddWallet
  <2>2. CASE Bind(c)
      BY <1>1, <2>2 DEF Bind, BindTo, WalletDoc
  <2>3. CASE UpdateStatus(c)
      BY <1>1, <2>3 DEF UpdateStatus, WalletDoc
  <2>4. CASE UNCHANGED wallet
      BY <2>4
  <2>5. AddWallet(c) \/ Bind(c) \/ UpdateStatus(c) \/ UNCHANGED wallet
      BY <1>2
      DEF CallStep, Number, Insert, Provide, Activate, Rotate, ClaimRotation, LinkSuccessor,
          Linked, Silence, Retire, AccusePredecessor, Accuse, Act, Store, Block, Fail
  <2>. QED  BY <2>1, <2>2, <2>3, <2>4, <2>5
<1>3. ASSUME NEW w \in Workers, WorkStep(w)
      PROVE  wallet'.status # "NONE"
  <2>1. CASE BindKey(w)
      BY <1>1, <2>1 DEF BindKey, BindTo, Idle, WalletDoc
  <2>2. BindKey(w) \/ UNCHANGED wallet
      BY <1>3
      DEF WorkStep, ClaimReconciliation, ExamineDestruction, ExaminePending, ExamineRotation,
          ExamineActive, ExamineMissing, ExamineOther, ExamineUnusable, Go, DestroyKey,
          ProvideAgain, ActivatePending, Adopt, SuspendKey, StoreKey, Sync, GiveUp, IfStored, Idle
  <2>. QED  BY <2>1, <2>2
<1>4. CASE \E c \in Callers : Begin(c)
    BY <1>4
    DEF Begin, BeginOpen, BeginCreate, BeginRotate, BeginRecovery, RepeatRecovery,
        BeginLifecycle, BeginDeletion, BeginCompromise, Accuse, BeginStatus,
        Suspend, Resume, Revoke, ScheduleDestruction, CancelDestruction, Lifecycle, Deletions
<1>5. CASE \/ \E w \in Workers : Disturb(w)
           \/ \E w \in Workers, n \in Keys : ReconcileAuthorized(w, n)
           \/ \E n \in Keys : Mature(n) \/ Lapse(n)
           \/ UNCHANGED vars
    BY <1>5 DEF Disturb, Error, Crash, Fault, ReconcileAuthorized, Pick, Idle, Mature, Lapse, vars
<1>. QED  BY <1>2, <1>3, <1>4, <1>5 DEF Next

\* What a call knows stays true while others move.
LEMMA CallerRests ==
    ASSUME IInv, key' \in [Keys -> KeyDoc], Grows, [Next]_vars,
           NEW s \in CallerState, CallerOK(s)
    PROVE  CallerOK(s)'
<1>1. s \in CallerState /\ CallerOK(s)
    OBVIOUS
<1>2. s.from \in KeyState /\ s.seen \in Nat
    BY <1>1, CallerFields
<1>3. Rotating(s) => s.key \in Keys /\ key'[s.key].state \notin Unborn
    BY <1>1, DocumentsKept DEF CallerOK
<1>4. s.pc \in {"act", "store", "block"} => s.key \in Keys /\ key'[s.key].state \notin Unborn
    BY <1>1, DocumentsKept DEF CallerOK
<1>5. s.pc \in {"act", "store", "silence", "retire"} \/ (s.pc = "bind" /\ Rotating(s))
         => CopyOf(s.key, s.from, s.seen)'
    BY <1>1, <1>2, DocumentsKept DEF CallerOK
<1>6. s.pc \in {"claim", "number"} /\ Rotating(s) => (\A m \in ByToken(s.token) : s.key < m)'
  <2>1. ASSUME s.pc \in {"claim", "number"} /\ Rotating(s)
        PROVE  (\A m \in ByToken(s.token) : s.key < m)'
    <3>1. /\ s.key \in Keys /\ key[s.key].state # "ABSENT"
          /\ \A m \in ByToken(s.token) : s.key < m
        BY <1>1, <2>1 DEF CallerOK, Unborn
    <3>2. ASSUME NEW m \in Keys, key'[m].token = s.token
          PROVE  s.key < m
      <4>1. DocOK(s.key) /\ s.key \in Nat /\ m \in Nat
          BY <3>1, KeysAreNumbers DEF IInv
      <4>2. CASE key'[m] = key[m] \/ Advanced(m)
          BY <3>1, <3>2, <4>2 DEF ByToken, Advanced
      <4>3. CASE Inserted(m)
          BY <3>1, <4>1, <4>3 DEF Inserted, DocOK
      <4>. QED  BY <4>2, <4>3 DEF Grows
    <3>. QED  BY <3>2 DEF ByToken
  <2>. QED  BY <2>1
<1>7. s.pc = "insert" => \A m \in Keys : m < s.new => key'[m].state # "ABSENT"
    BY <1>1, DocumentsKept DEF CallerOK
<1>8. /\ s.pc = "activate" => provider'[s.new].created
      /\ s.ready => s.new \in Keys /\ key'[s.new].provisioned
    BY <1>1, DocumentsKept DEF CallerOK, Grows
<1>9. s.pc = "block" => key'[s.key].state \in Condemned
    BY <1>1, DocumentsKept DEF CallerOK
<1>10. s.pc = "status" => wallet'.status # "NONE"
    BY <1>1, WalletStays DEF CallerOK
<1>. QED
    BY <1>1, <1>3, <1>4, <1>5, <1>6, <1>7, <1>8, <1>9, <1>10 DEF CallerOK, Rotating

LEMMA WorkerRests ==
    ASSUME IInv, key' \in [Keys -> KeyDoc], Grows, NEW w \in Workers, worker'[w] = worker[w]
    PROVE  WorkerOK(worker[w])'
<1> DEFINE s == worker[w]
<1>1. s \in WorkerState /\ WorkerOK(s)
    BY DEF IInv, TypeOK
<1>2. s.from \in KeyState /\ s.seen \in Nat
    BY <1>1, WorkerFields
<1>3. s.pc # "idle" => s.key \in Keys /\ key'[s.key].state # "ABSENT"
    BY <1>1, DocumentsKept DEF WorkerOK
<1>4. s.pc \notin {"idle", "claim", "examine"} => CopyOf(s.key, s.from, s.seen)'
    BY <1>1, <1>2, DocumentsKept DEF WorkerOK
<1>5. /\ s.pc = "activate" => provider'[s.key].created
      /\ s.pc = "adopt" => key'[s.key].provisioned
      /\ s.pc = "bind" => key'[s.new].provisioned
      /\ s.pc = "destroy" => key'[s.key].state \in Ending
      /\ s.pc = "store" /\ s.target = "DESTROYED" => provider'[s.key].destroyed
    BY <1>1, DocumentsKept DEF WorkerOK, Grows
<1>. QED  BY <1>1, <1>3, <1>4, <1>5 DEF WorkerOK

-----------------------------------------------------------------------------
(* What a call knows after its own steps *)

\* A call that has ended.
LEMMA CallEnds ==
    ASSUME TypeOK, NEW c \in Callers, Done(c)
    PROVE  caller' \in [Callers -> CallerState] /\ CallerOK(caller[c])'
<1>1. caller' \in [Callers -> CallerState] /\ caller'[c] = NoCall
    BY NoCallType, CallType DEF Done
<1>. QED  BY <1>1 DEF CallerOK, Rotating, NoCall

LEMMA BeginMoves ==
    ASSUME IInv, NEW c \in Callers, Begin(c)
    PROVE  caller' \in [Callers -> CallerState] /\ CallerOK(caller[c])'
<1>1. /\ TypeOK /\ key \in [Keys -> KeyDoc] /\ wallet \in WalletDoc
      /\ wallet.version \in Nat /\ NoKey \notin Keys
    BY KeysAreNumbers DEF IInv, TypeOK, WalletDoc
<1>2. /\ key' = key /\ provider' = provider /\ wallet' = wallet
    BY DEF Begin, BeginOpen, BeginCreate, BeginRotate, BeginRecovery, RepeatRecovery,
           BeginLifecycle, BeginDeletion, BeginCompromise, Accuse, BeginStatus,
        Suspend, Resume, Revoke, ScheduleDestruction, CancelDestruction, Lifecycle, Deletions
<1>3. ASSUME NEW x \in CallerState, Call(c, x)
      PROVE  caller' \in [Callers -> CallerState] /\ caller'[c] = x
    BY <1>1, <1>3, CallType
<1>4. CASE BeginOpen(c)
  <2> DEFINE x == [NoCall EXCEPT !.pc = "number", !.op = "open", !.token = WalletToken]
  <2>1. x \in CallerState
      BY NoCallType DEF CallerState, Operations, Tokens
  <2>2. caller' \in [Callers -> CallerState] /\ caller'[c] = x
      BY <1>3, <1>4, <2>1 DEF BeginOpen
  <2>. QED  BY <2>2 DEF CallerOK, Rotating, Rotations, Recoveries, NoCall
<1>5. ASSUME NEW t \in OwnerTokens, BeginCreate(c, t)
      PROVE  caller' \in [Callers -> CallerState] /\ CallerOK(caller[c])'
  <2> DEFINE x == [NoCall EXCEPT !.op = "create", !.token = t, !.walletSeen = wallet.version]
  <2>1. x \in CallerState
      BY <1>1, NoCallType DEF CallerState, Operations, Tokens
  <2>2. x.op = "create" /\ x.key = NoKey /\ x.ready = FALSE
      BY DEF NoCall
  <2>. HIDE DEF x
  <2>3. CASE Call(c, [x EXCEPT !.pc = "number"])
    <3>1. [x EXCEPT !.pc = "number"] \in CallerState
        BY <2>1 DEF CallerState
    <3>2. caller' \in [Callers -> CallerState] /\ caller'[c] = [x EXCEPT !.pc = "number"]
        BY <1>3, <2>3, <3>1
    <3>. QED  BY <2>1, <2>2, <3>2 DEF CallerOK, Rotating, Rotations, Recoveries, CallerState
  <2>4. ASSUME NEW m \in Keys,
               Call(c, [x EXCEPT !.pc = "bind", !.new = m, !.ready = key[m].provisioned])
        PROVE  caller' \in [Callers -> CallerState] /\ CallerOK(caller[c])'
    <3>1. key[m].provisioned \in BOOLEAN
        BY <1>1, DocType
    <3>2. [x EXCEPT !.pc = "bind", !.new = m, !.ready = key[m].provisioned] \in CallerState
        BY <2>1, <3>1 DEF CallerState
    <3>3. /\ caller' \in [Callers -> CallerState]
          /\ caller'[c] = [x EXCEPT !.pc = "bind", !.new = m, !.ready = key[m].provisioned]
        BY <1>3, <2>4, <3>2
    <3>. QED  BY <1>2, <2>1, <2>2, <3>3 DEF CallerOK, Rotating, Rotations, Recoveries, CallerState
  <2>. QED  BY <1>5, <2>3, <2>4 DEF BeginCreate, ByToken, x
<1>6. ASSUME NEW n \in Keys, NEW t \in Tokens, NEW op \in Rotations, key[n].state = "ACTIVE",
             Call(c, [NoCall EXCEPT !.pc = "rotate", !.op = op, !.token = t, !.key = n])
      PROVE  caller' \in [Callers -> CallerState] /\ CallerOK(caller[c])'
  <2> DEFINE x == [NoCall EXCEPT !.pc = "rotate", !.op = op, !.token = t, !.key = n]
  <2>1. x \in CallerState
      BY <1>6, NoCallType DEF CallerState, Operations
  <2>2. caller' \in [Callers -> CallerState] /\ caller'[c] = x
      BY <1>3, <1>6, <2>1
  <2>. QED  BY <1>2, <1>6, <2>2 DEF CallerOK, Rotating, NoCall, Unborn
<1>7. ASSUME NEW op \in Recoveries, NEW t \in RecoveryTokens, RepeatRecovery(c, op, t)
      PROVE  caller' \in [Callers -> CallerState] /\ CallerOK(caller[c])'
  <2>1. PICK m \in ByToken(t) :
          LET n == key[m].predecessor
          IN /\ n # NoKey
             /\ IF op = "recoverCompromised" /\ key[n].state \in Accusable
                THEN Call(c, [NoCall EXCEPT !.pc = "accuse", !.op = op, !.token = t,
                                            !.key = n, !.new = m])
                ELSE UNCHANGED caller
      BY <1>7 DEF RepeatRecovery
  <2> DEFINE n == key[m].predecessor
             x == [NoCall EXCEPT !.pc = "accuse", !.op = op, !.token = t, !.key = n, !.new = m]
  <2>2. m \in Keys /\ n \in Keys /\ key[n].state \notin Unborn
      BY <1>1, <2>1, DocType DEF ByToken, IInv, DocOK
  <2>3. CASE UNCHANGED caller
    <3>1. CallerOK(caller[c])
        BY DEF IInv
    <3>. QED  BY <1>1, <1>2, <2>3, <3>1 DEF TypeOK, CallerOK, CopyOf, ByToken
  <2>4. CASE Call(c, x)
    <3>1. x \in CallerState
        BY <2>2, NoCallType DEF CallerState, Operations, Rotations, Tokens
    <3>2. caller' \in [Callers -> CallerState] /\ caller'[c] = x
        BY <1>3, <2>4, <3>1
    <3>. QED  BY <1>2, <2>2, <3>2 DEF CallerOK, Rotating, Rotations, NoCall
  <2>. QED  BY <2>1, <2>3, <2>4
<1>8. ASSUME NEW op \in Operations \ Rotations, NEW n \in Keys, NEW pc \in {"act", "store"},
             key[n].state \notin Unborn, Call(c, Reading(op, n, pc))
      PROVE  caller' \in [Callers -> CallerState] /\ CallerOK(caller[c])'
  <2>1. key[n].state \in KeyState /\ key[n].version \in Nat
      BY <1>1, DocType
  <2>2. Reading(op, n, pc) \in CallerState
      BY <2>1, NoCallType DEF Reading, CallerState
  <2>3. caller' \in [Callers -> CallerState] /\ caller'[c] = Reading(op, n, pc)
      BY <1>3, <1>8, <2>2
  <2>. QED  BY <1>2, <1>8, <2>1, <2>3 DEF CallerOK, Rotating, NoCall, Reading, CopyOf
<1>9. ASSUME NEW op \in Lifecycle \cup Deletions, NEW n \in Keys,
             BeginLifecycle(c, op, n) \/ BeginDeletion(c, op, n)
      PROVE  caller' \in [Callers -> CallerState] /\ CallerOK(caller[c])'
  <2>1. op \in Operations \ Rotations
      BY DEF Lifecycle, Deletions, Operations, Rotations, Recoveries
  <2>2. key[n].state \notin Unborn
      BY <1>9 DEF BeginLifecycle, BeginDeletion, IInv, DocOK
  <2>. QED  BY <1>8, <1>9, <2>1, <2>2 DEF BeginLifecycle, BeginDeletion
<1>10. ASSUME NEW n \in Keys, BeginCompromise(c, n)
       PROVE  caller' \in [Callers -> CallerState] /\ CallerOK(caller[c])'
  <2>1. key[n].state \notin Unborn
      BY <1>1, <1>10, DocType, MovesFacts DEF BeginCompromise, Accuse, Unborn
  <2>2. "compromise" \in Operations \ Rotations
      BY DEF Operations, Rotations, Recoveries
  <2>3. Call(c, Reading("compromise", n, "store"))
      BY <1>10 DEF BeginCompromise, Accuse, Reading, NoCall
  <2>. QED  BY <1>8, <2>1, <2>2, <2>3
<1>11. ASSUME NEW op \in WalletOps, BeginStatus(c, op)
       PROVE  caller' \in [Callers -> CallerState] /\ CallerOK(caller[c])'
  <2> DEFINE x == [NoCall EXCEPT !.pc = "status", !.op = op, !.walletSeen = wallet.version]
  <2>1. x \in CallerState
      BY <1>1, NoCallType DEF CallerState, Operations
  <2>2. caller' \in [Callers -> CallerState] /\ caller'[c] = x
      BY <1>3, <1>11, <2>1 DEF BeginStatus
  <2>3. op \notin Rotations /\ wallet.status # "NONE"
      BY <1>11 DEF WalletOps, Rotations, Recoveries, BeginStatus
  <2>. QED  BY <1>2, <2>2, <2>3 DEF CallerOK, Rotating, NoCall
<1>12. ASSUME NEW n \in Keys, NEW t \in OwnerTokens, BeginRotate(c, n, t)
       PROVE  caller' \in [Callers -> CallerState] /\ CallerOK(caller[c])'
    BY <1>6, <1>12 DEF BeginRotate, Rotations, Tokens
<1>13. ASSUME NEW op \in Recoveries, NEW t \in RecoveryTokens, BeginRecovery(c, op, t)
       PROVE  caller' \in [Callers -> CallerState] /\ CallerOK(caller[c])'
    BY <1>6, <1>13 DEF BeginRecovery, Rotations, Tokens, ActiveKeys
<1>. QED
    BY <1>4, <1>5, <1>7, <1>9, <1>10, <1>11, <1>12, <1>13 DEF Begin,
        Suspend, Resume, Revoke, ScheduleDestruction, CancelDestruction, Lifecycle, Deletions

\* A call that goes on at step pc, with what it knows.
LEMMA CallAt ==
    ASSUME TypeOK, NEW c \in Callers,
           NEW pc \in {"number", "provide", "activate", "linked", "silence", "retire",
                       "accuse", "store", "block"},
           At(c, pc)
    PROVE  /\ caller' \in [Callers -> CallerState]
           /\ caller'[c].pc = pc /\ caller'[c].op = caller[c].op
           /\ caller'[c].token = caller[c].token /\ caller'[c].key = caller[c].key
           /\ caller'[c].from = caller[c].from /\ caller'[c].seen = caller[c].seen
           /\ caller'[c].new = caller[c].new /\ caller'[c].ready = caller[c].ready
<1>1. caller[c] \in CallerState
    BY DEF TypeOK
<1>2. [caller[c] EXCEPT !.pc = pc] \in CallerState
    BY <1>1 DEF CallerState
<1>3. /\ caller' \in [Callers -> CallerState]
      /\ caller'[c] = [caller[c] EXCEPT !.pc = pc]
    BY <1>2, CallType DEF At
<1>. QED  BY <1>1, <1>3 DEF CallerState

LEMMA NumberMoves ==
    ASSUME IInv, NEW c \in Callers, Number(c)
    PROVE  caller' \in [Callers -> CallerState] /\ CallerOK(caller[c])'
<1> DEFINE s == caller[c]
           x == [s EXCEPT !.seen = IF s.key = NoKey THEN 0 ELSE key[s.key].version]
<1>1. /\ TypeOK /\ key \in [Keys -> KeyDoc] /\ s \in CallerState /\ CallerOK(s)
      /\ s.pc = "number" /\ key' = key /\ provider' = provider
      /\ Keys \subseteq Nat /\ NoKey \notin Keys /\ NoKey = 0 /\ 0 \in Nat
    BY KeysAreNumbers DEF IInv, TypeOK, Number, NoKey
<1>2. s.key \in Keys \cup {NoKey}
    BY <1>1, CallerFields
<1>3. x.seen \in Nat
  <2>1. s.key # NoKey => key[s.key].version \in Nat
      BY <1>1, <1>2, DocType
  <2>2. (IF s.key = NoKey THEN 0 ELSE key[s.key].version) \in Nat
      BY <1>1, <2>1
  <2>. QED  BY <1>1, <2>2 DEF CallerState
<1>4. /\ x \in CallerState /\ x.pc = s.pc /\ x.op = s.op /\ x.token = s.token
      /\ x.key = s.key /\ x.new = s.new /\ x.ready = s.ready
    BY <1>1, <1>3 DEF CallerState
<1>. HIDE DEF x
<1>5. ASSUME NEW m \in ByToken(s.token), NEW pc,
             Call(c, [x EXCEPT !.new = m, !.ready = key[m].provisioned, !.pc = pc]),
             \/ pc = "add" /\ s.op = "open"
             \/ pc = "bind" /\ s.op = "create"
             \/ pc = "link" /\ s.op \notin {"open", "create"}
      PROVE  caller' \in [Callers -> CallerState] /\ CallerOK(caller[c])'
  <2> DEFINE y == [x EXCEPT !.new = m, !.ready = key[m].provisioned, !.pc = pc]
  <2>1. m \in Keys /\ key[m].provisioned \in BOOLEAN
      BY <1>1, DocType DEF ByToken
  <2>2. y \in CallerState
      BY <1>4, <1>5, <2>1 DEF CallerState
  <2>3. caller' \in [Callers -> CallerState] /\ caller'[c] = y
      BY <1>1, <1>5, <2>2, CallType
  <2>4. /\ y.pc = pc /\ y.op = s.op /\ y.token = s.token /\ y.key = s.key /\ y.new = m
        /\ y.ready = key[m].provisioned
      BY <1>4, <2>1 DEF CallerState
  <2>. HIDE DEF y
  <2>5. pc \in {"add", "bind", "link"}
      BY <1>5
  <2>6. Rotating(y) <=> s.op \in Rotations
      BY <2>4, <2>5 DEF Rotating
  <2>7. s.op \in Rotations => s.key \in Keys /\ key[s.key].state \notin Unborn /\ s.key < m
      BY <1>1, <1>5 DEF CallerOK, Rotating
  <2>8. pc = "link" => s.op \in Rotations
      BY <1>1, <1>5 DEF CallerOK, Rotating
  <2>9. pc = "bind" => s.op = "create" /\ s.op \notin Rotations
      BY <1>5 DEF Rotations, Recoveries
  <2>. QED  BY <1>1, <2>1, <2>3, <2>4, <2>5, <2>6, <2>7, <2>8, <2>9 DEF CallerOK
<1>6. ASSUME NEW n \in Keys, IsNext(n), Call(c, [x EXCEPT !.pc = "insert", !.new = n])
      PROVE  caller' \in [Callers -> CallerState] /\ CallerOK(caller[c])'
  <2> DEFINE y == [x EXCEPT !.pc = "insert", !.new = n]
  <2>1. y \in CallerState
      BY <1>4 DEF CallerState
  <2>2. caller' \in [Callers -> CallerState] /\ caller'[c] = y
      BY <1>1, <1>6, <2>1, CallType
  <2>3. /\ y.pc = "insert" /\ y.op = s.op /\ y.token = s.token /\ y.key = s.key
        /\ y.new = n /\ y.ready = s.ready
      BY <1>4 DEF CallerState
  <2>. HIDE DEF y
  <2>4. Rotating(y) <=> Rotating(s)
      BY <1>1, <2>3 DEF Rotating
  <2>5. ~s.ready /\ (Rotating(s) \/ (s.op \in {"open", "create"} /\ s.key = NoKey))
      BY <1>1 DEF CallerOK
  <2>6. s.key < n
    <3>1. CASE Rotating(s)
      <4>1. s.key \in Keys /\ key[s.key].state # "ABSENT"
          BY <1>1, <3>1 DEF CallerOK, Unborn
      <4>2. DocOK(s.key) /\ s.key \in Nat /\ n \in Nat /\ key[n].state = "ABSENT"
          BY <1>1, <1>6, <4>1 DEF IInv, IsNext
      <4>3. ~(n < s.key) /\ n # s.key
          BY <4>1, <4>2 DEF DocOK
      <4>. QED  BY <4>2, <4>3
    <3>2. CASE s.key = NoKey
        BY <1>1, <3>2
    <3>. QED  BY <2>5, <3>1, <3>2
  <2>7. \A m \in Keys : m < n => key[m].state # "ABSENT"
      BY <1>6 DEF IsNext
  <2>. QED  BY <1>1, <2>2, <2>3, <2>4, <2>5, <2>6, <2>7 DEF CallerOK
<1>7. CASE \E m \in ByToken(s.token) :
              Call(c, [x EXCEPT !.new = m, !.ready = key[m].provisioned,
                                !.pc = CASE x.op = "open" -> "add"
                                         [] x.op = "create" -> "bind"
                                         [] OTHER -> "link"])
  <2> DEFINE pc == CASE x.op = "open" -> "add" [] x.op = "create" -> "bind" [] OTHER -> "link"
  <2>1. \/ pc = "add" /\ s.op = "open"
        \/ pc = "bind" /\ s.op = "create"
        \/ pc = "link" /\ s.op \notin {"open", "create"}
      BY <1>4
  <2>2. PICK m \in ByToken(s.token) :
           Call(c, [x EXCEPT !.new = m, !.ready = key[m].provisioned, !.pc = pc])
      BY <1>7
  <2>. HIDE DEF pc
  <2>. QED  BY <1>5, <2>1, <2>2
<1>8. CASE \E n \in Keys : IsNext(n) /\ Call(c, [x EXCEPT !.pc = "insert", !.new = n])
    BY <1>6, <1>8
<1>. QED  BY <1>7, <1>8 DEF Number, K, x

LEMMA RotateMoves ==
    ASSUME IInv, NEW c \in Callers, Rotate(c)
    PROVE  caller' \in [Callers -> CallerState] /\ CallerOK(caller[c])'
<1> DEFINE s == caller[c]
<1>1. /\ TypeOK /\ key \in [Keys -> KeyDoc] /\ s \in CallerState /\ CallerOK(s)
      /\ s.pc = "rotate" /\ key' = key /\ provider' = provider /\ wallet' = wallet
    BY DEF IInv, TypeOK, Rotate
<1>2. /\ s.key \in Keys /\ key[s.key].state \notin Unborn
      /\ s.op \in Rotations /\ ~s.ready
    BY <1>1 DEF CallerOK, Rotating
<1>3. ASSUME NEW m \in ByToken(s.token), Call(c, [s EXCEPT !.pc = "accuse", !.new = m])
      PROVE  caller' \in [Callers -> CallerState] /\ CallerOK(caller[c])'
  <2> DEFINE x == [s EXCEPT !.pc = "accuse", !.new = m]
  <2>1. x \in CallerState
      BY <1>1 DEF CallerState, ByToken
  <2>2. caller' \in [Callers -> CallerState] /\ caller'[c] = x
      BY <1>1, <1>3, <2>1, CallType
  <2>3. /\ x.pc = "accuse" /\ x.op = s.op /\ x.key = s.key /\ x.ready = s.ready
      BY <1>1 DEF CallerState
  <2>. QED  BY <1>1, <1>2, <2>2, <2>3 DEF CallerOK, Rotating
<1>4. CASE Done(c)
    BY <1>1, <1>4, CallEnds
<1>5. CASE MayRotate(c) /\ Call(c, [s EXCEPT !.pc = "claim", !.seen = key[s.key].version])
  <2> DEFINE x == [s EXCEPT !.pc = "claim", !.seen = key[s.key].version]
  <2>1. key[s.key].version \in Nat
      BY <1>1, <1>2, DocType
  <2>2. x \in CallerState
      BY <1>1, <2>1 DEF CallerState
  <2>3. caller' \in [Callers -> CallerState] /\ caller'[c] = x
      BY <1>1, <1>5, <2>2, CallType
  <2>4. /\ x.pc = "claim" /\ x.op = s.op /\ x.key = s.key /\ x.ready = s.ready
        /\ x.token = s.token
      BY <1>1 DEF CallerState
  <2>5. \A m \in Keys : key[m].token # s.token
      BY <1>1, <1>5 DEF MayRotate, ByToken
  <2>. QED  BY <1>1, <1>2, <2>3, <2>4, <2>5 DEF CallerOK, Rotating, ByToken
<1>. QED  BY <1>3, <1>4, <1>5 DEF Rotate, K

LEMMA LinkedMoves ==
    ASSUME IInv, NEW c \in Callers, Linked(c)
    PROVE  caller' \in [Callers -> CallerState] /\ CallerOK(caller[c])'
<1> DEFINE s == caller[c]
           x == [s EXCEPT !.pc = "bind", !.walletSeen = wallet.version,
                          !.from = key[s.key].state, !.seen = key[s.key].version]
<1>1. /\ TypeOK /\ key \in [Keys -> KeyDoc] /\ s \in CallerState /\ CallerOK(s)
      /\ s.pc = "linked" /\ key' = key /\ provider' = provider /\ wallet' = wallet
      /\ Call(c, x) /\ wallet \in WalletDoc
    BY DEF IInv, TypeOK, Linked, K
<1>2. /\ s.key \in Keys /\ key[s.key].state \notin Unborn
      /\ s.op \in Rotations /\ s.new \in Keys
    BY <1>1 DEF CallerOK, Rotating
<1>3. /\ key[s.key].version \in Nat /\ key[s.key].state \in KeyState
      /\ wallet.version \in Nat
    BY <1>1, <1>2, DocType DEF WalletDoc
<1>4. x \in CallerState
    BY <1>1, <1>3 DEF CallerState
<1>5. caller' \in [Callers -> CallerState] /\ caller'[c] = x
    BY <1>1, <1>4, CallType
<1>6. /\ x.pc = "bind" /\ x.op = s.op /\ x.key = s.key /\ x.ready = s.ready /\ x.new = s.new
      /\ x.from = key[s.key].state /\ x.seen = key[s.key].version
    BY <1>1 DEF CallerState
<1>7. s.ready => key[s.new].provisioned
    BY <1>1 DEF CallerOK
<1>. HIDE DEF x
<1>. QED  BY <1>1, <1>2, <1>3, <1>5, <1>6, <1>7 DEF CallerOK, Rotating, CopyOf

LEMMA AccuseMoves ==
    ASSUME IInv, NEW c \in Callers, AccusePredecessor(c)
    PROVE  caller' \in [Callers -> CallerState] /\ CallerOK(caller[c])'
<1> DEFINE s == caller[c]
           x == [s EXCEPT !.pc = "store", !.op = s.op, !.key = s.key,
                          !.from = key[s.key].state, !.seen = key[s.key].version]
<1>1. /\ TypeOK /\ key \in [Keys -> KeyDoc] /\ s \in CallerState /\ CallerOK(s)
      /\ s.pc = "accuse" /\ key' = key /\ provider' = provider /\ wallet' = wallet
      /\ Call(c, x)
    BY DEF IInv, TypeOK, AccusePredecessor, Accuse, K
<1>2. /\ s.key \in Keys /\ key[s.key].state \notin Unborn /\ s.op \in Rotations
    BY <1>1 DEF CallerOK, Rotating
<1>3. key[s.key].version \in Nat /\ key[s.key].state \in KeyState
    BY <1>1, <1>2, DocType
<1>4. x \in CallerState
    BY <1>1, <1>3, CallerFields DEF CallerState
<1>5. caller' \in [Callers -> CallerState] /\ caller'[c] = x
    BY <1>1, <1>4, CallType
<1>6. /\ x.pc = "store" /\ x.op = s.op /\ x.key = s.key /\ x.ready = s.ready /\ x.new = s.new
      /\ x.from = key[s.key].state /\ x.seen = key[s.key].version
    BY <1>1 DEF CallerState
<1>7. s.ready => s.new \in Keys /\ key[s.new].provisioned
    BY <1>1 DEF CallerOK
<1>. HIDE DEF x
<1>. QED  BY <1>1, <1>2, <1>3, <1>5, <1>6, <1>7 DEF CallerOK, Rotating, CopyOf

LEMMA ActivateMoves ==
    ASSUME IInv, NEW c \in Callers, Activate(c), Grows, key' \in [Keys -> KeyDoc]
    PROVE  caller' \in [Callers -> CallerState] /\ CallerOK(caller[c])'
<1> DEFINE s == caller[c]
           pc == CASE s.op = "open" -> "add" [] s.op = "create" -> "bind" [] OTHER -> "link"
           x == [s EXCEPT !.ready = TRUE, !.pc = pc]
<1>1. /\ TypeOK /\ key \in [Keys -> KeyDoc] /\ s \in CallerState /\ CallerOK(s)
      /\ s.pc = "activate" /\ provider' = provider /\ wallet' = wallet
      /\ Call(c, x) /\ Hydrate(s.new)
    BY DEF IInv, TypeOK, Activate, New
<1>2. /\ s.new \in Keys /\ s.key < s.new
      /\ Rotating(s) => s.key \in Keys /\ key[s.key].state \notin Unborn
      /\ Rotating(s) <=> s.op \in Rotations
      /\ Rotating(s) \/ s.op \in {"open", "create"}
    BY <1>1 DEF CallerOK, Rotating
<1>3. \/ pc = "add" /\ s.op = "open"
      \/ pc = "bind" /\ s.op = "create"
      \/ pc = "link" /\ s.op \notin {"open", "create"}
    OBVIOUS
<1>. HIDE DEF pc
<1>4. x \in CallerState
    BY <1>1, <1>3 DEF CallerState
<1>5. caller' \in [Callers -> CallerState] /\ caller'[c] = x
    BY <1>1, <1>4, CallType
<1>6. x.pc = pc /\ x.op = s.op /\ x.key = s.key /\ x.ready = TRUE /\ x.new = s.new
    BY <1>1 DEF CallerState
<1>. HIDE DEF x
<1>7. Rotating(s) => key'[s.key].state \notin Unborn
    BY <1>2, DocumentsKept
<1>8. key'[s.new].provisioned
  <2>1. key[s.new] \in KeyDoc
      BY <1>1, <1>2
  <2>2. key'[s.new] = [[[key[s.new] EXCEPT !.state = "ACTIVE"] EXCEPT !.provisioned = TRUE]
                          EXCEPT !.version = key[s.new].version + 1]
      BY <1>1, <1>2 DEF Hydrate
  <2>. QED  BY <2>1, <2>2 DEF KeyDoc
<1>9. Rotating(x) <=> Rotating(s)
    BY <1>1, <1>3, <1>6 DEF Rotating
<1>10. pc = "bind" => ~Rotating(s)
    BY <1>2, <1>3 DEF Rotations, Recoveries
<1>. QED
    BY <1>1, <1>2, <1>3, <1>5, <1>6, <1>7, <1>8, <1>9, <1>10 DEF CallerOK

LEMMA RotatedMoves ==
    ASSUME IInv, NEW c \in Callers, Rotated(c), caller[c].op \in Rotations,
           caller[c].key \in Keys, key'[caller[c].key].state \notin Unborn,
           caller[c].ready => caller[c].new \in Keys /\ key'[caller[c].new].provisioned
    PROVE  caller' \in [Callers -> CallerState] /\ CallerOK(caller[c])'
<1>1. TypeOK
    BY DEF IInv
<1>2. CASE At(c, "accuse")
  <2>1. /\ caller' \in [Callers -> CallerState]
        /\ caller'[c].pc = "accuse" /\ caller'[c].op = caller[c].op
        /\ caller'[c].key = caller[c].key /\ caller'[c].new = caller[c].new
        /\ caller'[c].ready = caller[c].ready
      BY <1>1, <1>2, CallAt
  <2>. QED  BY <2>1 DEF CallerOK, Rotating
<1>3. CASE Done(c)
    BY <1>1, <1>3, CallEnds
<1>. QED  BY <1>2, <1>3 DEF Rotated

\* A call knows what it needs after each of its steps.
LEMMA CallMoves ==
    ASSUME IInv, key' \in [Keys -> KeyDoc], Grows, NEW c \in Callers, CallStep(c)
    PROVE  caller' \in [Callers -> CallerState] /\ CallerOK(caller[c])'
<1> DEFINE s == caller[c]
<1>1. /\ TypeOK /\ s \in CallerState /\ CallerOK(s) /\ key \in [Keys -> KeyDoc]
      /\ provider \in [Keys -> ProviderKey]
    BY DEF IInv, TypeOK
<1>2. s.from \in KeyState /\ s.seen \in Nat
    BY <1>1, CallerFields
\* What it knew is still true.
<1>3. /\ Rotating(s) => s.key \in Keys /\ key'[s.key].state \notin Unborn
      /\ s.ready => s.new \in Keys /\ key'[s.new].provisioned
    BY <1>1, DocumentsKept DEF CallerOK
<1>4. CASE Number(c) \/ Rotate(c) \/ Linked(c) \/ AccusePredecessor(c) \/ Activate(c)
    BY <1>4, NumberMoves, RotateMoves, LinkedMoves, AccuseMoves, ActivateMoves
<1>5. CASE AddWallet(c) \/ Block(c) \/ UpdateStatus(c) \/ Fail(c)
    BY <1>1, <1>5, CallEnds DEF AddWallet, Block, UpdateStatus, Fail
<1>6. CASE Insert(c)
  <2>1. /\ caller' \in [Callers -> CallerState]
        /\ caller'[c].pc = "provide" /\ caller'[c].op = s.op
        /\ caller'[c].key = s.key /\ caller'[c].new = s.new /\ caller'[c].ready = s.ready
      BY <1>1, <1>6, CallAt DEF Insert
  <2>. QED  BY <1>1, <1>3, <1>6, <2>1 DEF Insert, CallerOK, Rotating
<1>7. CASE Provide(c)
  <2>1. /\ caller' \in [Callers -> CallerState]
        /\ caller'[c].pc = "activate" /\ caller'[c].op = s.op
        /\ caller'[c].key = s.key /\ caller'[c].new = s.new /\ caller'[c].ready = s.ready
      BY <1>1, <1>7, CallAt DEF Provide
  <2>2. provider'[s.new].created
      BY <1>1, <1>7 DEF Provide, CreateAtProvider, CallerOK, New, ProviderKey
  <2>. QED  BY <1>1, <1>3, <1>7, <2>1, <2>2 DEF Provide, CallerOK, Rotating
<1>8. CASE ClaimRotation(c)
  <2>1. /\ caller' \in [Callers -> CallerState]
        /\ caller'[c].pc = "number" /\ caller'[c].op = s.op /\ caller'[c].token = s.token
        /\ caller'[c].key = s.key /\ caller'[c].new = s.new /\ caller'[c].ready = s.ready
      BY <1>1, <1>8, CallAt DEF ClaimRotation
  <2>2. s.key \in Keys /\ key' = [key EXCEPT ![s.key].state = "ROTATING", ![s.key].version = @ + 1]
      BY <1>1, <1>8 DEF ClaimRotation, CallerOK, Put, K
  <2>3. \A m \in Keys : key'[m].token = key[m].token
      BY <1>1, <2>2 DEF KeyDoc
  <2>4. \A m \in Keys : key'[m].token = s.token => s.key < m
      BY <1>1, <1>8, <2>3 DEF ClaimRotation, CallerOK, ByToken
  <2>. QED  BY <1>1, <1>3, <1>8, <2>1, <2>4 DEF ClaimRotation, CallerOK, Rotating, ByToken
<1>9. CASE LinkSuccessor(c)
  <2>1. /\ caller' \in [Callers -> CallerState]
        /\ caller'[c].pc = "linked" /\ caller'[c].op = s.op
        /\ caller'[c].key = s.key /\ caller'[c].new = s.new /\ caller'[c].ready = s.ready
      BY <1>1, <1>9, CallAt DEF LinkSuccessor
  <2>. QED  BY <1>1, <1>3, <1>9, <2>1 DEF LinkSuccessor, CallerOK, Rotating
<1>10. CASE Bind(c)
  <2>1. s.pc = "bind" /\ s.new \in Keys /\ (Rotating(s) \/ s.op = "create") /\ key' = key
      BY <1>1, <1>10 DEF Bind, CallerOK
  <2>2. CASE Done(c)
      BY <1>1, <2>2, CallEnds
  <2>3. CASE s.op # "create" /\ Rotated(c)
    <3>1. s.op \in Rotations /\ Rotating(s)
        BY <2>1, <2>3 DEF Rotating
    <3>. QED  BY <1>3, <2>3, <3>1, RotatedMoves
  <2>4. CASE s.op # "create" /\ At(c, "silence")
    <3>1. s.op \in Rotations /\ Rotating(s)
        BY <2>1, <2>4 DEF Rotating
    <3>2. /\ caller' \in [Callers -> CallerState]
          /\ caller'[c].pc = "silence" /\ caller'[c].op = s.op
          /\ caller'[c].from = s.from /\ caller'[c].seen = s.seen
          /\ caller'[c].key = s.key /\ caller'[c].new = s.new /\ caller'[c].ready = s.ready
        BY <1>1, <2>4, CallAt
    <3>. QED  BY <1>1, <1>3, <2>1, <3>1, <3>2 DEF CallerOK, Rotating, CopyOf
  <2>. QED  BY <1>10, <2>2, <2>3, <2>4 DEF Bind
<1>11. CASE Silence(c)
  <2>1. /\ caller' \in [Callers -> CallerState]
        /\ caller'[c].pc = "retire" /\ caller'[c].op = s.op
        /\ caller'[c].from = s.from /\ caller'[c].seen = s.seen
        /\ caller'[c].key = s.key /\ caller'[c].new = s.new /\ caller'[c].ready = s.ready
      BY <1>1, <1>11, CallAt DEF Silence
  <2>. QED  BY <1>1, <1>3, <1>11, <2>1 DEF Silence, CallerOK, Rotating, CopyOf
<1>12. CASE Retire(c)
  <2>1. s.op \in Rotations /\ Rotating(s)
      BY <1>1, <1>12 DEF Retire, CallerOK, Rotating
  <2>. QED  BY <1>3, <1>12, <2>1, RotatedMoves DEF Retire
<1>13. CASE Act(c)
  <2>1. /\ caller' \in [Callers -> CallerState]
        /\ caller'[c].pc = "store" /\ caller'[c].op = s.op
        /\ caller'[c].from = s.from /\ caller'[c].seen = s.seen
        /\ caller'[c].key = s.key /\ caller'[c].new = s.new /\ caller'[c].ready = s.ready
      BY <1>1, <1>13, CallAt DEF Act
  <2>2. key' = key /\ s.pc = "act"
      BY <1>13 DEF Act
  <2>. QED  BY <1>1, <1>3, <2>1, <2>2 DEF CallerOK, Rotating, CopyOf
<1>14. CASE Store(c)
  <2>1. CASE Done(c)
      BY <1>1, <2>1, CallEnds
  <2>2. CASE Target(s.op) = "COMPROMISED" /\ At(c, "block")
    <3>1. /\ caller' \in [Callers -> CallerState]
          /\ caller'[c].pc = "block" /\ caller'[c].op = s.op
          /\ caller'[c].key = s.key /\ caller'[c].new = s.new /\ caller'[c].ready = s.ready
        BY <1>1, <2>2, CallAt
    <3>2. s.pc = "store" /\ Put(s.key, "COMPROMISED") /\ s.key \in Keys
        BY <1>1, <1>14, <2>2 DEF Store, K, CallerOK
    <3>3. key[s.key] \in KeyDoc
        BY <1>1, <3>2
    <3>4. key'[s.key] = [[key[s.key] EXCEPT !.state = "COMPROMISED"]
                            EXCEPT !.version = key[s.key].version + 1]
        BY <1>1, <3>2 DEF Put
    <3>5. key'[s.key].state = "COMPROMISED"
        BY <3>3, <3>4 DEF KeyDoc
    <3>. QED  BY <1>1, <1>3, <3>1, <3>2, <3>5 DEF CallerOK, Rotating, Condemned, Ending, Unborn
  <2>. QED  BY <1>14, <2>1, <2>2 DEF Store
<1>. QED
    BY <1>4, <1>5, <1>6, <1>7, <1>8, <1>9, <1>10, <1>11, <1>12, <1>13, <1>14 DEF CallStep

-----------------------------------------------------------------------------
(* What a reconciliation knows after its own steps *)

\* A reconciliation that has ended.
LEMMA WorkEnds ==
    ASSUME TypeOK, NEW w \in Workers, Work(w, NoWork)
    PROVE  worker' \in [Workers -> WorkerState] /\ WorkerOK(worker[w])'
<1>1. worker' \in [Workers -> WorkerState] /\ worker'[w] = NoWork
    BY NoWorkType, WorkType
<1>. QED  BY <1>1 DEF WorkerOK, NoWork

\* A reconciliation that goes on at step pc, with what it knows.
LEMMA WorkGoesOn ==
    ASSUME TypeOK, NEW w \in Workers,
           NEW pc \in {"examine", "activate", "adopt", "suspend", "store", "failing"},
           WorkAt(w, pc)
    PROVE  /\ worker' \in [Workers -> WorkerState]
           /\ worker'[w].pc = pc /\ worker'[w].key = worker[w].key
           /\ worker'[w].from = worker[w].from /\ worker'[w].seen = worker[w].seen
           /\ worker'[w].target = worker[w].target /\ worker'[w].new = worker[w].new
<1>1. worker[w] \in WorkerState
    BY DEF TypeOK
<1>2. [worker[w] EXCEPT !.pc = pc] \in WorkerState
    BY <1>1 DEF WorkerState
<1>3. /\ worker' \in [Workers -> WorkerState]
      /\ worker'[w] = [worker[w] EXCEPT !.pc = pc]
    BY <1>2, WorkType DEF WorkAt
<1>. QED  BY <1>1, <1>3 DEF WorkerState

\* A reconciliation that fails, where nothing is stored.
LEMMA WorkFails ==
    ASSUME IInv, NEW w \in Workers, WorkAt(w, "failing"), key' = key,
           worker[w].pc \notin {"idle", "claim", "examine"}
    PROVE  worker' \in [Workers -> WorkerState] /\ WorkerOK(worker[w])'
<1>1. TypeOK /\ WorkerOK(worker[w])
    BY DEF IInv
<1>2. /\ worker' \in [Workers -> WorkerState]
      /\ worker'[w].pc = "failing" /\ worker'[w].key = worker[w].key
      /\ worker'[w].from = worker[w].from /\ worker'[w].seen = worker[w].seen
    BY <1>1, WorkGoesOn
<1>. QED  BY <1>1, <1>2 DEF WorkerOK, CopyOf

\* A reconciliation that has examined its key.
LEMMA GoMoves ==
    ASSUME IInv, NEW w \in Workers, worker[w].pc = "examine",
           NEW pc \in {"destroy", "provide", "bind", "suspend", "store", "sync", "failing"},
           NEW target \in KeyState, NEW new \in Keys \cup {NoKey},
           Go(w, pc, target, new),
           pc \in {"destroy", "suspend", "store", "bind"} => target \in Moves(key[W(w)].state),
           pc \in {"destroy", "suspend", "store", "bind"} => key[W(w)].state # "PENDING",
           pc = "destroy" => key[W(w)].state \in Ending,
           pc \in {"bind", "suspend", "store"} => target # "DESTROYED",
           pc = "provide" => key[W(w)].state = "PENDING",
           pc = "bind" => new \in Keys /\ key[new].provisioned
    PROVE  worker' \in [Workers -> WorkerState] /\ WorkerOK(worker[w])'
<1> DEFINE s == worker[w]
           x == [s EXCEPT !.pc = pc, !.target = target, !.new = new,
                          !.from = key[s.key].state, !.seen = key[s.key].version,
                          !.walletSeen = IF pc = "bind" THEN wallet.version ELSE 0]
<1>1. /\ TypeOK /\ WorkerOK(s) /\ s \in WorkerState /\ key \in [Keys -> KeyDoc]
      /\ wallet \in WalletDoc /\ key' = key /\ provider' = provider
    BY DEF IInv, TypeOK, Go, Idle
<1>2. s.key \in Keys /\ key[s.key].state # "ABSENT"
    BY <1>1 DEF WorkerOK
<1>3. key[s.key].state \in KeyState /\ key[s.key].version \in Nat
    BY <1>1, <1>2, DocType
<1>4. (IF pc = "bind" THEN wallet.version ELSE 0) \in Nat
    BY <1>1 DEF WalletDoc
<1>5. x \in WorkerState
    BY <1>1, <1>3, <1>4 DEF WorkerState
<1>6. worker' \in [Workers -> WorkerState] /\ worker'[w] = x
    BY <1>1, <1>5, WorkType DEF Go, W
<1>7. /\ x.pc = pc /\ x.key = s.key /\ x.target = target /\ x.new = new
      /\ x.from = key[s.key].state /\ x.seen = key[s.key].version
    BY <1>1 DEF WorkerState
<1>. HIDE DEF x
<1>. QED  BY <1>1, <1>2, <1>3, <1>6, <1>7 DEF WorkerOK, CopyOf, W

LEMMA ExamineMoves ==
    ASSUME IInv, NEW w \in Workers,
           \/ ExamineDestruction(w) \/ ExaminePending(w) \/ ExamineRotation(w)
           \/ ExamineActive(w) \/ ExamineMissing(w) \/ ExamineOther(w) \/ ExamineUnusable(w)
    PROVE  worker' \in [Workers -> WorkerState] /\ WorkerOK(worker[w])'
<1>1. /\ TypeOK /\ WorkerOK(worker[w]) /\ key \in [Keys -> KeyDoc]
      /\ \A n \in Keys : DocOK(n)
    BY DEF IInv, TypeOK
<1>2. worker[w].pc = "examine" => W(w) \in Keys
    BY <1>1 DEF WorkerOK, W
<1>3. /\ NoKey \in Keys \cup {NoKey}
      /\ {"DESTROYED", "ACTIVE", "ROTATING", "SUSPENDED", "FAILED"} \subseteq KeyState
      /\ worker[w].pc = "examine" => key[W(w)].state \in KeyState
      /\ worker[w].pc = "examine" => key[W(w)].successor \in Keys \cup {NoKey}
    BY <1>1, <1>2, DocType DEF KeyState
<1>4. CASE ExamineDestruction(w)
    BY <1>3, <1>4, GoMoves, MovesThere DEF ExamineDestruction, Examining, Ending
<1>5. CASE ExaminePending(w)
    BY <1>3, <1>5, GoMoves DEF ExaminePending, Examining
<1>6. CASE ExamineRotation(w)
  <2> DEFINE m == key[W(w)].successor
  <2>1. worker[w].pc = "examine" /\ key[W(w)].state = "ROTATING" /\ m \in Keys \cup {NoKey}
      BY <1>3, <1>6 DEF ExamineRotation, Examining
  <2>2. CASE \/ Go(w, "sync", "ROTATING", NoKey)
             \/ Go(w, "store", "ACTIVE", NoKey)
             \/ Go(w, "failing", "SUSPENDED", m)
      BY <1>3, <2>1, <2>2, GoMoves, MovesThere
  <2>3. CASE /\ m # NoKey /\ key[m].state = "ACTIVE"
             /\ Go(w, IF wallet.key # m THEN "bind" ELSE "suspend", "SUSPENDED", m)
    <3>1. m \in Keys /\ key[m].provisioned
        BY <1>1, <2>1, <2>3 DEF DocOK, Unborn
    <3>. QED  BY <1>3, <2>1, <2>3, <3>1, GoMoves, MovesThere
  <2>. QED  BY <1>6, <2>2, <2>3 DEF ExamineRotation
<1>7. CASE ExamineActive(w)
    BY <1>3, <1>7, GoMoves, MovesThere DEF ExamineActive, Examining
<1>8. CASE ExamineMissing(w)
    BY <1>3, <1>8, GoMoves, MovesThere DEF ExamineMissing, Examining
<1>9. CASE ExamineOther(w)
    BY <1>3, <1>9, GoMoves DEF ExamineOther
<1>10. CASE ExamineUnusable(w)
    BY <1>3, <1>10, GoMoves DEF ExamineUnusable
<1>. QED  BY <1>4, <1>5, <1>6, <1>7, <1>8, <1>9, <1>10

\* A reconciliation knows what it needs after each of its steps.
LEMMA WorkMoves ==
    ASSUME IInv, key' \in [Keys -> KeyDoc], Grows, NEW w \in Workers, WorkStep(w)
    PROVE  worker' \in [Workers -> WorkerState] /\ WorkerOK(worker[w])'
<1> DEFINE s == worker[w]
<1>1. /\ TypeOK /\ s \in WorkerState /\ WorkerOK(s)
      /\ key \in [Keys -> KeyDoc] /\ provider \in [Keys -> ProviderKey]
    BY DEF IInv, TypeOK
<1>2. s.from \in KeyState /\ s.seen \in Nat
    BY <1>1, WorkerFields
<1>3. CASE \/ ExamineDestruction(w) \/ ExaminePending(w) \/ ExamineRotation(w)
           \/ ExamineActive(w) \/ ExamineMissing(w) \/ ExamineOther(w) \/ ExamineUnusable(w)
    BY <1>3, ExamineMoves
<1>4. CASE Work(w, NoWork)
    BY <1>1, <1>4, WorkEnds
<1>5. CASE ClaimReconciliation(w) /\ WorkAt(w, "examine")
  <2>1. /\ worker' \in [Workers -> WorkerState]
        /\ worker'[w].pc = "examine" /\ worker'[w].key = s.key
      BY <1>1, <1>5, WorkGoesOn
  <2>2. s.key \in Keys /\ key'[s.key].state # "ABSENT"
      BY <1>1, <1>5, DocumentsKept DEF ClaimReconciliation, WorkerOK
  <2>. QED  BY <2>1, <2>2 DEF WorkerOK
<1>6. CASE DestroyKey(w) \/ SuspendKey(w)
  <2>1. /\ worker' \in [Workers -> WorkerState]
        /\ worker'[w].pc = "store" /\ worker'[w].key = s.key /\ worker'[w].from = s.from
        /\ worker'[w].seen = s.seen /\ worker'[w].target = s.target
      BY <1>1, <1>6, WorkGoesOn DEF DestroyKey, SuspendKey
  <2>2. s.pc \in {"destroy", "suspend"} /\ key' = key
      BY <1>6 DEF DestroyKey, SuspendKey
  <2>3. s.key \in Keys /\ (s.pc = "suspend" => s.target # "DESTROYED")
      BY <1>1, <2>2 DEF WorkerOK
  <2>4. s.pc = "destroy" => provider'[s.key].destroyed
      BY <1>1, <1>6, <2>3 DEF DestroyKey, SuspendKey, DestroyAtProvider, W, ProviderKey
  <2>. QED  BY <1>1, <2>1, <2>2, <2>3, <2>4 DEF WorkerOK, CopyOf
<1>7. CASE ProvideAgain(w)
  <2>1. /\ worker' \in [Workers -> WorkerState]
        /\ worker'[w].pc = "activate" /\ worker'[w].key = s.key /\ worker'[w].from = s.from
        /\ worker'[w].seen = s.seen
      BY <1>1, <1>7, WorkGoesOn DEF ProvideAgain
  <2>2. s.pc = "provide" /\ s.key \in Keys /\ key' = key
      BY <1>1, <1>7 DEF ProvideAgain, WorkerOK
  <2>3. provider'[s.key].created
      BY <1>1, <1>7, <2>2 DEF ProvideAgain, CreateAtProvider, W, ProviderKey
  <2>. QED  BY <1>1, <2>1, <2>2, <2>3 DEF WorkerOK, CopyOf
<1>8. CASE WorkAt(w, "failing") /\ Idle /\ s.pc \notin {"idle", "claim", "examine"}
    BY <1>8, WorkFails DEF Idle
<1>9. CASE s.pc = "activate" /\ Hydrate(W(w)) /\ WorkAt(w, "adopt")
  <2>1. /\ worker' \in [Workers -> WorkerState]
        /\ worker'[w].pc = "adopt" /\ worker'[w].key = s.key /\ worker'[w].from = s.from
        /\ worker'[w].seen = s.seen
      BY <1>1, <1>9, WorkGoesOn
  <2>2. s.key \in Keys /\ s.from = "PENDING" /\ CopyOf(s.key, s.from, s.seen)
      BY <1>1, <1>9 DEF WorkerOK
  <2>3. key[s.key] \in KeyDoc
      BY <1>1, <2>2
  <2>4. key'[s.key] = [[[key[s.key] EXCEPT !.state = "ACTIVE"] EXCEPT !.provisioned = TRUE]
                          EXCEPT !.version = key[s.key].version + 1]
      BY <1>1, <1>9, <2>2 DEF Hydrate, W
  <2>5. /\ key'[s.key].provisioned /\ key'[s.key].state = "ACTIVE"
        /\ key'[s.key].version = key[s.key].version + 1
      BY <2>3, <2>4 DEF KeyDoc
  <2>6. /\ s.seen <= key'[s.key].version
        /\ s.seen = key'[s.key].version => key'[s.key].state = s.from
      BY <1>2, <2>2, <2>3, <2>5, DocType DEF CopyOf
  <2>. QED  BY <1>9, <2>1, <2>2, <2>5, <2>6 DEF WorkerOK, CopyOf
<1>10. CASE /\ s.pc = "adopt" /\ key' = key
            /\ Work(w, [s EXCEPT !.pc = "bind", !.new = W(w), !.walletSeen = wallet.version])
  <2> DEFINE x == [s EXCEPT !.pc = "bind", !.new = s.key, !.walletSeen = wallet.version]
  <2>1. s.key \in Keys /\ s.from = "PENDING" /\ key[s.key].provisioned
      BY <1>1, <1>10 DEF WorkerOK
  <2>2. wallet.version \in Nat
      BY <1>1 DEF TypeOK, WalletDoc
  <2>3. x \in WorkerState
      BY <1>1, <2>1, <2>2 DEF WorkerState
  <2>4. worker' \in [Workers -> WorkerState] /\ worker'[w] = x
      BY <1>1, <1>10, <2>3, WorkType DEF W
  <2>5. /\ x.pc = "bind" /\ x.key = s.key /\ x.new = s.key /\ x.from = s.from
        /\ x.seen = s.seen /\ x.target = s.target
      BY <1>1 DEF WorkerState
  <2>. HIDE DEF x
  <2>. QED  BY <1>1, <1>10, <2>1, <2>4, <2>5 DEF WorkerOK, CopyOf
<1>11. CASE s.pc = "bind" /\ key' = key /\ s.from # "PENDING" /\ WorkAt(w, "suspend")
  <2>1. /\ worker' \in [Workers -> WorkerState]
        /\ worker'[w].pc = "suspend" /\ worker'[w].key = s.key /\ worker'[w].from = s.from
        /\ worker'[w].seen = s.seen /\ worker'[w].target = s.target
      BY <1>1, <1>11, WorkGoesOn
  <2>. QED  BY <1>1, <1>11, <2>1 DEF WorkerOK, CopyOf
<1>12. CASE ClaimReconciliation(w)
    BY <1>4, <1>5, <1>12 DEF ClaimReconciliation
<1>13. CASE ActivatePending(w)
    BY <1>8, <1>9, <1>13 DEF ActivatePending, IfStored
<1>14. CASE Adopt(w)
    BY <1>4, <1>10, <1>14 DEF Adopt, Finish, Idle
<1>15. CASE BindKey(w)
    BY <1>4, <1>8, <1>11, <1>15 DEF BindKey, Finish
<1>16. CASE StoreKey(w) \/ Sync(w) \/ GiveUp(w)
    BY <1>4, <1>8, <1>16 DEF StoreKey, Sync, GiveUp, IfStored, Finish
<1>. QED  BY <1>3, <1>6, <1>7, <1>12, <1>13, <1>14, <1>15, <1>16 DEF WorkStep

\* The same when it starts, raises or dies.
LEMMA DisturbMoves ==
    ASSUME IInv, NEW w \in Workers, Disturb(w) \/ \E n \in Keys : ReconcileAuthorized(w, n)
    PROVE  worker' \in [Workers -> WorkerState] /\ WorkerOK(worker[w])'
<1> DEFINE s == worker[w]
<1>1. /\ TypeOK /\ s \in WorkerState /\ WorkerOK(s) /\ key \in [Keys -> KeyDoc]
    BY DEF IInv, TypeOK
<1>2. CASE Crash(w)
    BY <1>1, <1>2, WorkEnds DEF Crash
<1>3. CASE Error(w) /\ s.pc # "examine"
    BY <1>3, WorkFails DEF Error, Fault
<1>4. CASE Error(w) /\ s.pc = "examine"
  <2> DEFINE x == [s EXCEPT !.pc = "failing", !.from = key[s.key].state,
                            !.seen = key[s.key].version]
  <2>1. s.key \in Keys /\ key[s.key].state # "ABSENT" /\ key' = key
      BY <1>1, <1>4 DEF Error, Fault, WorkerOK
  <2>2. key[s.key].state \in KeyState /\ key[s.key].version \in Nat
      BY <1>1, <2>1, DocType
  <2>3. x \in WorkerState
      BY <1>1, <2>2 DEF WorkerState
  <2>4. worker' \in [Workers -> WorkerState] /\ worker'[w] = x
      BY <1>1, <1>4, <2>3, WorkType DEF Error, W
  <2>5. /\ x.pc = "failing" /\ x.key = s.key
        /\ x.from = key[s.key].state /\ x.seen = key[s.key].version
      BY <1>1 DEF WorkerState
  <2>. HIDE DEF x
  <2>. QED  BY <2>1, <2>2, <2>4, <2>5 DEF WorkerOK, CopyOf
<1>5. ASSUME NEW n \in Keys, ReconcileAuthorized(w, n)
      PROVE  worker' \in [Workers -> WorkerState] /\ WorkerOK(worker[w])'
  <2> DEFINE x == [NoWork EXCEPT !.pc = "claim", !.key = n, !.seen = key[n].version]
  <2>1. key[n].version \in Nat /\ key[n].state # "ABSENT" /\ key' = key
      BY <1>1, <1>5, DocType DEF ReconcileAuthorized, Pick, Idle
  <2>2. x \in WorkerState
      BY <2>1, NoWorkType DEF WorkerState
  <2>3. worker' \in [Workers -> WorkerState] /\ worker'[w] = x
      BY <1>1, <1>5, <2>2, WorkType DEF ReconcileAuthorized, Pick
  <2>4. x.pc = "claim" /\ x.key = n
      BY DEF NoWork
  <2>. HIDE DEF x
  <2>. QED  BY <2>1, <2>3, <2>4 DEF WorkerOK
<1>. QED  BY <1>2, <1>3, <1>4, <1>5 DEF Disturb

-----------------------------------------------------------------------------
(* The invariant is inductive *)

\* Documents, provider keys and the wallet keep their types.
LEMMA StoredTypes ==
    ASSUME IInv, [Next]_vars
    PROVE  /\ key' \in [Keys -> KeyDoc]
           /\ provider' \in [Keys -> ProviderKey]
           /\ wallet' \in WalletDoc
<1>1. /\ TypeOK /\ key \in [Keys -> KeyDoc] /\ provider \in [Keys -> ProviderKey]
      /\ wallet \in WalletDoc
    BY DEF IInv, TypeOK
<1>2. CASE \E c \in Callers : CallStep(c)
    BY <1>1, <1>2, TypeStored
<1>3. CASE \E w \in Workers : WorkStep(w)
    BY <1>1, <1>3, TypeRepaired
<1>4. CASE \E c \in Callers : Begin(c)
    BY <1>1, <1>4
    DEF Begin, BeginOpen, BeginCreate, BeginRotate, BeginRecovery, RepeatRecovery,
        BeginLifecycle, BeginDeletion, BeginCompromise, Accuse, BeginStatus,
        Suspend, Resume, Revoke, ScheduleDestruction, CancelDestruction, Lifecycle, Deletions
<1>5. CASE \/ \E w \in Workers : Disturb(w)
           \/ \E w \in Workers, n \in Keys : ReconcileAuthorized(w, n)
           \/ \E n \in Keys : Mature(n) \/ Lapse(n)
           \/ UNCHANGED vars
    BY <1>1, <1>5 DEF Disturb, Error, Crash, Fault, ReconcileAuthorized, Pick, Idle, Mature, Lapse, vars
<1>. QED  BY <1>2, <1>3, <1>4, <1>5 DEF Next

\* A call changes its own state only, and so does a reconciliation.
LEMMA OneCaller ==
    ASSUME NEW c \in Callers, CallStep(c) \/ Begin(c), caller \in [Callers -> CallerState]
    PROVE  /\ \A d \in Callers \ {c} : caller'[d] = caller[d]
           /\ worker' = worker
<1>1. CASE CallStep(c)
    BY <1>1
    DEF CallStep, Number, Insert, Provide, Activate, AddWallet, Rotate, ClaimRotation,
        LinkSuccessor, Linked, Bind, Rotated, Silence, Retire, AccusePredecessor, Accuse, Act,
        Store, Block, UpdateStatus, Fail, Call, At, Done
<1>2. CASE Begin(c)
    BY <1>2
    DEF Begin, BeginOpen, BeginCreate, BeginRotate, BeginRecovery, RepeatRecovery,
        BeginLifecycle, BeginDeletion, BeginCompromise, Accuse, BeginStatus, Call,
        Suspend, Resume, Revoke, ScheduleDestruction, CancelDestruction, Lifecycle, Deletions
<1>. QED  BY <1>1, <1>2

LEMMA OneWorker ==
    ASSUME NEW w \in Workers, worker \in [Workers -> WorkerState],
           WorkStep(w) \/ Disturb(w) \/ \E n \in Keys : ReconcileAuthorized(w, n)
    PROVE  /\ \A v \in Workers \ {w} : worker'[v] = worker[v]
           /\ caller' = caller
<1>1. CASE WorkStep(w)
    BY <1>1
    DEF WorkStep, ClaimReconciliation, ExamineDestruction, ExaminePending, ExamineRotation,
        ExamineActive, ExamineMissing, ExamineOther, ExamineUnusable, Go, DestroyKey,
        ProvideAgain, ActivatePending, Adopt, BindKey, SuspendKey, StoreKey, Sync, GiveUp,
        IfStored, Finish, Work, WorkAt
<1>2. CASE Disturb(w) \/ \E n \in Keys : ReconcileAuthorized(w, n)
    BY <1>2 DEF Disturb, Error, Crash, ReconcileAuthorized, Pick, Work, WorkAt
<1>. QED  BY <1>1, <1>2

LEMMA CallersKept ==
    ASSUME IInv, [Next]_vars
    PROVE  caller' \in [Callers -> CallerState] /\ \A c \in Callers : CallerOK(caller[c])'
<1>1. /\ key' \in [Keys -> KeyDoc] /\ Grows /\ caller \in [Callers -> CallerState]
      /\ \A c \in Callers : CallerOK(caller[c])
    BY StoredTypes, StepGrows DEF IInv, TypeOK
<1>2. ASSUME NEW d \in Callers, caller'[d] = caller[d]
      PROVE  CallerOK(caller[d])'
  <2>1. ASSUME NEW s \in CallerState, CallerOK(s)
        PROVE  CallerOK(s)'
      BY <1>1, <2>1, CallerRests
  <2>. QED  BY <1>1, <1>2, <2>1 DEF CallerOK, Rotating, CopyOf, ByToken
<1>3. ASSUME NEW c \in Callers, CallStep(c) \/ Begin(c)
      PROVE  caller' \in [Callers -> CallerState] /\ \A d \in Callers : CallerOK(caller[d])'
  <2>1. caller' \in [Callers -> CallerState] /\ CallerOK(caller[c])'
      BY <1>1, <1>3, CallMoves, BeginMoves
  <2>2. \A d \in Callers \ {c} : caller'[d] = caller[d]
      BY <1>1, <1>3, OneCaller
  <2>3. \A d \in Callers \ {c} : CallerOK(caller[d])'
      BY <1>2, <2>2
  <2>. QED  BY <2>1, <2>3
<1>4. CASE UNCHANGED caller
    BY <1>1, <1>2, <1>4
<1>5. (\E c \in Callers : CallStep(c) \/ Begin(c)) \/ UNCHANGED caller
    BY DEF Next, WorkStep, Disturb, ReconcileAuthorized, Mature, Lapse, vars
<1>. QED  BY <1>3, <1>4, <1>5

LEMMA WorkersKept ==
    ASSUME IInv, [Next]_vars
    PROVE  worker' \in [Workers -> WorkerState] /\ \A w \in Workers : WorkerOK(worker[w])'
<1>1. /\ key' \in [Keys -> KeyDoc] /\ Grows /\ worker \in [Workers -> WorkerState]
    BY StoredTypes, StepGrows DEF IInv, TypeOK
<1>2. ASSUME NEW v \in Workers, worker'[v] = worker[v]
      PROVE  WorkerOK(worker[v])'
    BY <1>1, <1>2, WorkerRests DEF WorkerOK, CopyOf
<1>3. ASSUME NEW w \in Workers, WorkStep(w) \/ Disturb(w) \/ \E n \in Keys : ReconcileAuthorized(w, n)
      PROVE  worker' \in [Workers -> WorkerState] /\ \A v \in Workers : WorkerOK(worker[v])'
  <2>1. worker' \in [Workers -> WorkerState] /\ WorkerOK(worker[w])'
      BY <1>1, <1>3, WorkMoves, DisturbMoves
  <2>2. \A v \in Workers \ {w} : worker'[v] = worker[v]
      BY <1>1, <1>3, OneWorker
  <2>3. \A v \in Workers \ {w} : WorkerOK(worker[v])'
      BY <1>2, <2>2
  <2>. QED  BY <2>1, <2>3
<1>4. CASE UNCHANGED worker
    BY <1>1, <1>2, <1>4
<1>5. \/ \E w \in Workers : WorkStep(w) \/ Disturb(w) \/ \E n \in Keys : ReconcileAuthorized(w, n)
      \/ UNCHANGED worker
    BY DEF Next, CallStep, Begin, Mature, Lapse, vars,
        Suspend, Resume, Revoke, ScheduleDestruction, CancelDestruction, Lifecycle, Deletions
<1>. QED  BY <1>3, <1>4, <1>5

\* The wallet stays bound to a key that is provisioned.
LEMMA BindingKept ==
    ASSUME IInv, [Next]_vars
    PROVE  BoundKeyProvisioned'
<1>1. /\ key' \in [Keys -> KeyDoc] /\ Grows /\ wallet \in WalletDoc /\ BoundKeyProvisioned
      /\ \A n \in Keys : DocOK(n)
    BY StoredTypes, StepGrows DEF IInv, TypeOK
<1>2. \A n \in Keys : /\ key[n].provisioned => key'[n].provisioned
                      /\ provider[n].created => provider'[n].created
    BY <1>1, DocumentsKept DEF Grows
<1>3. ASSUME wallet'.key = wallet.key, wallet.status # "NONE"
      PROVE  BoundKeyProvisioned'
    BY <1>1, <1>2, <1>3 DEF BoundKeyProvisioned
<1>4. ASSUME NEW n \in Keys, key[n].provisioned, wallet'.key = n
      PROVE  BoundKeyProvisioned'
    BY <1>1, <1>2, <1>4 DEF BoundKeyProvisioned, DocOK
<1>5. ASSUME NEW n, BindTo(n)
      PROVE  wallet'.key = n
    BY <1>1, <1>5 DEF BindTo, WalletDoc
<1>6. CASE UNCHANGED wallet
    BY <1>1, <1>2, <1>6 DEF BoundKeyProvisioned
<1>7. ASSUME NEW c \in Callers, AddWallet(c) \/ Bind(c)
      PROVE  BoundKeyProvisioned'
  <2>1. New(c) \in Keys /\ key[New(c)].provisioned
      BY <1>7 DEF IInv, CallerOK, AddWallet, Bind, Bindable, New
  <2>2. wallet'.key = New(c)
      BY <1>5, <1>7 DEF AddWallet, Bind
  <2>. QED  BY <1>4, <2>1, <2>2
<1>8. ASSUME NEW c \in Callers, UpdateStatus(c)
      PROVE  BoundKeyProvisioned'
  <2>1. wallet.status # "NONE"
      BY <1>8 DEF IInv, CallerOK, UpdateStatus
  <2>2. wallet'.key = wallet.key
      BY <1>1, <1>8 DEF UpdateStatus, WalletDoc
  <2>. QED  BY <1>3, <2>1, <2>2
<1>9. ASSUME NEW w \in Workers, BindKey(w), wallet' # wallet
      PROVE  BoundKeyProvisioned'
  <2>1. worker[w].new \in Keys /\ key[worker[w].new].provisioned
      BY <1>9 DEF IInv, WorkerOK, BindKey
  <2>2. wallet'.key = worker[w].new
      BY <1>5, <1>9 DEF BindKey, Idle
  <2>. QED  BY <1>4, <2>1, <2>2
<1>10. \/ UNCHANGED wallet
       \/ \E c \in Callers : AddWallet(c) \/ Bind(c) \/ UpdateStatus(c)
       \/ \E w \in Workers : BindKey(w)
  <2>1. ASSUME NEW c \in Callers, CallStep(c)
        PROVE  AddWallet(c) \/ Bind(c) \/ UpdateStatus(c) \/ UNCHANGED wallet
      BY <2>1
      DEF CallStep, Number, Insert, Provide, Activate, Rotate, ClaimRotation, LinkSuccessor,
          Linked, Silence, Retire, AccusePredecessor, Accuse, Act, Store, Block, Fail
  <2>2. ASSUME NEW c \in Callers, Begin(c)
        PROVE  UNCHANGED wallet
      BY <2>2
      DEF Begin, BeginOpen, BeginCreate, BeginRotate, BeginRecovery, RepeatRecovery,
          BeginLifecycle, BeginDeletion, BeginCompromise, Accuse, BeginStatus,
        Suspend, Resume, Revoke, ScheduleDestruction, CancelDestruction, Lifecycle, Deletions
  <2>3. ASSUME NEW w \in Workers, WorkStep(w)
        PROVE  BindKey(w) \/ UNCHANGED wallet
      BY <2>3
      DEF WorkStep, ClaimReconciliation, ExamineDestruction, ExaminePending, ExamineRotation,
          ExamineActive, ExamineMissing, ExamineOther, ExamineUnusable, Go, DestroyKey,
          ProvideAgain, ActivatePending, Adopt, SuspendKey, StoreKey, Sync, GiveUp, IfStored, Idle
  <2>4. ASSUME \/ \E w \in Workers : Disturb(w)
               \/ \E w \in Workers, n \in Keys : ReconcileAuthorized(w, n)
               \/ \E n \in Keys : Mature(n) \/ Lapse(n)
               \/ UNCHANGED vars
        PROVE  UNCHANGED wallet
      BY <2>4 DEF Disturb, Error, Crash, Fault, ReconcileAuthorized, Pick, Idle, Mature, Lapse, vars
  <2>. QED  BY <2>1, <2>2, <2>3, <2>4 DEF Next
<1>. QED  BY <1>6, <1>7, <1>8, <1>9, <1>10

\* What a call reports, if it reports anything.
LEMMA NewReport ==
    ASSUME IInv, NEW c \in Callers, CallStep(c) \/ Begin(c), NEW r \in reported', r \notin reported
    PROVE  /\ r \in [old : Keys, new : Keys \cup {NoKey}, compromise : BOOLEAN]
           /\ r.compromise => key'[r.old] = key[r.old] /\ key[r.old].state \in Condemned
<1>1. /\ TypeOK /\ key \in [Keys -> KeyDoc] /\ caller[c] \in CallerState /\ CallerOK(caller[c])
      /\ New(c) \in Keys \cup {NoKey}
    BY CallerFields DEF IInv, TypeOK, New
<1>2. CASE Block(c)
  <2>1. K(c) \in Keys /\ key[K(c)].state \in Condemned /\ key' = key
      BY <1>1, <1>2 DEF Block, CallerOK, K
  <2>. QED  BY <1>1, <1>2, <2>1 DEF Block, Report
<1>3. CASE Rotated(c) /\ (Bind(c) \/ Retire(c))
  <2>1. Report(c) /\ caller[c].op # "recoverCompromised" /\ caller[c].op \in Recoveries
      BY <1>3 DEF Rotated, Report
  <2>2. K(c) \in Keys
      BY <1>1, <1>3, <2>1 DEF Bind, Retire, CallerOK, K, Rotating, Rotations
  <2>3. r.old = K(c) /\ r.new = New(c) /\ r.compromise = FALSE
        /\ r \in [old : {K(c)}, new : {New(c)}, compromise : {FALSE}]
      BY <2>1 DEF Report
  <2>. QED  BY <1>1, <2>2, <2>3
<1>4. CASE Rotate(c)
  <2>1. K(c) \in Keys
      BY <1>1, <1>4 DEF Rotate, CallerOK, K, Rotating
  <2>2. PICK m \in Keys : r \in [old : {K(c)}, new : {m}, compromise : {FALSE}]
      BY <1>4 DEF Rotate, ByToken
  <2>. QED  BY <2>1, <2>2
<1>5. ASSUME NEW op \in Recoveries, NEW t \in RecoveryTokens, RepeatRecovery(c, op, t)
      PROVE  /\ r \in [old : Keys, new : Keys \cup {NoKey}, compromise : BOOLEAN]
             /\ r.compromise => key'[r.old] = key[r.old] /\ key[r.old].state \in Condemned
  <2>1. PICK m \in ByToken(t) :
          LET n == key[m].predecessor
          IN /\ n # NoKey
             /\ ~(op = "recoverCompromised" /\ key[n].state \in Accusable)
             /\ r = [old |-> n, new |-> m, compromise |-> op = "recoverCompromised"]
      BY <1>5 DEF RepeatRecovery
  <2> DEFINE n == key[m].predecessor
  <2>2. m \in Keys /\ n \in Keys /\ key[n].state \notin Unborn
      BY <1>1, <2>1, DocType DEF ByToken, IInv, DocOK
  <2>3. key[n].state \in KeyState
      BY <1>1, <2>2, DocType
  <2>4. r.old = n /\ r.new = m /\ r.compromise = (op = "recoverCompromised")
        /\ r \in [old : Keys, new : Keys \cup {NoKey}, compromise : BOOLEAN]
      BY <2>1, <2>2
  <2>5. key' = key
      BY <1>5 DEF RepeatRecovery
  <2>. QED  BY <2>1, <2>2, <2>3, <2>4, <2>5 DEF Accusable, Condemned, Ending, Unborn, KeyState
<1>6. CASE CallStep(c)
    BY <1>2, <1>3, <1>4, <1>6
    DEF CallStep, Number, Insert, Provide, Activate, AddWallet, ClaimRotation, LinkSuccessor,
        Linked, Bind, Silence, Retire, AccusePredecessor, Accuse, Act, Store, UpdateStatus, Fail
<1>7. CASE Begin(c)
    BY <1>5, <1>7
    DEF Begin, BeginOpen, BeginCreate, BeginRotate, BeginRecovery, BeginLifecycle,
        BeginDeletion, BeginCompromise, Accuse, BeginStatus,
        Suspend, Resume, Revoke, ScheduleDestruction, CancelDestruction, Lifecycle, Deletions
<1>. QED  BY <1>6, <1>7

LEMMA ReportsKept ==
    ASSUME IInv, [Next]_vars
    PROVE  /\ ReportsOK'
           /\ reported' \subseteq
                 [old : Keys \cup {NoKey}, new : Keys \cup {NoKey}, compromise : BOOLEAN]
<1>1. /\ key' \in [Keys -> KeyDoc] /\ Grows /\ ReportsOK
      /\ reported \subseteq
            [old : Keys \cup {NoKey}, new : Keys \cup {NoKey}, compromise : BOOLEAN]
    BY StoredTypes, StepGrows DEF IInv, TypeOK
<1>2. ASSUME NEW r \in reported
      PROVE  r.old \in Keys /\ (r.compromise => key'[r.old].state \in Condemned)
    BY <1>1, <1>2, DocumentsKept DEF ReportsOK
<1>3. (\E c \in Callers : CallStep(c) \/ Begin(c)) \/ UNCHANGED reported
    BY DEF Next, WorkStep, Disturb, ReconcileAuthorized, Mature, Lapse, vars
<1>4. ASSUME NEW r \in reported', r \notin reported
      PROVE  /\ r \in [old : Keys, new : Keys \cup {NoKey}, compromise : BOOLEAN]
             /\ r.compromise => key'[r.old].state \in Condemned
    BY <1>3, <1>4, NewReport
<1>5. ReportsOK'
  <2>1. \A r \in reported' : r.old \in Keys /\ (r.compromise => key'[r.old].state \in Condemned)
      BY <1>2, <1>4
  <2>. QED  BY <2>1 DEF ReportsOK
<1>6. ASSUME NEW r \in reported'
      PROVE  r \in [old : Keys \cup {NoKey}, new : Keys \cup {NoKey}, compromise : BOOLEAN]
    BY <1>1, <1>4
<1>. QED  BY <1>5, <1>6

\* The clocks, the leases and the counters of the worker.
LEMMA CountersTyped ==
    ASSUME IInv, [Next]_vars
    PROVE  /\ matured' \subseteq Keys
           /\ lapsed' \subseteq Keys
           /\ faults' \in 0 .. MaxFaults
<1>1. /\ matured \subseteq Keys /\ lapsed \subseteq Keys
      /\ faults \in 0 .. MaxFaults /\ MaxFaults \in Nat
    BY ConstantsAssumption DEF IInv, TypeOK
<1>2. matured' \subseteq Keys
  <2>1. ASSUME NEW c \in Callers, ClaimRotation(c)
        PROVE  matured' \subseteq Keys
    <3>1. K(c) \in Keys
        BY <2>1 DEF IInv, CallerOK, ClaimRotation, K
    <3>. QED  BY <1>1, <2>1, <3>1 DEF ClaimRotation
  <2>2. ASSUME NEW c \in Callers, CallStep(c)
        PROVE  matured' \subseteq Keys
      BY <1>1, <2>1, <2>2
      DEF CallStep, Number, Insert, Provide, Activate, AddWallet, Rotate, LinkSuccessor,
          Linked, Bind, Silence, Retire, AccusePredecessor, Accuse, Act, Store, Block,
          UpdateStatus, Fail
  <2>3. ASSUME NEW c \in Callers, Begin(c)
        PROVE  matured' \subseteq Keys
      BY <1>1, <2>3
      DEF Begin, BeginOpen, BeginCreate, BeginRotate, BeginRecovery, RepeatRecovery,
          BeginLifecycle, BeginDeletion, BeginCompromise, Accuse, BeginStatus,
        Suspend, Resume, Revoke, ScheduleDestruction, CancelDestruction, Lifecycle, Deletions
  <2>4. CASE UNCHANGED matured
      BY <1>1, <2>4
  <2>5. ASSUME NEW n \in Keys, Mature(n)
        PROVE  matured' \subseteq Keys
      BY <1>1, <2>5 DEF Mature
  <2>. QED
      BY <2>2, <2>3, <2>4, <2>5 DEF Next, WorkStep, Disturb, ReconcileAuthorized, Lapse, vars
<1>3. ASSUME NEW w \in Workers, WorkStep(w)
      PROVE  /\ lapsed' \subseteq Keys
             /\ faults' \in 0 .. MaxFaults
  <2>1. lapsed' \subseteq Keys /\ faults' \in 0 .. MaxFaults
      BY <1>1, <1>3
      DEF WorkStep, ClaimReconciliation, ExamineDestruction, ExaminePending, ExamineRotation,
          ExamineActive, ExamineMissing, ExamineOther, ExamineUnusable, Go, DestroyKey,
          ProvideAgain, ActivatePending, Adopt, BindKey, SuspendKey, StoreKey, Sync, GiveUp,
          IfStored, Idle
  <2>. QED  BY <2>1
<1>4. ASSUME NEW w \in Workers, Disturb(w)
      PROVE  lapsed' = lapsed /\ faults' \in 0 .. MaxFaults
    BY <1>1, <1>4 DEF Disturb, Error, Crash, Fault
<1>5. ASSUME \/ \E c \in Callers : Begin(c) \/ CallStep(c)
             \/ \E w \in Workers, n \in Keys : ReconcileAuthorized(w, n)
             \/ \E n \in Keys : Mature(n) \/ Lapse(n)
             \/ UNCHANGED vars
      PROVE  /\ lapsed' \subseteq Keys
             /\ faults' \in 0 .. MaxFaults
  <2>1. lapsed' \subseteq Keys /\ faults' = faults
      BY <1>1, <1>5 DEF Begin, CallStep, ReconcileAuthorized, Pick, Idle, Mature, Lapse, vars,
        Suspend, Resume, Revoke, ScheduleDestruction, CancelDestruction, Lifecycle, Deletions
  <2>. QED  BY <1>1, <2>1
<1>6. /\ lapsed' \subseteq Keys
      /\ faults' \in 0 .. MaxFaults
    BY <1>1, <1>3, <1>4, <1>5 DEF Next
<1>. QED  BY <1>2, <1>6

LEMMA InvariantInit == Init => IInv
<1>. SUFFICES ASSUME Init
              PROVE  IInv
    OBVIOUS
<1>1. TypeOK
    BY TypeInit
<1>2. \A n \in Keys : DocOK(n)
    BY DEF Init, DocOK, NoDoc, Unborn
<1>3. /\ \A c \in Callers : CallerOK(caller[c])
      /\ \A w \in Workers : WorkerOK(worker[w])
    BY NoCallType, NoWorkType DEF Init
<1>4. BoundKeyProvisioned /\ ReportsOK
    BY DEF Init, BoundKeyProvisioned, ReportsOK
<1>. QED  BY <1>1, <1>2, <1>3, <1>4 DEF IInv

LEMMA InvariantNext == IInv /\ [Next]_vars => IInv'
<1>. SUFFICES ASSUME IInv, [Next]_vars
              PROVE  IInv'
    OBVIOUS
<1>1. TypeOK'
    BY StoredTypes, CallersKept, WorkersKept, ReportsKept, CountersTyped DEF TypeOK
<1>2. \A n \in Keys : DocOK(n)'
    BY StoredTypes, StepGrows, DocsKept
<1>3. \A c \in Callers : CallerOK(caller[c])'
    BY CallersKept
<1>4. \A w \in Workers : WorkerOK(worker[w])'
    BY WorkersKept
<1>5. BoundKeyProvisioned' /\ ReportsOK'
    BY BindingKept, ReportsKept
<1>. QED  BY <1>1, <1>2, <1>3, <1>4, <1>5 DEF IInv

-----------------------------------------------------------------------------
(* Theorems *)

\* The invariant holds in every state that calls, workers, faults and clocks can
\* bring the documents, the provider's keys and the wallet to, however many keys,
\* threads, workers and tokens there are.
THEOREM Invariant == Spec => []IInv
<1>. QED  BY InvariantInit, InvariantNext, PTL DEF Spec

\* Every variable has its type: documents, provider keys, calls and workers are
\* never given a state, a version or a token that the code has no name for.
THEOREM TypeCorrect == Spec => []TypeOK
<1>1. IInv => TypeOK
    BY DEF IInv
<1>. QED  BY <1>1, Invariant, PTL

\* A document changes along VALID_KEY_TRANSITIONS only.  A call and the worker
\* check the state they have read, and the store compares versions: the copy has
\* the state of the document as long as it has its version.
THEOREM TransitionsLegal == Spec => LegalTransitions
<1> DEFINE Legal ==
        \A n \in Keys :
           key'[n].state # key[n].state =>
              \/ key[n].state = "ABSENT" /\ key'[n].state = "PENDING"
              \/ key'[n].state \in Moves(key[n].state)
<1>1. IInv /\ [Next]_vars => [Legal]_vars
    BY StepGrows DEF Grows, Inserted, Advanced
<1>. QED  BY <1>1, Invariant, PTL DEF Spec, LegalTransitions

\* Destruction is final.  The worker destroys a key only after it has read
\* DESTROY_PENDING, and REVOKED, DESTROY_PENDING, DESTROYED and FAILED lead to each
\* other and nowhere else; and it stores DESTROYED only after the provider has
\* destroyed the key, which no later call undoes.
THEOREM DestroyedStays == Spec => []DestroyedForGood
<1>1. IInv => DestroyedForGood
    BY DEF IInv, DocOK, Ending, DestroyedForGood
<1>. QED  BY <1>1, Invariant, PTL

\* The chain of rotations goes upwards: a rotation that finds its token taken
\* links a key that was inserted after the predecessor was claimed.
THEOREM ChainAscends == Spec => []SuccessorIsNewer
<1>1. IInv => SuccessorIsNewer
    BY DEF IInv, DocOK, SuccessorIsNewer
<1>. QED  BY <1>1, Invariant, PTL

\* A wallet is never bound to a key without a provider reference, by a creation, a
\* rotation, a recovery or a repair.
THEOREM BindingProvisioned == Spec => []BoundKeyProvisioned
<1>1. IInv => BoundKeyProvisioned
    BY DEF IInv
<1>. QED  BY <1>1, Invariant, PTL

\* A recovery from a compromised account is answered with success only after the
\* predecessor was stored as compromised, or had gone further already.
THEOREM CompromiseKept == Spec => []ReportedCompromise
<1>1. IInv => ReportedCompromise
    BY DEF IInv, ReportsOK, ReportedCompromise, Condemned, Ending
<1>. QED  BY <1>1, Invariant, PTL

=============================================================================
