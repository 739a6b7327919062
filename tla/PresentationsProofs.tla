------------------------ MODULE PresentationsProofs ------------------------
\* Proofs about Presentations.
EXTENDS Presentations, FiniteSetTheorems, TLAPS

-----------------------------------------------------------------------------
\* The inductive invariant

\* A presentation was in time at the claim that its decision is based on, and so were
\* its credentials.
Justified(p) ==
    /\ DecidingClaim(item[p]) <= item[p].until
    /\ \A k \in item[p].credentials :
            credential[k].revoked # Never => credential[k].revoked >= DecidingClaim(item[p])

\* A call or job may store a good verdict only while it holds, for the claim read back.
Decides(c) ==
    Completable(c.item, c.version) /\ c.verdict = "NONE" => Justified(c.item)

Claimed(p) == item[p].state \notin {"ABSENT", "PENDING"}

\* What is stored of a presentation: nothing in it is later than now.
ItemOK(p) ==
    /\ item[p].state # "ABSENT" =>
            /\ item[p].wallet \in Wallets /\ item[p].did \in Did
            /\ item[p].from <= clock
            /\ item[p].started <= clock
            /\ item[p].reconciled <= clock
    /\ Claimed(p) => item[p].started # Never
    /\ item[p].state = "VERIFIED" => Justified(p)

\* What a call in flight may rely on.
CallOK(c) ==
    /\ c.step \in HolderStep =>
            c.wallet \in Wallets /\ c.did \in Did /\ c.from \in Now /\ c.from <= clock
    /\ c.step \in {"consume", "build", "insert"} =>
            c.challenge \in Challenges /\ challenge[c.challenge].status # "ABSENT"
    /\ c.step = "insert" => ~Short(c)
    /\ c.step \in VerifierStep =>
            /\ c.item \in Items /\ item[c.item].state # "ABSENT"
            /\ c.version <= item[c.item].version
    /\ c.step \in {"inspect", "complete"} => Claimed(c.item)
    /\ c.step = "complete" => Decides(c)

\* What a reconciliation may rely on: once it has claimed, its claim is the only one or
\* others have followed.
JobOK(j) ==
    /\ j.step \in {"claim", "evidence", "inspect", "complete"} =>
            /\ j.item \in Items /\ Claimed(j.item)
            /\ j.version <= item[j.item].version
            /\ j.at \in Now /\ j.at <= clock
    /\ j.step \in {"evidence", "inspect", "complete"} =>
            /\ item[j.item].attempts >= 1 /\ item[j.item].started <= j.at
            /\ item[j.item].attempts = 1 => item[j.item].reconciled = j.at
    /\ j.step = "complete" => Decides(j)

\* A challenge is written over once.
ChallengeOK(c) == challenge[c].status = "ISSUED" => challenge[c].version = 1

CredentialOK(k) == credential[k].status = "ACTIVE" <=> credential[k].revoked = Never

IInv ==
    /\ TypeOK
    /\ \A c \in Challenges : ChallengeOK(c)
    /\ \A k \in Credentials : CredentialOK(k)
    /\ \A k \in Credentials : credential[k].revoked <= clock
    /\ \A p \in Items : ItemOK(p)
    /\ \A x \in Clients : CallOK(call[x])
    /\ \A r \in Reconcilers : JobOK(job[r])

-----------------------------------------------------------------------------
\* Types

LEMMA Constants ==
    /\ Lifetime \in Nat \ {0} /\ MinLife \in Nat \ {0} /\ Stale \in Nat \ {0}
    /\ MaxClock \in Nat /\ MaxRotations \in Nat /\ MaxMishaps \in Nat
    /\ Requested \subseteq Did \cup {Anyone}
    /\ Now \subseteq Nat /\ Never \notin Nat
    /\ \A t \in Instant : t # Never => t \in Now
    /\ \A t \in Now : t \in Instant /\ t # Never
    /\ Never \in Instant
  BY PresentationAssumptions DEF Now, Instant, Never

LEMMA ItemFields ==
    ASSUME NEW d \in ItemDoc
    PROVE  /\ d.state \in State /\ d.challenge \in Challenges \cup {None}
           /\ d.wallet \in Wallets \cup {None} /\ d.did \in Did \cup {NoDid}
           /\ d.credentials \in SUBSET Credentials /\ d.from \in Now /\ d.until \in Nat
           /\ d.started \in Instant /\ d.attempts \in Nat /\ d.reconciled \in Instant
           /\ d.verified \in Instant /\ d.codes \in Codes /\ d.version \in Nat
  BY DEF ItemDoc

LEMMA CallFields ==
    ASSUME NEW c \in Call
    PROVE  /\ c.step \in {"idle"} \cup HolderStep \cup VerifierStep
           /\ c.wallet \in Wallets \cup {None} /\ c.did \in Did \cup {NoDid}
           /\ c.challenge \in Challenges \cup {None} /\ c.credentials \in SUBSET Credentials
           /\ c.item \in Items \cup {None} /\ c.from \in Instant
           /\ c.version \in Nat /\ c.verdict \in Codes
  BY DEF Call

LEMMA JobFields ==
    ASSUME NEW j \in Job
    PROVE  /\ j.step \in {"idle", "read", "claim", "evidence", "inspect", "complete"}
           /\ j.batch \in SUBSET Items /\ j.item \in Items \cup {None}
           /\ j.at \in Instant /\ j.version \in Nat /\ j.verdict \in Codes
  BY DEF Job

LEMMA IdleType == Idle \in Call /\ Idle.step = "idle" /\ Idle.verdict = "NONE"
  BY Constants DEF Idle, Call, Codes

LEMMA NoJobType == NoJob \in Job /\ NoJob.step = "idle"
  BY Constants DEF NoJob, Job, Codes

LEMMA IdleOK == CallOK(Idle) /\ CallOK(Idle)'
  BY IdleType DEF CallOK, HolderStep, VerifierStep

LEMMA NoJobOK == JobOK(NoJob) /\ JobOK(NoJob)'
  BY NoJobType DEF JobOK

\* The values of a state: a document, a call, a job.
LEMMA ItemValue ==
    ASSUME IInv, NEW p \in Items
    PROVE  item[p] \in ItemDoc /\ ItemOK(p)
  BY DEF IInv, TypeOK

LEMMA CallValue ==
    ASSUME IInv, NEW x \in Clients
    PROVE  call[x] \in Call /\ CallOK(call[x])
  BY DEF IInv, TypeOK

LEMMA JobValue ==
    ASSUME IInv, NEW r \in Reconcilers
    PROVE  job[r] \in Job /\ JobOK(job[r])
  BY DEF IInv, TypeOK

-----------------------------------------------------------------------------
\* What a step may do

\* A presentation is never taken back, a change of it is a later version, and a
\* reconciler's claim is counted.
ItemGrows(p) ==
    item[p].state # "ABSENT" =>
        /\ item'[p].state # "ABSENT"
        /\ Claimed(p) => Claimed(p)' /\ item'[p].started = item[p].started
        /\ item[p].state \in Decided => item'[p] = item[p]
        /\ item'[p].version >= item[p].version
        /\ item'[p].version = item[p].version => item'[p] = item[p]
        /\ item'[p].attempts >= item[p].attempts
        /\ item'[p].attempts = item[p].attempts => item'[p].reconciled = item[p].reconciled

ChallengeGrows(c) ==
    /\ challenge[c].status # "ABSENT" =>
            challenge'[c].status # "ABSENT" /\ challenge'[c].expires = challenge[c].expires
    /\ challenge[c].status = "CONSUMED" => challenge'[c] = challenge[c]
    /\ challenge'[c] = challenge[c] \/ challenge'[c].status # "ISSUED" \/ challenge'[c].version = 1

CredentialGrows(k) ==
    \/ credential'[k] = credential[k]
    \/ credential[k].status = "ACTIVE" /\ credential'[k] = [status |-> "REVOKED", revoked |-> clock]

Growing ==
    /\ clock' \in Now /\ clock' >= clock
    /\ \A p \in Items : ItemGrows(p)
    /\ \A c \in Challenges : ChallengeGrows(c)
    /\ \A k \in Credentials : CredentialGrows(k)

\* A verdict that holds goes on to hold: a later revocation is later than the claim.
LEMMA JustifiedKept ==
    ASSUME IInv, TypeOK', Growing, NEW p \in Items, Claimed(p), item'[p] = item[p], Justified(p)
    PROVE  Justified(p)'
  <1>1. PICK d \in ItemDoc : d = item[p] /\ d = item'[p]
    BY ItemValue
  <1>2. DecidingClaim(d) \in Int /\ DecidingClaim(d) <= clock
    <2>1. ItemOK(p) /\ d.started \in Instant /\ d.reconciled \in Instant
      BY <1>1, ItemValue, ItemFields
    <2>2. Instant \subseteq Int
      BY Constants DEF Instant, Now, Never
    <2> QED
      BY <1>1, <2>1, <2>2 DEF ItemOK, DecidingClaim, Claimed
  <1>3. ASSUME NEW k \in d.credentials, credential'[k].revoked # Never
        PROVE  credential'[k].revoked >= DecidingClaim(d)
    <2>1. k \in Credentials
      BY <1>1, ItemFields
    <2>2. CASE credential'[k] = credential[k]
      BY <1>1, <1>3, <2>2 DEF Justified
    <2>3. CASE credential'[k].revoked = clock
      <3>1. clock \in Int
        BY DEF IInv, TypeOK, Now
      <3> QED
        BY <1>2, <2>3, <3>1
    <2> QED
      BY <2>1, <2>2, <2>3 DEF Growing, CredentialGrows
  <1> QED
    BY <1>1, <1>3 DEF Justified

LEMMA DecidesKept ==
    ASSUME IInv, TypeOK', Growing, NEW c, c.item \in Items, Claimed(c.item),
           c.version \in Nat, c.version <= item[c.item].version, Decides(c)
    PROVE  Decides(c)'
  <1> SUFFICES ASSUME Completable(c.item, c.version)', c.verdict = "NONE"
               PROVE  Justified(c.item)'
    BY DEF Decides
  <1>1. item[c.item].version \in Nat /\ item'[c.item].version \in Nat
    BY ItemFields DEF IInv, TypeOK
  <1>2. item'[c.item].version = c.version /\ ItemGrows(c.item) /\ item[c.item].state # "ABSENT"
    BY DEF Completable, Growing, Claimed
  <1>3. item'[c.item].version = item[c.item].version
    BY <1>1, <1>2 DEF ItemGrows
  <1>4. item'[c.item] = item[c.item]
    BY <1>2, <1>3 DEF ItemGrows
  <1>5. Justified(c.item)
    BY <1>2, <1>4 DEF Completable, Decides
  <1> QED
    BY <1>4, <1>5, JustifiedKept

\* What a call relies on outlasts the steps of the others.
LEMMA CallKept ==
    ASSUME IInv, TypeOK', Growing, NEW c \in Call, CallOK(c)
    PROVE  CallOK(c)'
  <1>1. clock \in Nat /\ clock' \in Nat /\ clock <= clock' /\ Now \subseteq Nat
    BY Constants DEF IInv, TypeOK, Growing
  <1>2. c.step \in HolderStep =>
            c.wallet \in Wallets /\ c.did \in Did /\ c.from \in Now /\ c.from <= clock'
    <2> SUFFICES ASSUME c.step \in HolderStep
                 PROVE  c.wallet \in Wallets /\ c.did \in Did /\ c.from \in Now /\ c.from <= clock'
      OBVIOUS
    <2>1. c.wallet \in Wallets /\ c.did \in Did /\ c.from \in Now /\ c.from <= clock
      BY DEF CallOK
    <2>2. c.from \in Nat
      BY <1>1, <2>1
    <2> QED
      BY <1>1, <2>1, <2>2
  <1>3. c.step \in {"consume", "build", "insert"} =>
            /\ c.challenge \in Challenges /\ challenge'[c.challenge].status # "ABSENT"
            /\ challenge'[c.challenge].expires = challenge[c.challenge].expires
    BY DEF CallOK, Growing, ChallengeGrows
  <1>4. c.step = "insert" => ~Short(c)'
    BY <1>3 DEF CallOK, Short
  <1>5. c.step \in VerifierStep =>
            /\ c.item \in Items /\ item'[c.item].state # "ABSENT"
            /\ c.version <= item'[c.item].version
    <2> SUFFICES ASSUME c.step \in VerifierStep
                 PROVE  /\ c.item \in Items /\ item'[c.item].state # "ABSENT"
                        /\ c.version <= item'[c.item].version
      OBVIOUS
    <2>1. /\ c.item \in Items /\ item[c.item].state # "ABSENT"
          /\ c.version <= item[c.item].version
      BY DEF CallOK
    <2>2. item[c.item].version \in Nat /\ item'[c.item].version \in Nat /\ c.version \in Nat
      BY <2>1, ItemFields, CallFields DEF IInv, TypeOK
    <2>3. item'[c.item].state # "ABSENT" /\ item'[c.item].version >= item[c.item].version
      BY <2>1 DEF Growing, ItemGrows
    <2> QED
      BY <2>1, <2>2, <2>3
  <1>6. c.step \in {"inspect", "complete"} => Claimed(c.item) /\ Claimed(c.item)'
    <2> SUFFICES ASSUME c.step \in {"inspect", "complete"}
                 PROVE  Claimed(c.item) /\ Claimed(c.item)'
      OBVIOUS
    <2>1. Claimed(c.item) /\ c.item \in Items
      BY DEF CallOK, VerifierStep
    <2>2. item[c.item].state # "ABSENT" /\ ItemGrows(c.item)
      BY <2>1 DEF Claimed, Growing
    <2> QED
      BY <2>1, <2>2 DEF ItemGrows
  <1>7. c.step = "complete" => Decides(c)'
    <2> SUFFICES ASSUME c.step = "complete" PROVE Decides(c)'
      OBVIOUS
    <2>1. c.item \in Items /\ c.version <= item[c.item].version /\ Decides(c) /\ c.version \in Nat
      BY CallFields DEF CallOK, VerifierStep
    <2> QED
      BY <1>6, <2>1, DecidesKept
  <1> QED
    BY <1>2, <1>3, <1>4, <1>5, <1>6, <1>7 DEF CallOK

\* What a reconciliation relies on outlasts the steps of the others.
LEMMA JobKept ==
    ASSUME IInv, TypeOK', Growing, NEW j \in Job, JobOK(j)
    PROVE  JobOK(j)'
  <1>1. clock \in Nat /\ clock' \in Nat /\ clock <= clock' /\ Now \subseteq Nat
    BY Constants DEF IInv, TypeOK, Growing
  <1> SUFFICES ASSUME j.step \in {"claim", "evidence", "inspect", "complete"} PROVE JobOK(j)'
    BY DEF JobOK
  <1>2. /\ j.item \in Items /\ Claimed(j.item)
        /\ j.version <= item[j.item].version
        /\ j.at \in Now /\ j.at <= clock
    BY DEF JobOK
  <1>3. /\ item[j.item].version \in Nat /\ item'[j.item].version \in Nat /\ j.version \in Nat
        /\ item[j.item].attempts \in Nat /\ item'[j.item].attempts \in Nat
    BY <1>2, ItemFields, JobFields DEF IInv, TypeOK
  <1>4. item[j.item].state # "ABSENT" /\ ItemGrows(j.item)
    BY <1>2 DEF Claimed, Growing
  <1>5. Claimed(j.item)' /\ j.version <= item'[j.item].version /\ j.at <= clock'
    <2>1. Claimed(j.item)' /\ item'[j.item].version >= item[j.item].version
      BY <1>2, <1>4 DEF ItemGrows
    <2>2. j.at \in Nat
      BY <1>1, <1>2
    <2> QED
      BY <1>1, <1>2, <1>3, <2>1, <2>2
  <1>6. j.step \in {"evidence", "inspect", "complete"} =>
            /\ item'[j.item].attempts >= 1 /\ item'[j.item].started <= j.at
            /\ item'[j.item].attempts = 1 => item'[j.item].reconciled = j.at
    <2> SUFFICES ASSUME j.step \in {"evidence", "inspect", "complete"}
                 PROVE  /\ item'[j.item].attempts >= 1 /\ item'[j.item].started <= j.at
                        /\ item'[j.item].attempts = 1 => item'[j.item].reconciled = j.at
      OBVIOUS
    <2>1. /\ item[j.item].attempts >= 1 /\ item[j.item].started <= j.at
          /\ item[j.item].attempts = 1 => item[j.item].reconciled = j.at
      BY DEF JobOK
    <2>2. /\ item'[j.item].attempts >= item[j.item].attempts
          /\ item'[j.item].started = item[j.item].started
          /\ item'[j.item].attempts = item[j.item].attempts =>
                item'[j.item].reconciled = item[j.item].reconciled
      BY <1>2, <1>4 DEF ItemGrows
    <2> QED
      BY <1>3, <2>1, <2>2
  <1>7. j.step = "complete" => Decides(j)'
    <2> SUFFICES ASSUME j.step = "complete" PROVE Decides(j)'
      OBVIOUS
    <2>1. Decides(j)
      BY DEF JobOK
    <2> QED
      BY <1>2, <1>3, <2>1, DecidesKept
  <1> QED
    BY <1>2, <1>5, <1>6, <1>7 DEF JobOK

-----------------------------------------------------------------------------
\* Steps

CallSet(x, c) == call' = [call EXCEPT ![x] = c]
JobSet(r, j) == job' = [job EXCEPT ![r] = j]

\* A step keeps the invariant if it keeps types and documents, takes nothing back, and
\* leaves its own call or job with what that may rely on.
LEMMA StepKeeps ==
    ASSUME IInv, TypeOK', Growing, \A p \in Items : ItemOK(p)',
           UNCHANGED call \/ \E x \in Clients, c \in Call : CallSet(x, c) /\ CallOK(c)',
           UNCHANGED job \/ \E r \in Reconcilers, j \in Job : JobSet(r, j) /\ JobOK(j)'
    PROVE  IInv'
  <1>1. ASSUME NEW y \in Clients PROVE CallOK(call[y])'
    <2>1. PICK d \in Call : d = call'[y]
      BY DEF TypeOK
    <2>2. CASE d = call[y]
      <3>1. CallOK(d)
        BY <2>2 DEF IInv
      <3>2. CallOK(d)'
        BY <3>1, CallKept
      <3> QED
        BY <2>1, <3>2 DEF CallOK, Short, Decides, Claimed, Completable, Justified
    <2>3. CASE d # call[y]
      <3>1. PICK x \in Clients, c \in Call : CallSet(x, c) /\ CallOK(c)'
        BY <2>1, <2>3
      <3>2. d = c
        BY <2>1, <2>3, <3>1 DEF CallSet, IInv, TypeOK
      <3>3. CallOK(d)'
        BY <3>1, <3>2
      <3> QED
        BY <2>1, <3>3 DEF CallOK, Short, Decides, Claimed, Completable, Justified
    <2> QED
      BY <2>2, <2>3
  <1>2. ASSUME NEW s \in Reconcilers PROVE JobOK(job[s])'
    <2>1. PICK d \in Job : d = job'[s]
      BY DEF TypeOK
    <2>2. CASE d = job[s]
      <3>1. JobOK(d)
        BY <2>2 DEF IInv
      <3>2. JobOK(d)'
        BY <3>1, JobKept
      <3> QED
        BY <2>1, <3>2 DEF JobOK, Decides, Claimed, Completable, Justified
    <2>3. CASE d # job[s]
      <3>1. PICK r \in Reconcilers, j \in Job : JobSet(r, j) /\ JobOK(j)'
        BY <2>1, <2>3
      <3>2. d = j
        BY <2>1, <2>3, <3>1 DEF JobSet, IInv, TypeOK
      <3>3. JobOK(d)'
        BY <3>1, <3>2
      <3> QED
        BY <2>1, <3>3 DEF JobOK, Decides, Claimed, Completable, Justified
    <2> QED
      BY <2>2, <2>3
  <1>3. ASSUME NEW k \in Credentials
        PROVE  CredentialOK(k)' /\ credential'[k].revoked <= clock'
    <2>1. CredentialOK(k) /\ credential[k].revoked <= clock /\ CredentialGrows(k)
      BY DEF IInv, Growing
    <2>2. clock \in Nat /\ clock' \in Nat /\ clock <= clock' /\ Never \notin Nat
      BY Constants DEF IInv, TypeOK, Growing
    <2>3. credential[k].revoked \in Int
      <3>1. credential[k] \in CredentialDoc
        BY DEF IInv, TypeOK
      <3> QED
        BY <3>1, Constants DEF CredentialDoc, Instant, Now, Never
    <2> QED
      BY <2>1, <2>2, <2>3 DEF CredentialOK, CredentialGrows
  <1>4. \A c \in Challenges : ChallengeOK(c)'
    BY DEF IInv, Growing, ChallengeGrows, ChallengeOK
  <1> QED
    BY <1>1, <1>2, <1>3, <1>4 DEF IInv

\* Presentations that stay as they are.
LEMMA ItemsStay ==
    ASSUME IInv, TypeOK', UNCHANGED item, clock' \in Now, clock' >= clock,
           \A c \in Challenges : ChallengeGrows(c), \A k \in Credentials : CredentialGrows(k)
    PROVE  Growing /\ \A p \in Items : ItemOK(p)'
  <1>1. ASSUME NEW p \in Items PROVE ItemGrows(p)
    <2>1. item[p].version \in Nat /\ item[p].attempts \in Nat
      BY ItemValue, ItemFields
    <2> QED
      BY <2>1 DEF ItemGrows, Claimed
  <1>2. Growing
    BY <1>1 DEF Growing
  <1>3. ASSUME NEW p \in Items PROVE ItemOK(p)'
    <2>1. PICK d \in ItemDoc : d = item[p] /\ d = item'[p]
      BY ItemValue
    <2>2. d.from \in Int /\ d.started \in Int /\ d.reconciled \in Int
      BY ItemFields, Constants DEF Instant, Now, Never
    <2>3. clock \in Int /\ clock' \in Int
      BY DEF IInv, TypeOK, Now
    <2>4. item[p].state = "VERIFIED" => Justified(p)'
      <3> SUFFICES ASSUME item[p].state = "VERIFIED" PROVE Justified(p)'
        OBVIOUS
      <3>1. Claimed(p) /\ Justified(p)
        BY ItemValue DEF Claimed, ItemOK
      <3> QED
        BY <1>2, <3>1, JustifiedKept
    <2>5. ItemOK(p)
      BY ItemValue
    <2> QED
      BY <2>1, <2>2, <2>3, <2>4, <2>5 DEF ItemOK, Claimed
  <1> QED
    BY <1>2, <1>3

\* What is not a document may change like this.
LooseTypes ==
    /\ known' \in SUBSET Did /\ running' \in SUBSET Workers
    /\ events' \in SUBSET
            ({"CREATED", "VERIFIED", "REJECTED", "RECONCILED", "RECONCILIATION_FAILED"} \X Items)
    /\ mishaps' \in 0 .. MaxMishaps

LEMMA LooseStay == ASSUME IInv, UNCHANGED <<known, running, events, mishaps>> PROVE LooseTypes
  BY DEF IInv, TypeOK, LooseTypes

LEMMA MishapType == ASSUME IInv, Mishap PROVE mishaps' \in 0 .. MaxMishaps
  BY Constants DEF IInv, TypeOK, Mishap

LEMMA CallSetType ==
    ASSUME IInv, UNCHANGED call \/ \E x \in Clients, c \in Call : CallSet(x, c)
    PROVE  call' \in [Clients -> Call]
  BY DEF IInv, TypeOK, CallSet

LEMMA JobSetType ==
    ASSUME IInv, UNCHANGED job \/ \E r \in Reconcilers, j \in Job : JobSet(r, j)
    PROVE  job' \in [Reconcilers -> Job]
  BY DEF IInv, TypeOK, JobSet

\* A step of a call or a job that leaves the documents alone.
LEMMA Quiet ==
    ASSUME IInv, UNCHANGED <<clock, wallet, key, challenge, item, credential>>, LooseTypes,
           UNCHANGED call \/ \E x \in Clients, c \in Call : CallSet(x, c) /\ CallOK(c),
           UNCHANGED job \/ \E r \in Reconcilers, j \in Job : JobSet(r, j) /\ JobOK(j)
    PROVE  IInv' /\ Growing
  <1>1. TypeOK'
    BY CallSetType, JobSetType DEF IInv, TypeOK, LooseTypes, Managed, Stored
  <1>2. Growing /\ \A p \in Items : ItemOK(p)'
    <2>1. clock' \in Now /\ clock' >= clock
      BY DEF IInv, TypeOK, Now
    <2>2. \A c \in Challenges : ChallengeGrows(c)
      BY DEF ChallengeGrows
    <2>3. \A k \in Credentials : CredentialGrows(k)
      BY DEF CredentialGrows
    <2> QED
      BY <1>1, <2>1, <2>2, <2>3, ItemsStay
  <1>3. UNCHANGED call \/ \E x \in Clients, c \in Call : CallSet(x, c) /\ CallOK(c)'
    BY <1>1, <1>2, CallKept
  <1>4. UNCHANGED job \/ \E r \in Reconcilers, j \in Job : JobSet(r, j) /\ JobOK(j)'
    BY <1>1, <1>2, JobKept
  <1> QED
    BY <1>1, <1>2, <1>3, <1>4, StepKeeps

\* A step of the wallets, their keys, the credentials or the clock.
LEMMA Outside ==
    ASSUME IInv, UNCHANGED <<challenge, item, known, call, job, running, events>>,
           clock' \in Now, clock' >= clock, wallet' \in [Wallets -> WalletDoc],
           DOMAIN key' = Managed, key' \in [Managed -> BOOLEAN],
           credential' \in [Credentials -> CredentialDoc],
           \A k \in Credentials : CredentialGrows(k), mishaps' \in 0 .. MaxMishaps
    PROVE  IInv' /\ Growing
  <1>1. TypeOK'
    BY DEF IInv, TypeOK, Managed, Stored
  <1>2. \A c \in Challenges : ChallengeGrows(c)
    BY DEF ChallengeGrows
  <1> QED
    BY <1>1, <1>2, ItemsStay, StepKeeps

\* A step that changes a challenge.
LEMMA ChallengeStep ==
    ASSUME IInv, NEW c \in Challenges, NEW d \in ChallengeDoc,
           challenge' = [challenge EXCEPT ![c] = d],
           challenge[c].status # "ABSENT" =>
                d.status # "ABSENT" /\ d.expires = challenge[c].expires,
           challenge[c].status # "CONSUMED", d.status = "ISSUED" => d.version = 1,
           UNCHANGED <<clock, wallet, key, item, credential, known, job, running, events, mishaps>>,
           UNCHANGED call \/ \E x \in Clients, b \in Call : CallSet(x, b) /\ CallOK(b)'
    PROVE  IInv' /\ Growing
  <1>1. TypeOK'
    BY CallSetType DEF IInv, TypeOK, Managed, Stored
  <1>2. \A e \in Challenges : ChallengeGrows(e)
    BY DEF IInv, TypeOK, ChallengeGrows
  <1>3. \A k \in Credentials : CredentialGrows(k)
    BY DEF CredentialGrows
  <1>4. clock' \in Now /\ clock' >= clock
    BY DEF IInv, TypeOK, Now
  <1> QED
    BY <1>1, <1>2, <1>3, <1>4, ItemsStay, StepKeeps

\* A step that changes a presentation.
LEMMA ItemStep ==
    ASSUME IInv, NEW p \in Items, NEW d \in ItemDoc, Consistent(d), d.state # "ABSENT",
           item' = [item EXCEPT ![p] = d], ItemGrows(p), ItemOK(p)',
           UNCHANGED <<clock, wallet, key, challenge, credential, known, running>>, LooseTypes,
           UNCHANGED call \/ \E x \in Clients, c \in Call : CallSet(x, c) /\ CallOK(c)',
           UNCHANGED job \/ \E r \in Reconcilers, j \in Job : JobSet(r, j) /\ JobOK(j)'
    PROVE  IInv' /\ Growing
  <1>1. TypeOK'
    <2>1. item' \in [Items -> ItemDoc] /\ \A q \in Items : item'[q].state # "ABSENT" => Consistent(item'[q])
      BY DEF IInv, TypeOK, Stored
    <2> QED
      BY <2>1, CallSetType, JobSetType DEF IInv, TypeOK, LooseTypes, Managed, Stored
  <1>2. ASSUME NEW q \in Items, q # p
        PROVE  ItemGrows(q) /\ ItemOK(q)'
    <2>1. item'[q] = item[q] /\ item[q] \in ItemDoc /\ ItemOK(q)
      BY <1>2 DEF IInv, TypeOK
    <2>2. item[q].version \in Nat /\ item[q].attempts \in Nat
      BY <2>1, ItemFields
    <2>3. ItemGrows(q)
      BY <2>1, <2>2 DEF ItemGrows, Claimed
    <2>4. ItemOK(q)'
      BY <2>1 DEF ItemOK, Claimed, Justified
    <2> QED
      BY <2>3, <2>4
  <1>3. Growing
    <2>1. clock' \in Now /\ clock' >= clock
      BY DEF IInv, TypeOK, Now
    <2>2. \A c \in Challenges : ChallengeGrows(c)
      BY DEF ChallengeGrows
    <2>3. \A k \in Credentials : CredentialGrows(k)
      BY DEF CredentialGrows
    <2> QED
      BY <1>2, <2>1, <2>2, <2>3 DEF Growing
  <1> QED
    BY <1>1, <1>2, <1>3, StepKeeps

-----------------------------------------------------------------------------
\* Challenges

\* Writing over a challenge that can be used.
LEMMA OverwriteType ==
    ASSUME IInv, NEW c \in Challenges, challenge[c].status = "ISSUED",
           NEW s \in ChallengeStatus \ {"ABSENT", "ISSUED"},
           challenge' = [challenge EXCEPT ![c].status = s, ![c].version = @ + 1]
    PROVE  \E d \in ChallengeDoc :
              /\ d.status = s /\ d.expires = challenge[c].expires
              /\ challenge' = [challenge EXCEPT ![c] = d]
  <1>1. challenge \in [Challenges -> ChallengeDoc]
    BY DEF IInv, TypeOK
  <1>2. PICK e \in ChallengeDoc : e = challenge[c] /\ e.version = 1
    BY <1>1 DEF IInv, ChallengeOK
  <1>3. PICK d : d = [e EXCEPT !.status = s, !.version = @ + 1]
    OBVIOUS
  <1>4. d \in ChallengeDoc /\ d.status = s /\ d.expires = e.expires
    <2>1. e.requested \in Did \cup {Anyone} /\ e.expires \in Nat
      BY <1>2 DEF ChallengeDoc
    <2>2. d.status = s /\ d.requested = e.requested /\ d.expires = e.expires /\ d.version = 2
      BY <1>2, <1>3 DEF ChallengeDoc
    <2>3. d = [status |-> d.status, requested |-> d.requested, expires |-> d.expires,
               version |-> d.version]
      BY <1>2, <1>3 DEF ChallengeDoc
    <2> QED
      BY <2>1, <2>2, <2>3 DEF ChallengeDoc
  <1>5. challenge' = [challenge EXCEPT ![c] = d]
    BY <1>1, <1>2, <1>3
  <1> QED
    BY <1>2, <1>4, <1>5

LEMMA IssueKeeps ==
    ASSUME IInv, NEW c \in Challenges, NEW did \in Requested, Issue(c, did)
    PROVE  IInv' /\ Growing
  <1>1. did \in Did \cup {Anyone} /\ clock + Lifetime \in Nat
    BY Constants DEF IInv, TypeOK, Now
  <1>2. PICK d : d = NewChallenge(did)
    OBVIOUS
  <1>3. d \in ChallengeDoc /\ d.status = "ISSUED" /\ d.version = 1
    BY <1>1, <1>2 DEF NewChallenge, ChallengeDoc, ChallengeStatus
  <1> QED
    BY <1>2, <1>3, ChallengeStep DEF Issue

\* An expiry, by whatever reads the challenge.
LEMMA ExpiryKeeps ==
    ASSUME IInv, NEW c \in Challenges, challenge' = Expired(c),
           UNCHANGED <<clock, wallet, key, item, credential, known, job, running, events, mishaps>>,
           UNCHANGED call \/ \E x \in Clients, b \in Call : CallSet(x, b) /\ CallOK(b)'
    PROVE  IInv' /\ Growing
  <1>1. CASE challenge[c].status = "ISSUED" /\ challenge[c].expires <= clock
    <2>1. challenge' = [challenge EXCEPT ![c].status = "EXPIRED", ![c].version = @ + 1]
      BY <1>1 DEF Expired
    <2>2. "EXPIRED" \in ChallengeStatus \ {"ABSENT", "ISSUED"}
      BY DEF ChallengeStatus
    <2>3. PICK d \in ChallengeDoc :
              /\ d.status = "EXPIRED" /\ d.expires = challenge[c].expires
              /\ challenge' = [challenge EXCEPT ![c] = d]
      BY <1>1, <2>1, <2>2, OverwriteType
    <2> QED
      BY <1>1, <2>3, ChallengeStep
  <1>2. CASE ~(challenge[c].status = "ISSUED" /\ challenge[c].expires <= clock)
    <2>1. UNCHANGED challenge
      BY <1>2 DEF Expired
    <2>2. TypeOK'
      BY <2>1, CallSetType DEF IInv, TypeOK, Managed, Stored
    <2>3. clock' \in Now /\ clock' >= clock
      BY DEF IInv, TypeOK, Now
    <2>4. \A e \in Challenges : ChallengeGrows(e)
      BY <2>1 DEF ChallengeGrows
    <2>5. \A k \in Credentials : CredentialGrows(k)
      BY DEF CredentialGrows
    <2> QED
      BY <2>2, <2>3, <2>4, <2>5, ItemsStay, StepKeeps
  <1> QED
    BY <1>1, <1>2

LEMMA ReadOverdueKeeps ==
    ASSUME IInv, NEW c \in Challenges, ReadOverdue(c) PROVE IInv' /\ Growing
  BY ExpiryKeeps DEF ReadOverdue

-----------------------------------------------------------------------------
\* Creating a presentation

LEMMA OpenCreateKeeps ==
    ASSUME IInv, NEW h \in Clients, NEW w \in Wallets, OpenCreate(h, w) PROVE IInv' /\ Growing
  <1>1. PICK ks \in SUBSET Credentials :
            CallSet(h, [Idle EXCEPT !.step = "challenge", !.wallet = w, !.did = wallet[w].did,
                                    !.from = clock, !.credentials = ks])
    BY DEF OpenCreate, CallSet
  <1>2. PICK did \in Did : did = wallet[w].did
    BY DEF IInv, TypeOK, WalletDoc
  <1>3. PICK now \in Now : now = clock
    BY DEF IInv, TypeOK
  <1>4. PICK c : c = [Idle EXCEPT !.step = "challenge", !.wallet = w, !.did = did,
                                  !.from = now, !.credentials = ks]
    OBVIOUS
  <1>5. c \in Call /\ c.step = "challenge" /\ c.wallet = w /\ c.did = did /\ c.from = now
    BY <1>4, IdleType, Constants DEF Call, HolderStep, Idle
  <1>6. CallOK(c)
    <2>1. now <= clock
      BY <1>3 DEF Now
    <2> QED
      BY <1>5, <2>1 DEF CallOK, HolderStep, VerifierStep
  <1> QED
    BY <1>1, <1>2, <1>3, <1>4, <1>5, <1>6, Quiet, LooseStay DEF OpenCreate

LEMMA EndsIdle == ASSUME NEW x \in Clients, Ends(x) PROVE CallSet(x, Idle)
  BY DEF Ends, CallSet

LEMMA ReadChallengeKeeps ==
    ASSUME IInv, NEW h \in Clients, NEW c \in Challenges, ReadChallenge(h, c) PROVE IInv' /\ Growing
  <1>1. CASE challenge' = Expired(c) /\ Ends(h)
    BY <1>1, ExpiryKeeps, EndsIdle, IdleType, IdleOK DEF ReadChallenge
  <1>2. CASE UNCHANGED challenge /\ Ends(h)
    BY <1>2, Quiet, LooseStay, EndsIdle, IdleType, IdleOK DEF ReadChallenge
  <1>3. CASE /\ challenge[c].status = "ISSUED"
             /\ call' = [call EXCEPT ![h].step = "consume", ![h].challenge = c,
                                     ![h].version = challenge[c].version]
             /\ UNCHANGED challenge
    <2>1. PICK b \in Call : b = call[h] /\ CallOK(b)
      BY CallValue
    <2>2. PICK v \in Nat : v = challenge[c].version
      BY DEF IInv, TypeOK, ChallengeDoc
    <2>3. PICK d : d = [b EXCEPT !.step = "consume", !.challenge = c, !.version = v]
      OBVIOUS
    <2>4. /\ d \in Call /\ d.step = "consume" /\ d.challenge = c
          /\ d.wallet = b.wallet /\ d.did = b.did /\ d.from = b.from
      BY <2>3 DEF Call, HolderStep
    <2>5. CallSet(h, d)
      BY <1>3, <2>1, <2>2, <2>3 DEF CallSet, IInv, TypeOK
    <2>6. b.step = "challenge"
      BY <2>1 DEF ReadChallenge
    <2>7. CallOK(d)
      BY <1>3, <2>1, <2>4, <2>6 DEF CallOK, HolderStep, VerifierStep
    <2> QED
      BY <1>3, <2>4, <2>5, <2>7, Quiet, LooseStay DEF ReadChallenge
  <1> QED
    BY <1>1, <1>2, <1>3 DEF ReadChallenge

LEMMA ConsumeKeeps == ASSUME IInv, NEW h \in Clients, Consume(h) PROVE IInv' /\ Growing
  <1>1. CASE UNCHANGED challenge /\ Ends(h)
    BY <1>1, Quiet, LooseStay, EndsIdle, IdleType, IdleOK DEF Consume
  <1>2. CASE /\ ConsumableBy(h)
             /\ challenge' = [challenge EXCEPT ![call[h].challenge].status = "CONSUMED",
                                               ![call[h].challenge].version = @ + 1]
             /\ call' = [call EXCEPT ![h].step = "build"]
    <2>1. PICK b \in Call : b = call[h] /\ CallOK(b)
      BY CallValue
    <2>2. PICK c \in Challenges : c = b.challenge /\ challenge[c].status = "ISSUED"
      BY <1>2, <2>1 DEF Consume, ConsumableBy, CallOK
    <2>3. "CONSUMED" \in ChallengeStatus \ {"ABSENT", "ISSUED"}
      BY DEF ChallengeStatus
    <2>4. challenge' = [challenge EXCEPT ![c].status = "CONSUMED", ![c].version = @ + 1]
      BY <1>2, <2>1, <2>2
    <2>5. PICK d \in ChallengeDoc :
              /\ d.status = "CONSUMED" /\ d.expires = challenge[c].expires
              /\ challenge' = [challenge EXCEPT ![c] = d]
      BY <2>2, <2>3, <2>4, OverwriteType
    <2>6. PICK a : a = [b EXCEPT !.step = "build"]
      OBVIOUS
    <2>7. /\ a \in Call /\ a.step = "build" /\ a.challenge = c
          /\ a.wallet = b.wallet /\ a.did = b.did /\ a.from = b.from
      BY <2>2, <2>6 DEF Call, HolderStep
    <2>8. CallSet(h, a)
      BY <1>2, <2>1, <2>6 DEF CallSet, IInv, TypeOK
    <2>9. challenge'[c].status = "CONSUMED" /\ clock' = clock
      BY <1>2, <2>5 DEF Consume, IInv, TypeOK
    <2>10. CallOK(a)'
      BY <2>1, <2>2, <2>7, <2>9 DEF CallOK, HolderStep, VerifierStep, Consume
    <2> QED
      BY <2>2, <2>5, <2>7, <2>8, <2>10, ChallengeStep DEF Consume
  <1> QED
    BY <1>1, <1>2 DEF Consume

LEMMA SeenType ==
    ASSUME IInv, NEW w, NEW did \in Did PROVE known \cup Seen(w, did) \in SUBSET Did
  BY DEF IInv, TypeOK, Seen

LEMMA BuildKeeps ==
    ASSUME IInv, NEW h \in Clients, NEW conflict \in BOOLEAN, Build(h, conflict) PROVE IInv' /\ Growing
  <1>1. CASE Ends(h) /\ UNCHANGED known
    BY <1>1, Quiet, LooseStay, EndsIdle, IdleType, IdleOK DEF Build
  <1>2. CASE /\ ~Short(call[h]) /\ call' = [call EXCEPT ![h].step = "insert"]
             /\ known' = known \cup Seen(call[h].wallet, call[h].did)
    <2>1. PICK b \in Call : b = call[h] /\ CallOK(b)
      BY CallValue
    <2>2. PICK a : a = [b EXCEPT !.step = "insert"]
      OBVIOUS
    <2>3. /\ a \in Call /\ a.step = "insert" /\ a.challenge = b.challenge
          /\ a.wallet = b.wallet /\ a.did = b.did /\ a.from = b.from
      BY <2>2 DEF Call, HolderStep
    <2>4. CallSet(h, a)
      BY <1>2, <2>1, <2>2 DEF CallSet, IInv, TypeOK
    <2>5. b.step = "build"
      BY <2>1 DEF Build
    <2>6. ~Short(a)
      BY <1>2, <2>1, <2>3 DEF Short
    <2>7. CallOK(a)
      BY <2>1, <2>3, <2>5, <2>6 DEF CallOK, HolderStep, VerifierStep
    <2>8. b.did \in Did
      BY <2>1, <2>5 DEF CallOK, HolderStep
    <2>9. LooseTypes
      <3>1. known' \in SUBSET Did
        BY <1>2, <2>1, <2>8, SeenType
      <3> QED
        BY <3>1 DEF Build, LooseTypes, IInv, TypeOK
    <2> QED
      BY <2>3, <2>4, <2>7, <2>9, Quiet DEF Build
  <1> QED
    BY <1>1, <1>2 DEF Build

LEMMA RecordTypes ==
    ASSUME IInv, UNCHANGED <<known, running>>,
           NEW es \in SUBSET ({"CREATED", "VERIFIED", "REJECTED", "RECONCILED",
                               "RECONCILIATION_FAILED"} \X Items), Record(es)
    PROVE  LooseTypes
  BY MishapType DEF Record, Mishap, LooseTypes, IInv, TypeOK

\* A new presentation lasts long enough: the challenge does, as was seen before it was
\* signed, and so does every lifetime that can be requested.
LEMMA NewItemType ==
    ASSUME IInv, NEW c \in Call, CallOK(c), c.step = "insert", NEW life \in Lives,
           NEW d, d = NewItem(c, life)
    PROVE  /\ d \in ItemDoc /\ Consistent(d) /\ d.state = "PENDING"
           /\ d.wallet \in Wallets /\ d.did \in Did /\ d.from \in Now /\ d.from <= clock
           /\ d.started = Never /\ d.reconciled = Never
  <1>1. c.wallet \in Wallets /\ c.did \in Did /\ c.from \in Now /\ c.from <= clock
    BY DEF CallOK, HolderStep
  <1>2. c.challenge \in Challenges /\ challenge[c.challenge].expires \in Nat
    BY DEF CallOK, IInv, TypeOK, ChallengeDoc
  <1>3. ~(challenge[c.challenge].expires - c.from < MinLife)
    BY DEF CallOK, Short
  <1>4. c.credentials \in SUBSET Credentials
    BY CallFields
  <1>5. /\ d.state = "PENDING" /\ d.challenge = c.challenge /\ d.wallet = c.wallet /\ d.did = c.did
        /\ d.from = c.from /\ d.until = Until(c, life)
        /\ d.started = Never /\ d.attempts = 0 /\ d.reconciled = Never /\ d.verified = Never
        /\ d.codes = "NONE"
    BY DEF NewItem
  <1>6. c.from \in Nat /\ MinLife \in Nat /\ life \in Nat /\ life >= MinLife
    BY <1>1, Constants, PresentationAssumptions
  <1>7. Until(c, life) \in Nat /\ Until(c, life) - c.from >= MinLife
    BY <1>2, <1>3, <1>6 DEF Until
  <1>8. d \in ItemDoc
    <2> HIDE DEF Until
    <2>1. d = [state |-> "PENDING", challenge |-> c.challenge, wallet |-> c.wallet, did |-> c.did,
               credentials |-> c.credentials, from |-> c.from, until |-> Until(c, life),
               started |-> Never, attempts |-> 0, reconciled |-> Never, verified |-> Never,
               codes |-> "NONE", version |-> 1]
      BY DEF NewItem
    <2> QED
      BY <1>1, <1>2, <1>4, <1>7, <2>1, Constants DEF ItemDoc, State, Codes
  <1>9. Consistent(d)
    BY <1>5, <1>7 DEF Consistent
  <1> QED
    BY <1>1, <1>5, <1>8, <1>9

LEMMA InsertKeeps ==
    ASSUME IInv, NEW h \in Clients, NEW p \in Items, Insert(h, p) PROVE IInv' /\ Growing
  <1>1. CASE UNCHANGED <<item, events, mishaps>>
    BY <1>1, Quiet, LooseStay, EndsIdle, IdleType, IdleOK DEF Insert
  <1>2. ASSUME NEW life \in Lives, item' = [item EXCEPT ![p] = NewItem(call[h], life)],
               Record({<<"CREATED", p>>})
        PROVE  IInv' /\ Growing
    <2>1. PICK b \in Call : b = call[h] /\ CallOK(b)
      BY CallValue
    <2>2. PICK d : d = NewItem(b, life)
      OBVIOUS
    <2>3. b.step = "insert" /\ item[p].state = "ABSENT"
      BY <2>1 DEF Insert
    <2>4. /\ d \in ItemDoc /\ Consistent(d) /\ d.state = "PENDING"
          /\ d.wallet \in Wallets /\ d.did \in Did /\ d.from \in Now /\ d.from <= clock
          /\ d.started = Never /\ d.reconciled = Never
      BY <2>1, <2>2, <2>3, NewItemType
    <2>5. item' = [item EXCEPT ![p] = d] /\ item'[p] = d
      BY <1>2, <2>1, <2>2 DEF IInv, TypeOK
    <2>6. ItemGrows(p)
      BY <2>3 DEF ItemGrows
    <2>7. ItemOK(p)'
      <3>1. clock' = clock /\ Never <= clock
        BY DEF Insert, IInv, TypeOK, Now, Never
      <3> QED
        BY <2>4, <2>5, <3>1 DEF ItemOK, Claimed
    <2>8. LooseTypes
      <3>1. <<"CREATED", p>> \in
                {"CREATED", "VERIFIED", "REJECTED", "RECONCILED", "RECONCILIATION_FAILED"} \X Items
        OBVIOUS
      <3> QED
        BY <1>2, <3>1, RecordTypes DEF Insert
    <2> QED
      BY <2>4, <2>5, <2>6, <2>7, <2>8, ItemStep, EndsIdle, IdleType, IdleOK DEF Insert
  <1> QED
    BY <1>1, <1>2 DEF Insert

-----------------------------------------------------------------------------
\* The three writes to a stored presentation, as documents

ClaimOf(e, t) == [e EXCEPT !.state = "PROCESSING", !.started = t, !.version = @ + 1]
ReclaimOf(e, t) == [e EXCEPT !.attempts = @ + 1, !.reconciled = t, !.version = @ + 1]
DecisionOf(e, t, verdict) ==
    [e EXCEPT !.state = IF verdict = "NONE" THEN "VERIFIED" ELSE "REJECTED",
              !.codes = verdict, !.verified = t, !.version = @ + 1]

\* What all three leave alone.
SameContent(d, e) ==
    /\ d.challenge = e.challenge /\ d.wallet = e.wallet /\ d.did = e.did
    /\ d.credentials = e.credentials /\ d.from = e.from /\ d.until = e.until
    /\ d.version = e.version + 1

LEMMA ClaimDoc ==
    ASSUME NEW e \in ItemDoc, Consistent(e), e.state = "PENDING", NEW t \in Now, e.from <= t,
           NEW d, d = ClaimOf(e, t)
    PROVE  /\ d \in ItemDoc /\ Consistent(d) /\ SameContent(d, e)
           /\ d.state = "PROCESSING" /\ d.started = t
           /\ d.attempts = e.attempts /\ d.reconciled = e.reconciled
  <1>1. e.version + 1 \in Nat /\ t \in Instant /\ t # Never
    BY ItemFields, Constants
  <1>2. /\ SameContent(d, e) /\ d.state = "PROCESSING" /\ d.started = t
        /\ d.attempts = e.attempts /\ d.reconciled = e.reconciled
        /\ d.verified = e.verified /\ d.codes = e.codes
    BY DEF ClaimOf, ItemDoc, SameContent
  <1>3. d \in ItemDoc
    BY <1>1 DEF ClaimOf, ItemDoc, State
  <1>4. t >= e.from
    BY ItemFields, Constants
  <1>5. Consistent(d)
    BY <1>1, <1>2, <1>4 DEF Consistent, SameContent
  <1> QED
    BY <1>2, <1>3, <1>5

LEMMA ReclaimDoc ==
    ASSUME NEW e \in ItemDoc, Consistent(e), e.state = "PROCESSING", NEW t \in Now, e.started <= t,
           NEW d, d = ReclaimOf(e, t)
    PROVE  /\ d \in ItemDoc /\ Consistent(d) /\ SameContent(d, e)
           /\ d.state = "PROCESSING" /\ d.started = e.started
           /\ d.attempts = e.attempts + 1 /\ d.reconciled = t
  <1>1. e.version + 1 \in Nat /\ e.attempts + 1 \in Nat \ {0} /\ t \in Instant /\ t # Never
    BY ItemFields, Constants
  <1>2. /\ SameContent(d, e) /\ d.state = "PROCESSING" /\ d.started = e.started
        /\ d.attempts = e.attempts + 1 /\ d.reconciled = t
        /\ d.verified = e.verified /\ d.codes = e.codes
    BY DEF ReclaimOf, ItemDoc, SameContent
  <1>3. d \in ItemDoc
    BY <1>1 DEF ReclaimOf, ItemDoc
  <1>4. t >= e.started
    BY ItemFields, Constants DEF Instant, Never
  <1>5. Consistent(d)
    BY <1>1, <1>2, <1>4 DEF Consistent, SameContent
  <1> QED
    BY <1>2, <1>3, <1>5

LEMMA CompleteDoc ==
    ASSUME NEW e \in ItemDoc, Consistent(e), e.state = "PROCESSING", NEW t \in Now,
           NEW verdict \in Codes,
           NEW d, d = DecisionOf(e, t, verdict)
    PROVE  /\ d \in ItemDoc /\ Consistent(d) /\ SameContent(d, e)
           /\ d.state = (IF verdict = "NONE" THEN "VERIFIED" ELSE "REJECTED")
           /\ d.started = e.started
           /\ d.attempts = e.attempts /\ d.reconciled = e.reconciled
  <1>1. e.version + 1 \in Nat /\ t \in Instant /\ t # Never
    BY ItemFields, Constants
  <1>2. /\ SameContent(d, e) /\ d.started = e.started
        /\ d.state = IF verdict = "NONE" THEN "VERIFIED" ELSE "REJECTED"
        /\ d.attempts = e.attempts /\ d.reconciled = e.reconciled
        /\ d.verified = t /\ d.codes = verdict
    BY DEF DecisionOf, ItemDoc, SameContent
  <1>3. d \in ItemDoc
    BY <1>1 DEF DecisionOf, ItemDoc, State
  <1>4. Consistent(d)
    BY <1>1, <1>2 DEF Consistent, SameContent
  <1> QED
    BY <1>2, <1>3, <1>4

\* A presentation that is not taken back by one of these writes.
LEMMA WriteGrows ==
    ASSUME IInv, NEW p \in Items, NEW d \in ItemDoc, item'[p] = d, SameContent(d, item[p]),
           item[p].state \notin Decided, d.state \notin {"ABSENT", "PENDING"},
           Claimed(p) => d.started = item[p].started,
           \/ d.attempts = item[p].attempts /\ d.reconciled = item[p].reconciled
           \/ d.attempts = item[p].attempts + 1
    PROVE  ItemGrows(p)
  <1>1. item[p].version \in Nat /\ item[p].attempts \in Nat
    BY ItemValue, ItemFields
  <1> QED
    BY <1>1 DEF ItemGrows, SameContent, Claimed

-----------------------------------------------------------------------------
\* Verifying a presentation

LEMMA OpenVerifyKeeps ==
    ASSUME IInv, NEW v \in Clients, NEW p \in Items, OpenVerify(v, p) PROVE IInv' /\ Growing
  <1>1. PICK n \in Nat : n = item[p].version
    BY ItemValue, ItemFields
  <1>2. PICK c : c = [Idle EXCEPT !.step = "claim", !.item = p, !.version = n]
    OBVIOUS
  <1>3. c \in Call /\ c.step = "claim" /\ c.item = p /\ c.version = n
    BY <1>2, IdleType DEF Call, VerifierStep, Idle
  <1>4. CallOK(c)
    BY <1>1, <1>3 DEF CallOK, HolderStep, VerifierStep, OpenVerify
  <1>5. CallSet(v, c)
    BY <1>1, <1>2 DEF OpenVerify, CallSet
  <1> QED
    BY <1>3, <1>4, <1>5, Quiet, LooseStay DEF OpenVerify

LEMMA ClaimKeeps == ASSUME IInv, NEW v \in Clients, Claim(v) PROVE IInv' /\ Growing
  <1>1. CASE Ends(v) /\ UNCHANGED item
    BY <1>1, Quiet, LooseStay, EndsIdle, IdleType, IdleOK DEF Claim
  <1>2. CASE /\ ClaimableAt(call[v].item, call[v].version)
             /\ item' = [item EXCEPT ![call[v].item].state = "PROCESSING",
                                     ![call[v].item].started = clock,
                                     ![call[v].item].version = @ + 1]
             /\ call' = [call EXCEPT ![v].step = "inspect"]
    <2>1. PICK b \in Call : b = call[v] /\ CallOK(b)
      BY CallValue
    <2>2. PICK p \in Items : p = b.item /\ item[p].state = "PENDING" /\ b.version = item[p].version
      BY <1>2, <2>1 DEF Claim, CallOK, VerifierStep, ClaimableAt
    <2>3. PICK e \in ItemDoc : e = item[p] /\ Consistent(e)
      BY <2>2 DEF IInv, TypeOK, Stored
    <2>4. PICK t \in Now : t = clock
      BY DEF IInv, TypeOK
    <2>5. PICK d : d = ClaimOf(e, t)
      OBVIOUS
    <2>6. e.state = "PENDING" /\ e.from <= t /\ ItemOK(p)
      BY <2>2, <2>3, <2>4, ItemValue DEF ItemOK
    <2>7. /\ d \in ItemDoc /\ Consistent(d) /\ SameContent(d, e)
          /\ d.state = "PROCESSING" /\ d.started = t
          /\ d.attempts = e.attempts /\ d.reconciled = e.reconciled
      BY <2>3, <2>5, <2>6, ClaimDoc
    <2>8. item' = [item EXCEPT ![p] = d] /\ item'[p] = d
      BY <1>2, <2>1, <2>2, <2>3, <2>4, <2>5 DEF ClaimOf, IInv, TypeOK
    <2>9. ItemGrows(p)
      BY <2>2, <2>3, <2>7, <2>8, WriteGrows DEF Decided, Claimed
    <2>10. ItemOK(p)'
      <3>1. clock' = t /\ t # Never /\ t <= t
        BY <2>4, Constants DEF Claim
      <3> QED
        BY <2>3, <2>4, <2>6, <2>7, <2>8, <3>1 DEF ItemOK, Claimed, SameContent
    <2>11. PICK a : a = [b EXCEPT !.step = "inspect"]
      OBVIOUS
    <2>12. a \in Call /\ a.step = "inspect" /\ a.item = p /\ a.version = b.version
      BY <2>2, <2>11 DEF Call, VerifierStep
    <2>13. CallSet(v, a)
      BY <1>2, <2>1, <2>11 DEF CallSet, IInv, TypeOK
    <2>14. CallOK(a)'
      <3>1. a.version <= item'[p].version
        BY <2>2, <2>3, <2>7, <2>8, <2>12, ItemFields DEF SameContent
      <3> QED
        BY <2>7, <2>8, <2>12, <3>1 DEF CallOK, HolderStep, VerifierStep, Claimed
    <2> QED
      BY <2>7, <2>8, <2>9, <2>10, <2>12, <2>13, <2>14, ItemStep, LooseStay DEF Claim
  <1> QED
    BY <1>1, <1>2 DEF Claim

\* A good verdict as of some time at or after the claim shows the presentation in time,
\* by the end of its own lifetime, whatever that of its challenge.
LEMMA GoodVerdict ==
    ASSUME IInv, NEW p \in Items, NEW at \in Now, NEW intact \in BOOLEAN,
           Verdict(Errors(p, at, intact)) = "NONE", DecidingClaim(item[p]) <= at
    PROVE  Justified(p)
  <1>1. Errors(p, at, intact) = {}
    BY DEF Verdict
  <1>2. EnvelopeErrors(item[p], at) = {}
    BY <1>1 DEF Errors
  <1>3. ~(at > item[p].until)
    BY <1>2 DEF EnvelopeErrors
  <1>4. ASSUME NEW k \in item[p].credentials PROVE credential[k].revoked = Never
    <2>1. k \in Credentials
      BY ItemValue, ItemFields
    <2>2. CredentialErrors(k, item[p].did) = {}
      BY <1>1 DEF Errors
    <2>3. credential[k].status # "REVOKED"
      BY <2>2 DEF CredentialErrors
    <2>4. credential[k].status = "ACTIVE" /\ CredentialOK(k)
      BY <2>1, <2>3 DEF IInv, TypeOK, CredentialDoc
    <2> QED
      BY <2>4 DEF CredentialOK
  <1>5. DecidingClaim(item[p]) <= item[p].until
    <2>1. item[p].until \in Nat /\ item[p].started \in Instant /\ item[p].reconciled \in Instant
      BY ItemValue, ItemFields
    <2>2. DecidingClaim(item[p]) \in Int /\ at \in Int
      BY <2>1 DEF DecidingClaim, Instant, Now, Never
    <2> QED
      BY <1>3, <2>1, <2>2
  <1> QED
    BY <1>4, <1>5 DEF Justified

LEMMA InspectKeeps ==
    ASSUME IInv, NEW v \in Clients, NEW intact \in BOOLEAN, Inspect(v, intact) PROVE IInv' /\ Growing
  <1>1. PICK b \in Call : b = call[v] /\ CallOK(b)
    BY CallValue
  <1>2. PICK p \in Items : p = b.item /\ Claimed(p)
    BY <1>1 DEF Inspect, CallOK, VerifierStep
  <1>3. PICK n \in Nat : n = item[p].version
    BY ItemValue, ItemFields
  <1>4. PICK verdict \in Codes : verdict = Verdict(Errors(p, clock, intact))
    BY DEF Verdict, Codes
  <1>5. PICK a : a = [b EXCEPT !.step = "complete", !.version = n, !.verdict = verdict]
    OBVIOUS
  <1>6. a \in Call /\ a.step = "complete" /\ a.item = p /\ a.version = n /\ a.verdict = verdict
    BY <1>2, <1>5 DEF Call, VerifierStep
  <1>7. CallSet(v, a)
    BY <1>1, <1>2, <1>3, <1>4, <1>5 DEF CallSet, Inspect, IInv, TypeOK
  <1>8. DecidingClaim(item[p]) <= clock /\ clock \in Now
    BY <1>2, ItemValue DEF ItemOK, DecidingClaim, Claimed, IInv, TypeOK
  <1>9. Decides(a)
    BY <1>4, <1>6, <1>8, GoodVerdict DEF Decides
  <1>10. CallOK(a)
    BY <1>2, <1>3, <1>6, <1>9 DEF CallOK, HolderStep, VerifierStep, Claimed
  <1> QED
    BY <1>6, <1>7, <1>10, Quiet, LooseStay DEF Inspect

EventNames == {"CREATED", "VERIFIED", "REJECTED", "RECONCILED", "RECONCILIATION_FAILED"}

\* A decision, by a verifier or a reconciler, whose verdict holds.
LEMMA DecisionKeeps ==
    ASSUME IInv, NEW p \in Items, NEW verdict \in Codes, item[p].state = "PROCESSING",
           verdict = "NONE" => Justified(p), item' = Completed(p, verdict),
           UNCHANGED <<clock, wallet, key, challenge, credential, known, running>>, LooseTypes,
           UNCHANGED call \/ \E x \in Clients : Ends(x),
           UNCHANGED job \/ \E r \in Reconcilers, j \in Job : JobSet(r, j) /\ JobOK(j)'
    PROVE  IInv' /\ Growing
  <1>1. PICK e \in ItemDoc : e = item[p] /\ Consistent(e)
    BY DEF IInv, TypeOK, Stored
  <1>2. PICK t \in Now : t = clock
    BY DEF IInv, TypeOK
  <1>3. PICK d : d = DecisionOf(e, t, verdict)
    OBVIOUS
  <1>4. /\ d \in ItemDoc /\ Consistent(d) /\ SameContent(d, e)
        /\ d.state = (IF verdict = "NONE" THEN "VERIFIED" ELSE "REJECTED")
        /\ d.started = e.started
        /\ d.attempts = e.attempts /\ d.reconciled = e.reconciled
    BY <1>1, <1>3, CompleteDoc
  <1>5. item' = [item EXCEPT ![p] = d] /\ item'[p] = d
    BY <1>1, <1>2, <1>3 DEF Completed, DecisionOf, IInv, TypeOK
  <1>6. d.state \in Decided
    BY <1>4 DEF Decided
  <1>7. ItemGrows(p)
    BY <1>1, <1>4, <1>5, <1>6, WriteGrows DEF Decided, Claimed
  <1>8. ItemOK(p)'
    <2>1. ItemOK(p) /\ Claimed(p)
      BY ItemValue DEF Claimed
    <2>2. d.state = "VERIFIED" => Justified(p)'
      <3> SUFFICES ASSUME d.state = "VERIFIED" PROVE Justified(p)'
        OBVIOUS
      <3>1. Justified(p)
        BY <1>4
      <3>2. DecidingClaim(d) = DecidingClaim(e)
        BY <1>4 DEF DecidingClaim
      <3> QED
        BY <1>1, <1>4, <1>5, <3>1, <3>2 DEF Justified, SameContent
    <2> QED
      BY <1>1, <1>4, <1>5, <2>1, <2>2 DEF ItemOK, Claimed, SameContent
  <1>9. UNCHANGED call \/ \E x \in Clients, c \in Call : CallSet(x, c) /\ CallOK(c)'
    BY EndsIdle, IdleType, IdleOK
  <1>10. d.state # "ABSENT"
    BY <1>6 DEF Decided
  <1> QED
    BY <1>4, <1>5, <1>7, <1>8, <1>9, <1>10, ItemStep

LEMMA CompleteKeeps == ASSUME IInv, NEW v \in Clients, Complete(v) PROVE IInv' /\ Growing
  <1>1. PICK b \in Call : b = call[v] /\ CallOK(b)
    BY CallValue
  <1>2. PICK p \in Items : p = b.item
    BY <1>1 DEF Complete, CallOK, VerifierStep
  <1>3. CASE UNCHANGED <<item, events, mishaps>>
    BY <1>3, Quiet, LooseStay, EndsIdle, IdleType, IdleOK DEF Complete
  <1>4. CASE /\ Completable(p, b.version) /\ item' = Completed(p, b.verdict)
             /\ Record({<<DecisionEvent(b.verdict), p>>})
    <2>1. b.verdict \in Codes
      BY CallFields
    <2>2. item[p].state = "PROCESSING" /\ (b.verdict = "NONE" => Justified(p))
      BY <1>1, <1>2, <1>4 DEF Completable, Complete, CallOK, Decides
    <2>3. LooseTypes
      <3>1. <<DecisionEvent(b.verdict), p>> \in EventNames \X Items
        BY DEF DecisionEvent, EventNames
      <3> QED
        BY <1>4, <3>1, RecordTypes DEF Complete, EventNames
    <2> QED
      BY <1>4, <2>1, <2>2, <2>3, DecisionKeeps DEF Complete
  <1> QED
    BY <1>1, <1>2, <1>3, <1>4 DEF Complete

-----------------------------------------------------------------------------
\* Reconciliation

\* The rest of a batch is as good as none.
LEMMA LeaveType ==
    ASSUME IInv, NEW r \in Reconcilers, NEW p, Leave(r, p)
    PROVE  \E j \in Job : JobSet(r, j) /\ JobOK(j) /\ JobOK(j)'
  <1>1. PICK b \in Job : b = job[r]
    BY JobValue
  <1>2. b.batch \ {p} \in SUBSET Items
    BY JobFields
  <1>3. PICK j : j = Next1(r, p)
    OBVIOUS
  <1>4. j \in Job /\ j.step \in {"idle", "read"}
    <2>1. j = NoJob \/ j = [NoJob EXCEPT !.step = "read", !.batch = b.batch \ {p}]
      BY <1>1, <1>3 DEF Next1
    <2> QED
      BY <1>2, <2>1, NoJobType DEF Job, NoJob
  <1>5. JobOK(j) /\ JobOK(j)'
    BY <1>4 DEF JobOK
  <1> QED
    BY <1>3, <1>4, <1>5 DEF Leave, JobSet

LEMMA OpenCycleKeeps == ASSUME IInv, NEW w \in Workers, OpenCycle(w) PROVE IInv' /\ Growing
  <1>1. PICK B \in Batches : job' = [job EXCEPT ![w] = [NoJob EXCEPT !.step = "read", !.batch = B]]
    BY DEF OpenCycle
  <1>2. B \in SUBSET Items
    BY DEF Batches, StaleItems, Stored
  <1>3. PICK j : j = [NoJob EXCEPT !.step = "read", !.batch = B]
    OBVIOUS
  <1>4. j \in Job /\ j.step = "read"
    BY <1>2, <1>3, NoJobType DEF Job, NoJob
  <1>5. JobOK(j)
    BY <1>4 DEF JobOK
  <1>6. w \in Reconcilers /\ JobSet(w, j)
    BY <1>1, <1>3 DEF Reconcilers, JobSet
  <1> QED
    BY <1>4, <1>5, <1>6, Quiet, LooseStay DEF OpenCycle

LEMMA OpenReconcileKeeps ==
    ASSUME IInv, NEW a \in Admins, NEW p \in Items, OpenReconcile(a, p) PROVE IInv' /\ Growing
  <1>1. PICK n \in Nat : n = item[p].version
    BY ItemValue, ItemFields
  <1>2. PICK t \in Now : t = clock
    BY DEF IInv, TypeOK
  <1>3. PICK j : j = [NoJob EXCEPT !.step = "claim", !.batch = {p}, !.item = p, !.version = n, !.at = t]
    OBVIOUS
  <1>4. j \in Job /\ j.step = "claim" /\ j.item = p /\ j.version = n /\ j.at = t
    BY <1>3, NoJobType, Constants DEF Job, NoJob
  <1>5. JobOK(j)
    <2>1. Claimed(p) /\ n <= n /\ t <= t
      BY Constants DEF OpenReconcile, Claimed
    <2> QED
      BY <1>1, <1>2, <1>4, <2>1 DEF JobOK
  <1>6. a \in Reconcilers /\ JobSet(a, j)
    BY <1>1, <1>2, <1>3 DEF OpenReconcile, Reconcilers, JobSet
  <1> QED
    BY <1>4, <1>5, <1>6, Quiet, LooseStay DEF OpenReconcile

LEMMA ReadItemKeeps ==
    ASSUME IInv, NEW r \in Reconcilers, NEW p \in Items, ReadItem(r, p) PROVE IInv' /\ Growing
  <1>1. CASE item[p].state # "PROCESSING"
    <2>1. Leave(r, p)
      BY <1>1 DEF ReadItem
    <2> QED
      BY <2>1, LeaveType, Quiet, LooseStay DEF ReadItem
  <1>2. CASE item[p].state = "PROCESSING"
    <2>1. PICK n \in Nat : n = item[p].version
      BY ItemValue, ItemFields
    <2>2. PICK t \in Now : t = clock
      BY DEF IInv, TypeOK
    <2>3. PICK b \in Job : b = job[r]
      BY JobValue
    <2>4. PICK j : j = [b EXCEPT !.step = "claim", !.item = p, !.version = n, !.at = t]
      OBVIOUS
    <2>5. j \in Job /\ j.step = "claim" /\ j.item = p /\ j.version = n /\ j.at = t
      BY <2>4, Constants DEF Job
    <2>6. JobOK(j)
      <3>1. Claimed(p) /\ n <= n /\ t <= t
        BY <1>2, Constants DEF Claimed
      <3> QED
        BY <2>1, <2>2, <2>5, <3>1 DEF JobOK
    <2>7. JobSet(r, j)
      BY <1>2, <2>1, <2>2, <2>3, <2>4 DEF ReadItem, JobSet, IInv, TypeOK
    <2> QED
      BY <2>5, <2>6, <2>7, Quiet, LooseStay DEF ReadItem
  <1> QED
    BY <1>1, <1>2

LEMMA ReclaimKeeps == ASSUME IInv, NEW r \in Reconcilers, Reclaim(r) PROVE IInv' /\ Growing
  <1>1. PICK b \in Job : b = job[r] /\ JobOK(b)
    BY JobValue
  <1>2. PICK p \in Items : p = b.item
    BY <1>1 DEF Reclaim, JobOK
  <1>3. CASE Leave(r, p) /\ UNCHANGED item
    BY <1>3, LeaveType, Quiet, LooseStay DEF Reclaim
  <1>4. CASE /\ ReclaimableAt(p, b.version, b.at)
             /\ item' = [item EXCEPT ![p].attempts = @ + 1, ![p].reconciled = b.at,
                                     ![p].version = @ + 1]
             /\ job' = [job EXCEPT ![r].step = "evidence"]
    <2>1. /\ item[p].state = "PROCESSING" /\ item[p].started <= b.at - Stale
          /\ item[p].version = b.version
      BY <1>4 DEF ReclaimableAt
    <2>2. PICK t \in Now : t = b.at /\ t <= clock
      BY <1>1 DEF Reclaim, JobOK
    <2>3. PICK e \in ItemDoc : e = item[p] /\ Consistent(e)
      BY <2>1 DEF IInv, TypeOK, Stored
    <2>4. e.started <= t
      <3>1. e.started \in Int /\ t \in Int /\ Stale \in Nat
        BY ItemFields, Constants DEF Instant, Now, Never
      <3> QED
        BY <2>1, <2>2, <2>3, <3>1
    <2>5. PICK d : d = ReclaimOf(e, t)
      OBVIOUS
    <2>6. /\ d \in ItemDoc /\ Consistent(d) /\ SameContent(d, e)
          /\ d.state = "PROCESSING" /\ d.started = e.started
          /\ d.attempts = e.attempts + 1 /\ d.reconciled = t
      BY <2>1, <2>3, <2>4, <2>5, ReclaimDoc
    <2>7. item' = [item EXCEPT ![p] = d] /\ item'[p] = d
      BY <1>4, <2>2, <2>3, <2>5 DEF ReclaimOf, IInv, TypeOK
    <2>8. ItemGrows(p)
      BY <2>1, <2>3, <2>6, <2>7, WriteGrows DEF Decided, Claimed
    <2>9. ItemOK(p)'
      <3>1. ItemOK(p) /\ clock' = clock
        BY ItemValue DEF Reclaim
      <3> QED
        BY <2>1, <2>2, <2>3, <2>6, <2>7, <3>1 DEF ItemOK, Claimed, SameContent
    <2>10. PICK j : j = [b EXCEPT !.step = "evidence"]
      OBVIOUS
    <2>11. /\ j \in Job /\ j.step = "evidence" /\ j.item = p
           /\ j.version = b.version /\ j.at = t
      BY <1>2, <2>2, <2>10 DEF Job
    <2>12. JobSet(r, j)
      BY <1>1, <1>4, <2>10 DEF JobSet, IInv, TypeOK
    <2>13. JobOK(j)'
      <3>1. e.version \in Nat /\ e.attempts \in Nat
        BY ItemFields
      <3>2. j.version <= item'[p].version /\ item'[p].attempts >= 1
        BY <2>1, <2>3, <2>6, <2>7, <2>11, <3>1 DEF SameContent
      <3>3. clock' = clock
        BY DEF Reclaim
      <3> QED
        BY <2>2, <2>4, <2>6, <2>7, <2>11, <3>2, <3>3 DEF JobOK, Claimed
    <2> QED
      BY <2>6, <2>7, <2>8, <2>9, <2>11, <2>12, <2>13, ItemStep, LooseStay DEF Reclaim
  <1> QED
    BY <1>1, <1>2, <1>3, <1>4 DEF Reclaim

LEMMA EvidenceKeeps == ASSUME IInv, NEW r \in Reconcilers, Evidence(r) PROVE IInv' /\ Growing
  <1>1. PICK b \in Job : b = job[r] /\ JobOK(b)
    BY JobValue
  <1>2. PICK p \in Items : p = b.item /\ Claimed(p)
    BY <1>1 DEF Evidence, JobOK
  <1>3. PICK e \in ItemDoc : e = item[p]
    BY ItemValue
  <1>4. ASSUME NEW step \in {"inspect", "complete"}, NEW verdict \in Codes,
               verdict = "NONE" => step = "inspect",
               job' = [job EXCEPT ![r].step = step, ![r].verdict = verdict, ![r].version = e.version]
        PROVE  \E j \in Job : JobSet(r, j) /\ JobOK(j)
    <2>1. PICK n \in Nat : n = e.version
      BY ItemFields
    <2>2. PICK j : j = [b EXCEPT !.step = step, !.verdict = verdict, !.version = n]
      OBVIOUS
    <2>3. /\ j \in Job /\ j.step = step /\ j.item = p /\ j.at = b.at /\ j.version = n
          /\ j.verdict = verdict
      BY <1>2, <2>2 DEF Job
    <2>4. b.step = "evidence" /\ n <= n
      BY <1>1 DEF Evidence
    <2>5. j.step = "complete" => Decides(j)
      BY <1>4, <2>3 DEF Decides
    <2>6. JobOK(j)
      BY <1>1, <1>2, <1>3, <2>1, <2>3, <2>4, <2>5 DEF JobOK
    <2>7. JobSet(r, j)
      BY <1>1, <1>4, <2>1, <2>2 DEF JobSet, IInv, TypeOK
    <2> QED
      BY <2>3, <2>6, <2>7
  <1>5. /\ \/ job' = [job EXCEPT ![r] = NoJob]
           \/ job' = [job EXCEPT ![r].step = "complete", ![r].verdict = "EVIDENCE_INCOMPLETE",
                                 ![r].version = e.version]
           \/ job' = [job EXCEPT ![r].step = "inspect", ![r].verdict = "NONE",
                                 ![r].version = e.version]
        /\ known' = known \/ known' = known \cup Seen(e.wallet, e.did)
        /\ running' = running \/ running' = running \ {r}
        /\ UNCHANGED <<clock, wallet, key, challenge, item, credential, call, events, mishaps>>
    BY <1>1, <1>2, <1>3 DEF Evidence
  <1>6. \E j \in Job : JobSet(r, j) /\ JobOK(j)
    <2>1. "EVIDENCE_INCOMPLETE" \in Codes /\ "NONE" \in Codes
      BY DEF Codes
    <2>2. CASE job' = [job EXCEPT ![r] = NoJob]
      BY <2>2, NoJobType, NoJobOK DEF JobSet
    <2> QED
      BY <1>4, <1>5, <2>1, <2>2
  <1>7. LooseTypes
    <2>1. e.did \in Did
      BY <1>2, <1>3, ItemValue DEF ItemOK, Claimed
    <2>2. known' \in SUBSET Did
      BY <1>5, <2>1, SeenType DEF IInv, TypeOK
    <2> QED
      BY <1>5, <2>2 DEF LooseTypes, IInv, TypeOK
  <1> QED
    BY <1>5, <1>6, <1>7, Quiet

LEMMA InspectAgainKeeps ==
    ASSUME IInv, NEW r \in Reconcilers, InspectAgain(r) PROVE IInv' /\ Growing
  <1>1. PICK b \in Job : b = job[r] /\ JobOK(b)
    BY JobValue
  <1>2. b.step = "inspect"
    BY <1>1 DEF InspectAgain
  <1>3. PICK p \in Items : p = b.item /\ Claimed(p) /\ b.at \in Now
    BY <1>1, <1>2 DEF JobOK
  <1>4. PICK verdict \in Codes : verdict = Verdict(Errors(p, b.at, TRUE))
    BY DEF Verdict, Codes
  <1>5. PICK j : j = [b EXCEPT !.step = "complete", !.verdict = verdict]
    OBVIOUS
  <1>6. /\ j \in Job /\ j.step = "complete" /\ j.item = p /\ j.at = b.at /\ j.version = b.version
        /\ j.verdict = verdict
    BY <1>3, <1>5 DEF Job
  <1>7. JobSet(r, j)
    BY <1>1, <1>3, <1>4, <1>5 DEF InspectAgain, JobSet, IInv, TypeOK
  <1>8. DecidingClaim(item[p]) <= b.at
    <2>1. /\ item[p].started <= b.at
          /\ item[p].attempts = 1 => item[p].reconciled = b.at
      BY <1>1, <1>2, <1>3 DEF JobOK
    <2>2. b.at <= b.at
      BY <1>3 DEF Now
    <2> QED
      BY <2>1, <2>2 DEF DecidingClaim
  <1>9. Decides(j)
    BY <1>3, <1>4, <1>6, <1>8, GoodVerdict DEF Decides
  <1>10. JobOK(j)
    BY <1>1, <1>2, <1>3, <1>6, <1>9 DEF JobOK
  <1> QED
    BY <1>6, <1>7, <1>10, Quiet, LooseStay DEF InspectAgain

LEMMA CompleteAgainKeeps ==
    ASSUME IInv, NEW r \in Reconcilers, CompleteAgain(r) PROVE IInv' /\ Growing
  <1>1. PICK b \in Job : b = job[r] /\ JobOK(b)
    BY JobValue
  <1>2. PICK p \in Items : p = b.item
    BY <1>1 DEF CompleteAgain, JobOK
  <1>3. \E j \in Job : JobSet(r, j) /\ JobOK(j) /\ JobOK(j)'
    BY LeaveType DEF CompleteAgain
  <1>4. CASE UNCHANGED <<item, events, mishaps>>
    BY <1>3, <1>4, Quiet, LooseStay DEF CompleteAgain
  <1>5. CASE /\ Completable(p, b.version) /\ item' = Completed(p, b.verdict)
             /\ Record({<<DecisionEvent(b.verdict), p>>, <<ReconciliationEvent(b.verdict), p>>})
    <2>1. b.verdict \in Codes
      BY JobFields
    <2>2. item[p].state = "PROCESSING" /\ (b.verdict = "NONE" => Justified(p))
      BY <1>1, <1>2, <1>5 DEF Completable, CompleteAgain, JobOK, Decides
    <2>3. LooseTypes
      <3>1. {<<DecisionEvent(b.verdict), p>>, <<ReconciliationEvent(b.verdict), p>>}
                \in SUBSET (EventNames \X Items)
        BY DEF DecisionEvent, ReconciliationEvent, EventNames
      <3> QED
        BY <1>5, <3>1, RecordTypes DEF CompleteAgain, EventNames
    <2> QED
      BY <1>3, <1>5, <2>1, <2>2, <2>3, DecisionKeeps DEF CompleteAgain
  <1> QED
    BY <1>1, <1>2, <1>4, <1>5 DEF CompleteAgain

-----------------------------------------------------------------------------
\* Wallets, keys, credentials, time and failures

\* What most of these leave alone.
LEMMA Surroundings ==
    ASSUME IInv
    PROVE  /\ clock \in Now /\ clock >= clock /\ wallet \in [Wallets -> WalletDoc]
           /\ key \in [Managed -> BOOLEAN] /\ DOMAIN key = Managed /\ Managed \subseteq Wallets
           /\ credential \in [Credentials -> CredentialDoc] /\ mishaps \in 0 .. MaxMishaps
  BY DEF IInv, TypeOK, Now, Managed

LEMMA CredentialsStay ==
    ASSUME UNCHANGED credential PROVE \A k \in Credentials : CredentialGrows(k)
  BY DEF CredentialGrows

LEMMA CloseKeeps ==
    ASSUME IInv, NEW w \in Wallets, NEW target \in WalletStatus, Close(w, target)
    PROVE  IInv' /\ Growing
  <1>1. wallet' \in [Wallets -> WalletDoc]
    <2>1. PICK e \in WalletDoc : e = wallet[w]
      BY Surroundings
    <2>2. PICK d : d = [e EXCEPT !.status = target, !.version = @ + 1]
      OBVIOUS
    <2>3. e.version + 1 \in Nat \ {0}
      BY DEF WalletDoc
    <2>4. d \in WalletDoc
      BY <2>2, <2>3 DEF WalletDoc
    <2>5. wallet' = [wallet EXCEPT ![w] = d]
      BY <2>1, <2>2, Surroundings DEF Close
    <2> QED
      BY <2>4, <2>5, Surroundings
  <1> QED
    BY <1>1, Outside, Surroundings, CredentialsStay, MishapType DEF Close, Managed

LEMMA KeyKeeps ==
    ASSUME IInv, NEW w \in Managed, Suspend(w) \/ Resume(w) PROVE IInv' /\ Growing
  <1>1. key' \in [Managed -> BOOLEAN] /\ DOMAIN key' = Managed
    BY Surroundings DEF Suspend, Resume
  <1>2. mishaps' \in 0 .. MaxMishaps
    BY Surroundings, MishapType DEF Suspend, Resume
  <1> QED
    BY <1>1, <1>2, Outside, Surroundings, CredentialsStay DEF Suspend, Resume

LEMMA RotateKeeps == ASSUME IInv, NEW w \in Managed, Rotate(w) PROVE IInv' /\ Growing
  <1>1. wallet' \in [Wallets -> WalletDoc]
    <2>1. PICK e \in WalletDoc : e = wallet[w]
      BY Surroundings
    <2>2. e.did \in Did /\ e.version + 1 \in Nat \ {0} /\ w \in Wallets
      BY Surroundings DEF WalletDoc
    <2>3. e.did[2] \in 0 .. MaxRotations /\ e.did[2] < MaxRotations
      BY <2>1, <2>2 DEF Did, Rotate
    <2>4. PICK n \in 0 .. MaxRotations : n = e.did[2] + 1
      BY <2>3, Constants
    <2>5. <<w, n>> \in Did
      BY <2>2 DEF Did
    <2>6. PICK d : d = [e EXCEPT !.did = <<w, n>>, !.version = @ + 1]
      OBVIOUS
    <2>7. d \in WalletDoc
      BY <2>2, <2>5, <2>6 DEF WalletDoc
    <2>8. wallet' = [wallet EXCEPT ![w] = d]
      BY <2>1, <2>4, <2>6, Surroundings DEF Rotate
    <2> QED
      BY <2>7, <2>8, Surroundings
  <1> QED
    BY <1>1, Outside, Surroundings, CredentialsStay, MishapType DEF Rotate, Managed

LEMMA RevokeKeeps == ASSUME IInv, NEW k \in Credentials, Revoke(k) PROVE IInv' /\ Growing
  <1>1. credential' \in [Credentials -> CredentialDoc]
    BY Surroundings, Constants DEF Revoke, CredentialDoc
  <1>2. \A c \in Credentials : CredentialGrows(c)
    BY Surroundings DEF Revoke, CredentialGrows
  <1> QED
    BY <1>1, <1>2, Outside, Surroundings, MishapType DEF Revoke, Managed

LEMMA TickKeeps == ASSUME IInv, Tick PROVE IInv' /\ Growing
  <1>1. clock' \in Now /\ clock' >= clock
    BY Surroundings, Constants DEF Tick, Now
  <1> QED
    BY <1>1, Outside, Surroundings, CredentialsStay DEF Tick, Managed

LEMMA CallFailsKeeps == ASSUME IInv, NEW x \in Clients, CallFails(x) PROVE IInv' /\ Growing
  <1>1. LooseTypes
    BY MishapType DEF CallFails, LooseTypes, IInv, TypeOK
  <1> QED
    BY <1>1, Quiet, EndsIdle, IdleType, IdleOK DEF CallFails

LEMMA JobFailsKeeps == ASSUME IInv, NEW r \in Reconcilers, JobFails(r) PROVE IInv' /\ Growing
  <1>1. LooseTypes
    BY MishapType DEF JobFails, LooseTypes, IInv, TypeOK
  <1> QED
    BY <1>1, Quiet, LeaveType DEF JobFails

LEMMA RestartKeeps == ASSUME IInv, Restart PROVE IInv' /\ Growing
  <1>1. /\ UNCHANGED <<clock, wallet, key, challenge, item, credential, events>>
        /\ call' = [x \in Clients |-> Idle] /\ job' = [r \in Reconcilers |-> NoJob]
        /\ running' = Workers /\ known' = {} /\ mishaps' \in 0 .. MaxMishaps
    BY MishapType DEF Restart
  <1>2. TypeOK'
    BY <1>1, IdleType, NoJobType DEF IInv, TypeOK, Managed, Stored
  <1>3. Growing /\ \A p \in Items : ItemOK(p)'
    <2>1. clock' \in Now /\ clock' >= clock
      BY <1>1, Surroundings
    <2>2. \A c \in Challenges : ChallengeGrows(c)
      BY <1>1 DEF ChallengeGrows
    <2> QED
      BY <1>1, <1>2, <2>1, <2>2, CredentialsStay, ItemsStay
  <1>4. ASSUME NEW x \in Clients PROVE CallOK(call[x])'
    BY <1>1, IdleType DEF CallOK, HolderStep, VerifierStep
  <1>5. ASSUME NEW r \in Reconcilers PROVE JobOK(job[r])'
    BY <1>1, NoJobType DEF JobOK
  <1>6. \A c \in Challenges : ChallengeOK(c)'
    BY <1>1 DEF IInv, ChallengeOK
  <1>7. \A k \in Credentials : CredentialOK(k)' /\ credential'[k].revoked <= clock'
    BY <1>1 DEF IInv, CredentialOK
  <1> QED
    BY <1>2, <1>3, <1>4, <1>5, <1>6, <1>7 DEF IInv

-----------------------------------------------------------------------------
\* The invariant

LEMMA Initially == Init => IInv
  <1> SUFFICES ASSUME Init PROVE IInv
    OBVIOUS
  <1>1. 0 \in Now /\ Never <= 0 /\ 0 \in Nat
    BY Constants DEF Now, Never
  <1>2. wallet \in [Wallets -> WalletDoc]
    <2>1. \A w \in Wallets : <<w, 0>> \in Did
      BY Constants DEF Did
    <2> QED
      BY <2>1 DEF Init, WalletDoc, WalletStatus
  <1>3. challenge \in [Challenges -> ChallengeDoc]
    BY DEF Init, NoChallenge, ChallengeDoc, ChallengeStatus
  <1>4. item \in [Items -> ItemDoc]
    <2>1. NoItem \in ItemDoc
      BY <1>1, Constants DEF NoItem, ItemDoc, State, Codes
    <2> QED
      BY <2>1 DEF Init
  <1>5. credential \in [Credentials -> CredentialDoc]
    BY Constants DEF Init, CredentialDoc
  <1>6. TypeOK
    <2>1. Managed \subseteq Wallets /\ key \in [Managed -> BOOLEAN]
      BY DEF Init, Managed
    <2>2. Stored = {}
      BY DEF Init, Stored, NoItem
    <2>3. clock \in Now /\ call \in [Clients -> Call] /\ job \in [Reconcilers -> Job]
      BY <1>1, IdleType, NoJobType DEF Init
    <2>4. /\ known \subseteq Did /\ running \subseteq Workers /\ mishaps \in 0 .. MaxMishaps
          /\ events = {}
      BY Constants DEF Init
    <2> QED
      BY <1>2, <1>3, <1>4, <1>5, <2>1, <2>2, <2>3, <2>4 DEF TypeOK
  <1>7. \A p \in Items : ItemOK(p)
    BY DEF Init, NoItem, ItemOK, Claimed
  <1>8. \A x \in Clients : CallOK(call[x])
    BY IdleOK DEF Init
  <1>9. \A r \in Reconcilers : JobOK(job[r])
    BY NoJobOK DEF Init
  <1>10. \A k \in Credentials : CredentialOK(k) /\ credential[k].revoked <= clock
    BY <1>1 DEF Init, CredentialOK
  <1>11. \A c \in Challenges : ChallengeOK(c)
    BY DEF Init, ChallengeOK, NoChallenge
  <1> QED
    BY <1>6, <1>7, <1>8, <1>9, <1>10, <1>11 DEF IInv

LEMMA InvariantNext == ASSUME IInv, [Next]_vars PROVE IInv' /\ Growing
  <1>1. ASSUME NEW x \in Clients, HolderNext(x) \/ VerifierNext(x) PROVE IInv' /\ Growing
    BY <1>1, OpenCreateKeeps, ReadChallengeKeeps, BuildKeeps, InsertKeeps, ConsumeKeeps,
       OpenVerifyKeeps, InspectKeeps, ClaimKeeps, CompleteKeeps
       DEF HolderNext, VerifierNext
  <1>2. ASSUME NEW r \in Reconcilers, JobStep(r) PROVE IInv' /\ Growing
    BY <1>2, ReadItemKeeps, ReclaimKeeps, EvidenceKeeps, InspectAgainKeeps, CompleteAgainKeeps
       DEF JobStep
  <1>3. CASE Environment
    BY <1>3, IssueKeeps, ReadOverdueKeeps, CloseKeeps, KeyKeeps, RotateKeeps, RevokeKeeps,
       CallFailsKeeps, JobFailsKeeps, TickKeeps, RestartKeeps DEF Environment
  <1>4. CASE UNCHANGED vars
    BY <1>4, Quiet, LooseStay DEF vars
  <1> QED
    BY <1>1, <1>2, <1>3, <1>4, OpenCycleKeeps, OpenReconcileKeeps DEF Next

\* The invariant holds, for any number of wallets, challenges, presentations, requests
\* and workers.
THEOREM Invariant == Spec => []IInv
  <1> QED
    BY Initially, InvariantNext, PTL DEF Spec

\* Whatever is stored of a presentation passes the checks of its constructor.
THEOREM TypeCorrect == Spec => []TypeOK
  <1>1. IInv => TypeOK
    BY DEF IInv
  <1> QED
    BY <1>1, Invariant, PTL

\* No verdict of a superseded claim is stored: a VERIFIED presentation, with each of its
\* credentials, was good at the claim that decided it.
THEOREM VerdictsHold == Spec => []VerifiedAsClaimed
  <1>1. IInv => VerifiedAsClaimed
    BY DEF IInv, ItemOK, Justified, VerifiedAsClaimed, Stored
  <1> QED
    BY <1>1, Invariant, PTL

-----------------------------------------------------------------------------
\* The audit trail

\* The events of a step: those of its own decision.
LEMMA EventsOfStep ==
    ASSUME IInv, [Next]_vars, NEW p \in Items, NEW verdict \in Decided,
           <<verdict, p>> \in events', <<verdict, p>> \notin events
    PROVE  item'[p].state = verdict
  <1>1. ASSUME NEW c \in Codes, NEW q \in Items, item' = Completed(q, c),
               \/ Record({<<DecisionEvent(c), q>>})
               \/ Record({<<DecisionEvent(c), q>>, <<ReconciliationEvent(c), q>>})
        PROVE  item'[p].state = verdict
    <2>1. \/ <<verdict, p>> = <<DecisionEvent(c), q>>
          \/ <<verdict, p>> = <<ReconciliationEvent(c), q>>
      BY <1>1 DEF Record
    <2>2. verdict = DecisionEvent(c) /\ p = q
      BY <2>1 DEF ReconciliationEvent, Decided
    <2>3. item'[q].state = IF c = "NONE" THEN "VERIFIED" ELSE "REJECTED"
      BY <1>1 DEF Completed, IInv, TypeOK, ItemDoc
    <2> QED
      BY <2>2, <2>3 DEF DecisionEvent
  <1>2. events' # events
    OBVIOUS
  <1>3. \/ \E h \in Clients, q \in Items : Insert(h, q)
        \/ \E v \in Clients : Complete(v)
        \/ \E r \in Reconcilers : CompleteAgain(r)
    BY <1>2 DEF Next, HolderNext, VerifierNext, JobStep, Environment, OpenCreate, ReadChallenge,
       Build, Consume, OpenVerify, Inspect, Claim, OpenCycle, OpenReconcile, ReadItem, Reclaim,
       Evidence, InspectAgain, Issue, ReadOverdue, Close, Suspend, Resume, Rotate, Revoke,
       CallFails, JobFails, Tick, Restart, vars
  <1>4. ASSUME NEW h \in Clients, NEW q \in Items, Insert(h, q) PROVE FALSE
    <2>1. events' \subseteq events \cup {<<"CREATED", q>>}
      BY <1>4 DEF Insert, Record
    <2> QED
      BY <2>1 DEF Decided
  <1>5. ASSUME NEW v \in Clients, Complete(v) PROVE item'[p].state = verdict
    <2>1. PICK b \in Call : b = call[v] /\ CallOK(b)
      BY CallValue
    <2>2. b.item \in Items /\ b.verdict \in Codes
      BY <1>5, <2>1, CallFields DEF Complete, CallOK, VerifierStep
    <2>3. item' = Completed(b.item, b.verdict) /\ Record({<<DecisionEvent(b.verdict), b.item>>})
      BY <1>2, <1>5, <2>1 DEF Complete
    <2> QED
      BY <1>1, <2>2, <2>3
  <1>6. ASSUME NEW r \in Reconcilers, CompleteAgain(r) PROVE item'[p].state = verdict
    <2>1. PICK b \in Job : b = job[r] /\ JobOK(b)
      BY JobValue
    <2>2. b.item \in Items /\ b.verdict \in Codes
      BY <1>6, <2>1, JobFields DEF CompleteAgain, JobOK
    <2>3. /\ item' = Completed(b.item, b.verdict)
          /\ Record({<<DecisionEvent(b.verdict), b.item>>, <<ReconciliationEvent(b.verdict), b.item>>})
      BY <1>2, <1>6, <2>1 DEF CompleteAgain
    <2> QED
      BY <1>1, <2>2, <2>3
  <1> QED
    BY <1>3, <1>4, <1>5, <1>6

\* The audit trail tells no decision but the one that is stored, however many calls
\* decide one presentation.
THEOREM AuditIsTrue == Spec => []AuditTruthful
  <1>1. Init => AuditTruthful
    BY DEF Init, AuditTruthful
  <1>2. IInv /\ AuditTruthful /\ [Next]_vars => AuditTruthful'
    <2> SUFFICES ASSUME IInv, AuditTruthful, [Next]_vars, NEW p \in Items, NEW verdict \in Decided,
                        <<verdict, p>> \in events'
                 PROVE  item'[p].state = verdict
      BY DEF AuditTruthful
    <2>1. CASE <<verdict, p>> \in events
      <3>1. item[p].state = verdict
        BY <2>1 DEF AuditTruthful
      <3>2. item[p].state \in Decided /\ item[p].state # "ABSENT"
        BY <3>1 DEF Decided
      <3>3. item'[p] = item[p]
        BY <3>2, InvariantNext DEF Growing, ItemGrows
      <3> QED
        BY <3>1, <3>3
    <2> QED
      BY <2>1, EventsOfStep
  <1> QED
    BY <1>1, <1>2, Invariant, PTL DEF Spec

-----------------------------------------------------------------------------
\* Single use: what a challenge was consumed for is one call or one presentation

Consumes(h, c) == call[h].step \in {"build", "insert"} /\ call[h].challenge = c
Product(p, c) == item[p].state # "ABSENT" /\ item[p].challenge = c

UsedOnce(c) ==
    /\ \A g, h \in Clients : Consumes(g, c) /\ Consumes(h, c) => g = h
    /\ \A p, q \in Items : Product(p, c) /\ Product(q, c) => p = q
    /\ \A h \in Clients, p \in Items : ~(Consumes(h, c) /\ Product(p, c))
    /\ \A h \in Clients : Consumes(h, c) => challenge[c].status = "CONSUMED"
    /\ \A p \in Items : Product(p, c) => challenge[c].status = "CONSUMED"

\* A call consumes a challenge only by the write that found it ISSUED.
LEMMA Consumers ==
    ASSUME IInv, [Next]_vars, NEW h \in Clients, NEW c \in Challenges, Consumes(h, c)'
    PROVE  \/ Consumes(h, c)
           \/ Consume(h) /\ ConsumableBy(h) /\ call[h].challenge = c
  <1>1. PICK b \in Call : b = call[h]
    BY CallValue
  <1>2. CASE call'[h] = call[h]
    <2>1. Consumes(h, c)
      BY <1>2 DEF Consumes
    <2> QED
      BY <2>1
  <1>3. ASSUME NEW a, CallSet(h, a), a.step \notin {"build", "insert"} PROVE FALSE
    BY <1>3 DEF CallSet, Consumes, IInv, TypeOK
  <1>4. ASSUME Ends(h) PROVE FALSE
    BY <1>3, <1>4, EndsIdle, IdleType
  <1>5. CASE \E p \in Items : OpenVerify(h, p)
    <2>1. PICK p, n : CallSet(h, [Idle EXCEPT !.step = "claim", !.item = p, !.version = n])
      BY <1>5 DEF OpenVerify, CallSet
    <2>2. PICK a : a = [Idle EXCEPT !.step = "claim", !.item = p, !.version = n]
      OBVIOUS
    <2>3. a.step = "claim"
      BY <2>2 DEF Idle
    <2> QED
      BY <1>3, <2>1, <2>2, <2>3
  <1>6. CASE \E w \in Wallets : OpenCreate(h, w)
    <2>1. PICK w \in Wallets, ks \in SUBSET Credentials :
            CallSet(h, [Idle EXCEPT !.step = "challenge", !.wallet = w, !.did = wallet[w].did,
                                    !.from = clock, !.credentials = ks])
      BY <1>6 DEF OpenCreate, CallSet
    <2>2. PICK a : a = [Idle EXCEPT !.step = "challenge", !.wallet = w, !.did = wallet[w].did,
                                    !.from = clock, !.credentials = ks]
      OBVIOUS
    <2>3. a.step = "challenge"
      BY <2>2 DEF Idle
    <2> QED
      BY <1>3, <2>1, <2>2, <2>3
  <1>7. ASSUME NEW s, NEW a, s \in {"consume", "inspect", "complete"}, call'[h] = a, a.step = s
        PROVE  FALSE
    BY <1>7 DEF Consumes
  <1>8. CASE \E d \in Challenges : ReadChallenge(h, d)
    <2>1. call'[h].step = "consume"
      BY <1>1, <1>4, <1>8 DEF ReadChallenge, Call, IInv, TypeOK
    <2> QED
      BY <2>1 DEF Consumes
  <1>9. CASE Claim(h)
    <2>1. call'[h].step = "inspect"
      BY <1>1, <1>4, <1>9 DEF Claim, Call, IInv, TypeOK
    <2> QED
      BY <2>1 DEF Consumes
  <1>10. CASE \E intact \in BOOLEAN : Inspect(h, intact)
    <2>1. call'[h].step = "complete"
      BY <1>1, <1>10 DEF Inspect, Call, IInv, TypeOK
    <2> QED
      BY <2>1 DEF Consumes
  <1>11. CASE \E conflict \in BOOLEAN : Build(h, conflict)
    <2>1. call[h].step = "build" /\ call'[h].challenge = call[h].challenge
      BY <1>1, <1>4, <1>11 DEF Build, Call, IInv, TypeOK
    <2>2. Consumes(h, c)
      BY <2>1 DEF Consumes
    <2> QED
      BY <2>2
  <1>12. CASE Consume(h)
    <2>1. ConsumableBy(h) /\ call'[h].challenge = call[h].challenge
      BY <1>1, <1>4, <1>12 DEF Consume, Call, IInv, TypeOK
    <2>2. call[h].challenge = c
      BY <2>1 DEF Consumes
    <2> QED
      BY <1>12, <2>1, <2>2
  <1>13. CASE Restart
    BY <1>13, IdleType DEF Restart, Consumes
  <1>14. CASE Complete(h) \/ (\E p \in Items : Insert(h, p)) \/ CallFails(h)
    BY <1>4, <1>14 DEF Complete, Insert, CallFails
  <1>15. ASSUME NEW x \in Clients, HolderNext(x) \/ VerifierNext(x) \/ CallFails(x), x # h
         PROVE  call'[h] = call[h]
    <2>1. \/ \E w \in Wallets : OpenCreate(x, w)
          \/ \E d \in Challenges : ReadChallenge(x, d)
          \/ \E conflict \in BOOLEAN : Build(x, conflict)
          \/ \E p \in Items : Insert(x, p)
          \/ \E p \in Items : OpenVerify(x, p)
          \/ \E intact \in BOOLEAN : Inspect(x, intact)
          \/ Consume(x) \/ Claim(x) \/ Complete(x) \/ CallFails(x)
      BY <1>15 DEF HolderNext, VerifierNext
    <2>2. \A v : [call EXCEPT ![x] = v][h] = call[h]
      BY <1>15 DEF IInv, TypeOK
    <2>3. CASE \/ \E w \in Wallets : OpenCreate(x, w)
               \/ \E p \in Items : OpenVerify(x, p)
               \/ \E p \in Items : Insert(x, p)
               \/ Complete(x) \/ CallFails(x)
      BY <2>2, <2>3 DEF OpenCreate, OpenVerify, Insert, Complete, CallFails, Ends
    <2>4. CASE \/ \E d \in Challenges : ReadChallenge(x, d)
               \/ \E conflict \in BOOLEAN : Build(x, conflict)
               \/ \E intact \in BOOLEAN : Inspect(x, intact)
               \/ Consume(x) \/ Claim(x)
      BY <1>15, <2>4 DEF ReadChallenge, Build, Inspect, Consume, Claim, Ends, IInv, TypeOK
    <2> QED
      BY <2>1, <2>3, <2>4
  <1>16. \/ UNCHANGED call \/ Restart
         \/ \E x \in Clients : HolderNext(x) \/ VerifierNext(x) \/ CallFails(x)
    BY DEF Next, Environment, JobStep, OpenCycle, OpenReconcile, ReadItem, Reclaim, Evidence,
       InspectAgain, CompleteAgain, Issue, ReadOverdue, Close, Suspend, Resume, Rotate, Revoke,
       JobFails, Tick, vars
  <1>17. CASE HolderNext(h) \/ VerifierNext(h) \/ CallFails(h)
    BY <1>5, <1>6, <1>8, <1>9, <1>10, <1>11, <1>12, <1>14, <1>17 DEF HolderNext, VerifierNext
  <1> QED
    BY <1>2, <1>13, <1>15, <1>16, <1>17

\* A presentation is made of a challenge only by the insertion that found no other.
LEMMA Products ==
    ASSUME IInv, [Next]_vars, NEW p \in Items, NEW c \in Challenges, Product(p, c)'
    PROVE  \/ Product(p, c)
           \/ \E h \in Clients : /\ Insert(h, p) /\ Insertable(c) /\ call[h].challenge = c
                                 /\ \A q \in Items \ {p} : item'[q] = item[q]
  <1>1. CASE item'[p] = item[p]
    BY <1>1 DEF Product
  <1>2. ASSUME NEW h \in Clients, NEW q \in Items, Insert(h, q), item'[p] # item[p]
        PROVE  /\ p = q /\ Insertable(c) /\ call[h].challenge = c
               /\ \A o \in Items \ {p} : item'[o] = item[o]
    <2>1. PICK life \in Lives : /\ Insertable(call[h].challenge)
                                /\ item' = [item EXCEPT ![q] = NewItem(call[h], life)]
      BY <1>2 DEF Insert
    <2>2. p = q /\ item'[p] = NewItem(call[h], life) /\ \A o \in Items \ {p} : item'[o] = item[o]
      BY <1>2, <2>1 DEF IInv, TypeOK
    <2>3. call[h].challenge = c
      BY <2>2 DEF Product, NewItem
    <2> QED
      BY <2>1, <2>2, <2>3
  <1>3. ASSUME item[p].state # "ABSENT", item'[p].challenge = item[p].challenge PROVE Product(p, c)
    BY <1>3 DEF Product
  <1>4. ASSUME NEW v \in Clients, Claim(v), item'[p] # item[p] PROVE Product(p, c)
    <2>1. /\ ClaimableAt(call[v].item, call[v].version)
          /\ item' = [item EXCEPT ![call[v].item].state = "PROCESSING",
                                  ![call[v].item].started = clock,
                                  ![call[v].item].version = @ + 1]
      BY <1>4 DEF Claim
    <2>2. p = call[v].item
      BY <1>4, <2>1 DEF IInv, TypeOK
    <2>3. item'[p].challenge = item[p].challenge
      BY <2>1, <2>2 DEF IInv, TypeOK, ItemDoc
    <2> QED
      BY <1>3, <2>1, <2>2, <2>3 DEF ClaimableAt
  <1>5. ASSUME NEW r \in Reconcilers, Reclaim(r), item'[p] # item[p] PROVE Product(p, c)
    <2>1. /\ ReclaimableAt(job[r].item, job[r].version, job[r].at)
          /\ item' = [item EXCEPT ![job[r].item].attempts = @ + 1,
                                  ![job[r].item].reconciled = job[r].at,
                                  ![job[r].item].version = @ + 1]
      BY <1>5 DEF Reclaim
    <2>2. p = job[r].item
      BY <1>5, <2>1 DEF IInv, TypeOK
    <2>3. item'[p].challenge = item[p].challenge
      BY <2>1, <2>2 DEF IInv, TypeOK, ItemDoc
    <2> QED
      BY <1>3, <2>1, <2>2, <2>3 DEF ReclaimableAt
  <1>6. ASSUME NEW q, NEW n, NEW verdict, Completable(q, n), item' = Completed(q, verdict),
               item'[p] # item[p]
        PROVE  Product(p, c)
    <2>1. p = q
      BY <1>6 DEF Completed, IInv, TypeOK
    <2>2. item'[p].challenge = item[p].challenge
      BY <1>6, <2>1 DEF Completed, IInv, TypeOK, ItemDoc
    <2> QED
      BY <1>3, <1>6, <2>1, <2>2 DEF Completable
  <1>7. CASE (\E v \in Clients : Complete(v)) \/ (\E r \in Reconcilers : CompleteAgain(r))
    BY <1>1, <1>6, <1>7 DEF Complete, CompleteAgain
  <1>8. \/ UNCHANGED item
        \/ \E h \in Clients, q \in Items : Insert(h, q)
        \/ \E v \in Clients : Claim(v) \/ Complete(v)
        \/ \E r \in Reconcilers : Reclaim(r) \/ CompleteAgain(r)
    BY DEF Next, HolderNext, VerifierNext, JobStep, Environment, OpenCreate, ReadChallenge,
       Build, Consume, OpenVerify, Inspect, OpenCycle, OpenReconcile, ReadItem,
       Evidence, InspectAgain, Issue, ReadOverdue, Close, Suspend, Resume, Rotate, Revoke,
       CallFails, JobFails, Tick, Restart, vars
  <1> QED
    BY <1>1, <1>2, <1>4, <1>5, <1>7, <1>8

\* The call that consumes a challenge has found it unused, and the others go on.
LEMMA ConsumptionFacts ==
    ASSUME IInv, NEW h \in Clients, Consume(h), ConsumableBy(h)
    PROVE  /\ challenge[call[h].challenge].status = "ISSUED"
           /\ challenge'[call[h].challenge].status = "CONSUMED"
           /\ item' = item /\ \A g \in Clients \ {h} : call'[g] = call[g]
  <1>1. PICK b \in Call : b = call[h] /\ CallOK(b)
    BY CallValue
  <1>2. b.challenge \in Challenges /\ challenge[b.challenge] \in ChallengeDoc
    BY <1>1 DEF Consume, CallOK, IInv, TypeOK
  <1>3. PICK c \in Challenges : c = b.challenge
    BY <1>2
  <1>4. challenge' = [challenge EXCEPT ![c].status = "CONSUMED", ![c].version = @ + 1]
    BY <1>1, <1>3 DEF Consume
  <1>5. challenge'[c].status = "CONSUMED"
    BY <1>4 DEF IInv, TypeOK, ChallengeDoc
  <1>6. \A g \in Clients \ {h} : call'[g] = call[g]
    BY DEF Consume, IInv, TypeOK
  <1> QED
    BY <1>1, <1>3, <1>5, <1>6 DEF Consume, ConsumableBy

LEMMA UsedOnceNext ==
    ASSUME IInv, [Next]_vars, NEW c \in Challenges, UsedOnce(c)
    PROVE  UsedOnce(c)'
  <1>1. ChallengeGrows(c)
    BY InvariantNext DEF Growing
  <1>2. CASE \E h \in Clients : Consume(h) /\ ConsumableBy(h) /\ call[h].challenge = c
    <2>1. PICK h \in Clients : Consume(h) /\ ConsumableBy(h) /\ call[h].challenge = c
      BY <1>2
    <2>2. /\ challenge[c].status = "ISSUED" /\ challenge'[c].status = "CONSUMED" /\ item' = item
          /\ \A g \in Clients \ {h} : call'[g] = call[g]
      BY <2>1, ConsumptionFacts
    <2>3. \A g \in Clients : ~Consumes(g, c)
      BY <2>2 DEF UsedOnce
    <2>4. \A p \in Items : ~Product(p, c)
      BY <2>2 DEF UsedOnce
    <2>5. \A g \in Clients : Consumes(g, c)' => g = h
      BY <2>2, <2>3 DEF Consumes
    <2>6. \A p \in Items : ~Product(p, c)'
      BY <2>2, <2>4 DEF Product
    <2> QED
      BY <2>2, <2>5, <2>6 DEF UsedOnce
  <1>3. CASE ~ \E h \in Clients : Consume(h) /\ ConsumableBy(h) /\ call[h].challenge = c
    <2>1. \A h \in Clients : Consumes(h, c)' => Consumes(h, c)
      BY <1>3, Consumers
    <2>2. CASE \A p \in Items : Product(p, c)' => Product(p, c)
      <3>1. \A h \in Clients : Consumes(h, c)' => challenge'[c].status = "CONSUMED"
        BY <1>1, <2>1 DEF UsedOnce, ChallengeGrows
      <3>2. \A p \in Items : Product(p, c)' => challenge'[c].status = "CONSUMED"
        BY <1>1, <2>2 DEF UsedOnce, ChallengeGrows
      <3>3. \A g, h \in Clients : Consumes(g, c)' /\ Consumes(h, c)' => g = h
        BY <2>1 DEF UsedOnce
      <3>4. \A p, q \in Items : Product(p, c)' /\ Product(q, c)' => p = q
        BY <2>2 DEF UsedOnce
      <3>5. \A h \in Clients, p \in Items : ~(Consumes(h, c)' /\ Product(p, c)')
        BY <2>1, <2>2 DEF UsedOnce
      <3> QED
        BY <3>1, <3>2, <3>3, <3>4, <3>5 DEF UsedOnce
    <2>3. ASSUME NEW p \in Items, Product(p, c)', ~Product(p, c)
          PROVE  UsedOnce(c)'
      <3>1. PICK h \in Clients : /\ Insert(h, p) /\ Insertable(c) /\ call[h].challenge = c
                                 /\ \A q \in Items \ {p} : item'[q] = item[q]
        BY <2>3, Products
      <3>2. Consumes(h, c) /\ challenge[c].status = "CONSUMED"
        BY <3>1 DEF Insert, Consumes, UsedOnce
      <3>3. challenge'[c].status = "CONSUMED"
        BY <1>1, <3>2 DEF ChallengeGrows
      <3>4. ~Consumes(h, c)'
        BY <3>1, IdleType DEF Insert, Ends, Consumes, IInv, TypeOK
      <3>5. \A g \in Clients : ~Consumes(g, c)'
        BY <2>1, <3>2, <3>4 DEF UsedOnce
      <3>6. \A q \in Items : ~Product(q, c)
        BY <3>1 DEF Insertable, Stored, Product
      <3>7. \A q \in Items : Product(q, c)' => q = p
        BY <3>1, <3>6 DEF Product
      <3> QED
        BY <3>3, <3>5, <3>7 DEF UsedOnce
    <2> QED
      BY <2>2, <2>3
  <1> QED
    BY <1>2, <1>3

\* A challenge gives at most one presentation, through any race of calls, failure or
\* restart between its consumption and the insertion.
THEOREM ChallengesAreSingleUse == Spec => []SingleUse
  <1> DEFINE Inv == \A c \in Challenges : UsedOnce(c)
  <1>1. Init => Inv
    BY IdleType DEF Init, UsedOnce, Consumes, Product, NoItem
  <1>2. IInv /\ Inv /\ [Next]_vars => Inv'
    BY UsedOnceNext
  <1>3. Inv => SingleUse
    <2> SUFFICES ASSUME NEW c \in Challenges, UsedOnce(c)
                 PROVE  Cardinality({h \in Clients : /\ call[h].step \in {"build", "insert"}
                                                     /\ call[h].challenge = c}
                                        \cup {p \in Stored : item[p].challenge = c}) <= 1
      BY DEF SingleUse
    <2> DEFINE Uses == {h \in Clients : /\ call[h].step \in {"build", "insert"}
                                        /\ call[h].challenge = c}
                            \cup {p \in Stored : item[p].challenge = c}
    <2>1. \A x, y \in Uses : x = y
      <3>1. \A x \in Uses : \/ x \in Clients /\ Consumes(x, c)
                            \/ x \in Items /\ Product(x, c)
        BY DEF Consumes, Product, Stored
      <3> HIDE DEF Uses
      <3> QED
        BY <3>1 DEF UsedOnce
    <2> HIDE DEF Uses
    <2>2. CASE Uses = {}
      <3>1. Cardinality(Uses) = 0
        BY <2>2, FS_EmptySet
      <3> QED
        BY <3>1 DEF Uses
    <2>3. CASE Uses # {}
      <3>1. PICK x \in Uses : TRUE
        BY <2>3
      <3>2. Uses = {x}
        BY <2>1, <3>1
      <3>3. Cardinality(Uses) = 1
        BY <3>2, FS_Singleton
      <3> QED
        BY <3>3 DEF Uses
    <2> QED
      BY <2>2, <2>3
  <1> HIDE DEF Inv
  <1> QED
    BY <1>1, <1>2, <1>3, Invariant, PTL DEF Spec
=============================================================================
