------------------------- MODULE CredentialsProofs -------------------------
\* Proofs about Credentials.
EXTENDS Credentials, FiniteSetTheorems, WellFoundedInduction, TLAPS

-----------------------------------------------------------------------------
\* The inductive invariant

\* A document and the entry of its credential never name different slots.
DocOK(k) ==
    /\ credential[k].status = "ABSENT" => entry[k] = NoSlot /\ ~credential[k].issued
    /\ credential[k].issued => credential[k].slot \in Slot
    /\ ~credential[k].issued => credential[k].slot = NoSlot
    /\ credential[k].issued /\ entry[k] # NoSlot => credential[k].slot = entry[k]

\* A slot is looked for only while no issuance embeds one: an entry would be a second slot.
Unembedded(k) == credential[k].issued => entry[k] # NoSlot

\* What a call in flight may rely on.
CallOK(c) ==
    /\ c.step = "idle" => c = Idle
    /\ c.step \in {"slots", "insert", "probe", "reserve"} => c.list \in Lists /\ c.taken # Slots
    /\ c.step \in {"expire", "ensure", "slots"} => c.taken = {}
    /\ c.step \in {"slots", "insert"} => c.k \in New
    /\ c.step \in {"expire", "ensure", "probe", "reserve", "revoke"} =>
            c.k \in Creds /\ credential[c.k].status # "ABSENT"
    /\ c.step \in {"probe", "reserve"} => Unembedded(c.k)
    /\ c.step = "reserve" => c.slot \in Slot /\ c.slot[2] \notin c.taken
    /\ c.step = "revoke" => c.slot \in Slot /\ Assignment(c.k) = c.slot
    /\ c.step \in {"revoked", "existing", "publish"} => c.list \in Lists
    /\ c.step = "revoked" => c.must \subseteq RevokedIn(c.list)
    /\ c.step \in {"existing", "publish", "answer"} => c.must \subseteq c.bits

IInv ==
    /\ TypeOK
    /\ \A k \in Creds : DocOK(k)
    /\ \A x \in Clients : CallOK(call[x])

-----------------------------------------------------------------------------
\* Numbers and slots

LEMMA Constants ==
    /\ Capacity \in Nat \ {0} /\ MaxLists \in Nat \ {0} /\ MaxVersion \in Nat
    /\ Candidate \in [Creds -> Slots] /\ IsFiniteSet(Creds) /\ Slots # {}
    /\ Slots \subseteq Nat /\ Lists \subseteq Nat /\ 1 \in Lists /\ NoSlot \notin Slot
    /\ Expiring \subseteq Creds /\ Watched \subseteq Lists /\ Legacy \cap New = {}
  BY CredentialAssumptions DEF Slots, Lists, Slot, NoSlot

LEMMA SlotParts ==
    ASSUME NEW s \in Slot \cup {NoSlot}
    PROVE  /\ s[1] \in Nat /\ s[2] \in Nat
           /\ s \in Slot <=> s # NoSlot
           /\ s[1] \in Lists => s \in Slot /\ s[2] \in Slots
           /\ s \in Slot => s[1] \in Lists /\ s[2] \in Slots
  BY Constants DEF Slot, NoSlot, Slots, Lists

\* A set of natural numbers that is not empty has a least element.
LEMMA Least == ASSUME NEW T \in SUBSET Nat, T # {} PROVE \E n \in T : \A m \in T : n <= m
  <1> DEFINE R == {p \in Nat \X Nat : p[1] < p[2]}
  <1>1. IsWellFoundedOn(R, Nat)
    BY NatLessThanWellFounded DEF OpToRel
  <1>2. \A m, n \in Nat : m < n => <<m, n>> \in R
    OBVIOUS
  <1> HIDE DEF R
  <1>3. PICK n \in T : \A m \in T : ~(<<m, n>> \in R)
    BY <1>1, WFMin
  <1>4. \A m \in T : m \in Nat /\ n \in Nat /\ ~(m < n)
    BY <1>2, <1>3
  <1> QED
    BY <1>4

\* The search from the candidate on, going round, finds a slot that is not taken.
LEMMA ProbeFree ==
    ASSUME NEW k \in Creds, NEW taken \in SUBSET Slots, taken # Slots
    PROVE  Probe(k, taken) \in Slots /\ Probe(k, taken) \notin taken
  <1> DEFINE at(n) == (Candidate[k] + n) % Capacity
             Free == {n \in Slots : at(n) \notin taken}
             Right(n) == n \in Slots /\ at(n) \notin taken /\ \A m \in 0 .. n - 1 : at(m) \in taken
  <1>1. Candidate[k] \in Slots /\ Capacity \in Nat \ {0} /\ Slots = 0 .. Capacity - 1
    BY Constants DEF Slots
  <1>2. Free # {}
    <2>1. PICK t \in Slots : t \notin taken
      OBVIOUS
    <2>2. CASE t >= Candidate[k]
      <3>1. t - Candidate[k] \in Slots /\ Candidate[k] + (t - Candidate[k]) = t /\ t % Capacity = t
        BY <1>1, <2>2
      <3> QED
        BY <2>1, <3>1
    <2>3. CASE t < Candidate[k]
      <3> DEFINE n == t - Candidate[k] + Capacity
      <3>1. n \in Slots /\ Candidate[k] + n = t + Capacity /\ (t + Capacity) % Capacity = t
        BY <1>1, <2>3
      <3> QED
        BY <2>1, <3>1
    <2> QED
      BY <1>1, <2>2, <2>3
  <1>3. PICK n \in Free : \A m \in Free : n <= m
    <2>1. Free \in SUBSET Nat
      BY <1>1
    <2> HIDE DEF Free
    <2> QED
      BY <1>2, <2>1, Least
  <1>4. Right(n)
    <2>1. ASSUME NEW m \in 0 .. n - 1 PROVE at(m) \in taken
      <3>1. m \in Slots /\ ~(n <= m)
        BY <1>1
      <3> QED
        BY <1>3, <3>1
    <2> QED
      BY <2>1
  <1> DEFINE o == CHOOSE i \in Slots : at(i) \notin taken /\ \A m \in 0 .. i - 1 : at(m) \in taken
  <1>5. o \in Slots /\ at(o) \notin taken
    BY <1>4
  <1>6. Probe(k, taken) = at(o)
    BY DEF Probe
  <1>7. at(o) \in Slots
    <2>1. Candidate[k] + o \in Nat
      BY <1>1, <1>5
    <2> HIDE DEF o
    <2> QED
      BY <1>1, <2>1
  <1> QED
    BY <1>5, <1>6, <1>7

LEMMA LatestType == Latest \in Lists
  <1> DEFINE used == {l \in Lists : AssignedIn(l) # {}}
  <1>1. CASE used = {}
    BY <1>1, Constants DEF Latest
  <1>2. CASE used # {}
    <2> DEFINE T == {MaxLists - l : l \in used}
    <2>1. T \subseteq Nat /\ T # {}
      BY <1>2, Constants DEF Lists
    <2> HIDE DEF T
    <2>2. PICK n \in T : \A m \in T : n <= m
      BY <2>1, Least
    <2>3. PICK l \in used : n = MaxLists - l
      BY DEF T
    <2>4. ASSUME NEW m \in used PROVE m <= l
      <3>1. MaxLists - m \in T
        BY DEF T
      <3>2. m \in Nat /\ l \in Nat /\ MaxLists \in Nat
        BY Constants
      <3> QED
        BY <2>2, <2>3, <3>1, <3>2
    <2>5. \E i \in used : \A m \in used : m <= i
      BY <2>4
    <2> HIDE DEF used
    <2>6. (CHOOSE i \in used : \A m \in used : m <= i) \in used
      BY <2>5
    <2>7. Latest = CHOOSE i \in used : \A m \in used : m <= i
      BY <1>2 DEF Latest, used
    <2> QED
      BY <2>6, <2>7 DEF used
  <1> QED
    BY <1>1, <1>2

-----------------------------------------------------------------------------
\* Calls

LEMMA CallFields ==
    ASSUME NEW c \in Call
    PROVE  /\ c.step \in Steps /\ c.k \in Creds \cup {None} /\ c.revoking \in BOOLEAN /\ c.version \in Nat
           /\ c.list \in Nat /\ c.taken \in SUBSET Slots /\ c.slot \in Slot \cup {NoSlot}
           /\ c.bits \in SUBSET Slots /\ c.assigned \in Nat /\ c.must \in SUBSET Slots
  BY DEF Call

LEMMA IdleType == Idle \in Call
  BY DEF Idle, Call, Steps

LEMMA IdleOK == CallOK(Idle) /\ CallOK(Idle)'
  BY DEF CallOK, Idle

\* A call after some slots were found taken: at its end, in its list, or in the next one.
LEMMA PassingCall ==
    ASSUME NEW c \in Call, c.list \in Lists, NEW taken \in SUBSET Slots,
           NEW step \in Steps, NEW first \in Steps, NEW p, p = Passing(c, taken, step, first)
    PROVE  /\ p \in Call
           /\ \/ p = Idle
              \/ /\ taken # Slots
                 /\ p.step = step /\ p.list = c.list /\ p.taken = taken /\ p.k = c.k
              \/ /\ taken = Slots /\ c.list < MaxLists /\ c.list + 1 \in Lists
                 /\ p.step = first /\ p.list = c.list + 1 /\ p.taken = {} /\ p.k = c.k
  <1>1. CASE taken # Slots
    <2>1. p = [c EXCEPT !.step = step, !.taken = taken, !.slot = NoSlot]
      BY <1>1 DEF Passing
    <2>2. p \in Call
      BY <2>1 DEF Call
    <2>3. p.step = step /\ p.list = c.list /\ p.taken = taken /\ p.k = c.k
      BY <2>1 DEF Call
    <2> QED
      BY <1>1, <2>2, <2>3
  <1>2. CASE taken = Slots /\ c.list < MaxLists
    <2>1. PICK n \in Lists : n = c.list + 1
      BY <1>2, Constants DEF Lists
    <2>2. p = [c EXCEPT !.step = first, !.taken = {}, !.slot = NoSlot, !.list = n]
      BY <1>2, <2>1 DEF Passing, Call
    <2>3. n \in Nat
      BY Constants
    <2>4. p \in Call
      BY <2>2, <2>3 DEF Call
    <2>5. p.step = first /\ p.list = n /\ p.taken = {} /\ p.k = c.k
      BY <2>2 DEF Call
    <2> QED
      BY <1>2, <2>1, <2>4, <2>5
  <1>3. CASE taken = Slots /\ ~(c.list < MaxLists)
    BY <1>3, IdleType DEF Passing
  <1> QED
    BY <1>1, <1>2, <1>3

-----------------------------------------------------------------------------
\* What a step may do to a credential

\* Nothing is taken back: a slot, a revocation, an expiry, a document.
Grows(k) ==
    /\ entry[k] # NoSlot => entry'[k] = entry[k]
    /\ credential[k].status = "REVOKED" => credential'[k] = credential[k]
    /\ credential[k].status = "EXPIRED" => credential'[k].status \in {"EXPIRED", "REVOKED"}
    /\ credential[k].status # "ABSENT" => credential'[k].status # "ABSENT"
    /\ Assigned(k) => Assignment(k)' = Assignment(k)
    /\ Unembedded(k) /\ credential[k].status # "ABSENT" => Unembedded(k)'

Growing == \A k \in Creds : Grows(k)

\* A list only gets further revocations.
LEMMA RevocationsStay ==
    ASSUME TypeOK, Growing, NEW l \in Lists
    PROVE  RevokedIn(l) \subseteq RevokedIn(l)'
  <1>1. ASSUME NEW k \in Creds, credential[k].status = "REVOKED", entry[k][1] = l
        PROVE  credential'[k].status = "REVOKED" /\ entry'[k] = entry[k]
    <2>1. entry[k] # NoSlot
      BY <1>1, SlotParts DEF TypeOK
    <2> QED
      BY <1>1, <2>1 DEF Growing, Grows
  <1>2. ASSUME NEW k \in Creds, credential[k].status = "REVOKED"
        PROVE  credential'[k] = credential[k]
    BY <1>2 DEF Growing, Grows
  <1> QED
    BY <1>1, <1>2 DEF RevokedIn

\* The revocations of a list are slots of it.
LEMMA RevocationsType == ASSUME TypeOK, NEW l \in Lists PROVE RevokedIn(l) \in SUBSET Slots
  <1>1. ASSUME NEW k \in Creds, entry[k][1] = l PROVE entry[k][2] \in Slots
    BY <1>1, SlotParts DEF TypeOK
  <1>2. ASSUME NEW k \in Creds, credential[k].slot[1] = l PROVE credential[k].slot[2] \in Slots
    BY <1>2, SlotParts DEF TypeOK, CredentialDoc
  <1> QED
    BY <1>1, <1>2 DEF RevokedIn

\* What a call relies on outlasts the steps of the others.
LEMMA CallKept ==
    ASSUME TypeOK, Growing, NEW c \in Call, CallOK(c)
    PROVE  CallOK(c)'
  <1>1. /\ c.step = "idle" => c = Idle
        /\ c.step \in {"slots", "insert", "probe", "reserve"} => c.list \in Lists /\ c.taken # Slots
        /\ c.step \in {"expire", "ensure", "slots"} => c.taken = {}
        /\ c.step \in {"slots", "insert"} => c.k \in New
        /\ c.step = "reserve" => c.slot \in Slot /\ c.slot[2] \notin c.taken
        /\ c.step \in {"revoked", "existing", "publish"} => c.list \in Lists
        /\ c.step \in {"existing", "publish", "answer"} => c.must \subseteq c.bits
    BY DEF CallOK
  <1>2. c.step \in {"expire", "ensure", "probe", "reserve", "revoke"} =>
            c.k \in Creds /\ credential[c.k].status # "ABSENT" /\ credential'[c.k].status # "ABSENT"
    BY DEF CallOK, Growing, Grows
  <1>3. c.step \in {"probe", "reserve"} => Unembedded(c.k)'
    <2> SUFFICES ASSUME c.step \in {"probe", "reserve"} PROVE Unembedded(c.k)'
      OBVIOUS
    <2>1. Unembedded(c.k)
      BY DEF CallOK
    <2> QED
      BY <1>2, <2>1 DEF Growing, Grows
  <1>4. c.step = "revoke" => c.slot \in Slot /\ Assignment(c.k)' = c.slot
    <2> SUFFICES ASSUME c.step = "revoke" PROVE c.slot \in Slot /\ Assignment(c.k)' = c.slot
      OBVIOUS
    <2>1. c.slot \in Slot /\ Assignment(c.k) = c.slot
      BY DEF CallOK
    <2>2. Assigned(c.k)
      BY <2>1, Constants DEF Assigned
    <2> QED
      BY <1>2, <2>1, <2>2 DEF Growing, Grows
  <1>5. c.step = "revoked" => c.must \subseteq RevokedIn(c.list)'
    BY <1>1, RevocationsStay DEF CallOK
  <1> QED
    BY <1>1, <1>2, <1>3, <1>4, <1>5 DEF CallOK

-----------------------------------------------------------------------------
\* Steps

\* A step keeps the invariant if it keeps types and documents, takes nothing back, and
\* leaves its own call with what that may rely on.
LEMMA StepKeeps ==
    ASSUME IInv, TypeOK', Growing, \A k \in Creds : DocOK(k)',
           UNCHANGED call \/ \E x \in Clients, c \in Call : Update(x, c) /\ CallOK(c)'
    PROVE  IInv'
  <1>1. ASSUME NEW y \in Clients, NEW d \in Call, d = call'[y]
        PROVE  CallOK(d)'
    <2>1. CASE d = call[y]
      <3>1. CallOK(d)
        BY <2>1 DEF IInv
      <3> QED
        BY <3>1, CallKept DEF IInv
    <2>2. CASE d # call[y]
      <3>1. PICK x \in Clients, c \in Call : Update(x, c) /\ CallOK(c)'
        BY <1>1, <2>2
      <3>2. d = c
        BY <1>1, <2>2, <3>1 DEF Update, IInv, TypeOK
      <3> QED
        BY <3>1, <3>2
    <2> QED
      BY <2>1, <2>2
  <1>2. ASSUME NEW y \in Clients PROVE CallOK(call[y])'
    <2>1. PICK d \in Call : d = call'[y]
      BY DEF TypeOK
    <2>2. CallOK(d)'
      BY <1>1, <2>1
    <2> QED
      BY <2>1, <2>2 DEF CallOK, Assignment, Unembedded, RevokedIn
  <1> QED
    BY <1>2 DEF IInv

LEMMA TypeUpdate ==
    ASSUME TypeOK, NEW x \in Clients, NEW c \in Call, Update(x, c)
    PROVE  call' \in [Clients -> Call]
  BY DEF TypeOK, Update

\* Documents and entries that stay as they are.
LEMMA DocsStay ==
    ASSUME IInv, UNCHANGED <<credential, entry>>
    PROVE  Growing /\ \A k \in Creds : DocOK(k)'
  <1>1. \A k \in Creds : Grows(k)
    BY DEF Grows, Assigned, Assignment, Unembedded
  <1>2. \A k \in Creds : DocOK(k)'
    BY DEF IInv, DocOK
  <1> QED
    BY <1>1, <1>2 DEF Growing

\* A step that changes no document and no entry.
LEMMA Searches ==
    ASSUME IInv, NEW x \in Clients, NEW c \in Call, Update(x, c), UNCHANGED <<credential, entry, due>>,
           publication' \in [Lists -> Seq(Publication)], outbox' \subseteq Creds, CallOK(c)
    PROVE  IInv' /\ Growing
  <1>1. TypeOK'
    BY TypeUpdate DEF IInv, TypeOK
  <1>2. Growing /\ \A k \in Creds : DocOK(k)'
    BY DocsStay
  <1>3. CallOK(c)'
    BY <1>2, CallKept DEF IInv
  <1> QED
    BY <1>1, <1>2, <1>3, StepKeeps

\* A step that only goes on with a call, or ends it.
LEMMA OnlyCall ==
    ASSUME IInv, NEW x \in Clients, NEW c \in Call, Update(x, c),
           UNCHANGED <<credential, entry, publication, outbox, due>>, CallOK(c)
    PROVE  IInv' /\ Growing
  BY Searches DEF IInv, TypeOK

\* A call in flight, as a value: its type and what it relies on.
LEMMA InFlight ==
    ASSUME IInv, NEW x \in Clients
    PROVE  call[x] \in Call /\ CallOK(call[x])
  BY DEF IInv, TypeOK

LEMMA OpenIssueKeeps ==
    ASSUME IInv, NEW x \in Clients, NEW k \in New, OpenIssue(x, k) PROVE IInv' /\ Growing
  <1>1. PICK l \in Lists : l = Latest
    BY LatestType
  <1> DEFINE c == [Idle EXCEPT !.step = "slots", !.k = k, !.list = l]
  <1>2. Update(x, c) /\ UNCHANGED <<credential, entry, publication, outbox, due>>
    BY <1>1 DEF OpenIssue
  <1>3. k \in Creds /\ l \in Nat
    BY Constants DEF Creds
  <1>4. c \in Call
    BY <1>3, IdleType DEF Call, Steps
  <1>5. c.step = "slots" /\ c.k = k /\ c.list = l /\ c.taken = {}
    BY DEF Idle
  <1> HIDE DEF c
  <1>6. CallOK(c)
    BY <1>5, Constants DEF CallOK
  <1> QED
    BY <1>2, <1>4, <1>6, OnlyCall

LEMMA ReadSlotsKeeps == ASSUME IInv, NEW x \in Clients, ReadSlots(x) PROVE IInv' /\ Growing
  <1>1. PICK b \in Call : b = call[x] /\ CallOK(b)
    BY InFlight
  <1>2. b.step = "slots" /\ b.list \in Lists /\ b.k \in New
    BY <1>1 DEF ReadSlots, CallOK
  <1>3. PICK taken \in SUBSET Slots : Update(x, Passing(b, taken, "insert", "slots"))
    <2>1. OccupiedIn(b.list) \in SUBSET Slots
      <3>1. ASSUME NEW k \in Creds PROVE Assignment(k) \in Slot \cup {NoSlot}
        BY DEF IInv, TypeOK, CredentialDoc, Assignment
      <3>2. ASSUME NEW k \in AssignedIn(b.list) PROVE Assignment(k)[2] \in Slots
        BY <1>2, <3>1, SlotParts DEF AssignedIn, Assigned
      <3> QED
        BY <3>2 DEF OccupiedIn
    <2> QED
      BY <1>1, <2>1 DEF ReadSlots
  <1>4. PICK c : c = Passing(b, taken, "insert", "slots")
    OBVIOUS
  <1>5. c \in Call /\ CallOK(c)
    <2>1. "insert" \in Steps /\ "slots" \in Steps
      BY DEF Steps
    <2>2. c \in Call
      BY <1>2, <1>4, <2>1, PassingCall
    <2>3. \/ c = Idle
          \/ taken # Slots /\ c.step = "insert" /\ c.list = b.list /\ c.taken = taken /\ c.k = b.k
          \/ c.step = "slots" /\ c.list \in Lists /\ c.taken = {} /\ c.k = b.k
      BY <1>2, <1>4, <2>1, PassingCall
    <2> QED
      BY <1>2, <2>2, <2>3, IdleOK, Constants DEF CallOK
  <1> QED
    BY <1>3, <1>4, <1>5, OnlyCall DEF ReadSlots

\* A call that found a slot taken may go on with its search.
LEMMA PassingOK ==
    ASSUME NEW b \in Call, b.list \in Lists, NEW taken \in SUBSET Slots, NEW c,
           \/ c = Passing(b, taken, "insert", "slots") /\ b.k \in New
           \/ /\ c = Passing(b, taken, "probe", "probe") /\ b.k \in Creds
              /\ credential[b.k].status # "ABSENT" /\ Unembedded(b.k)
    PROVE  c \in Call /\ CallOK(c)
  <1>1. "insert" \in Steps /\ "slots" \in Steps /\ "probe" \in Steps
    BY DEF Steps
  <1>2. c \in Call
    BY <1>1, PassingCall
  <1>3. CASE c = Passing(b, taken, "insert", "slots") /\ b.k \in New
    <2>1. \/ c = Idle
          \/ taken # Slots /\ c.step = "insert" /\ c.list = b.list /\ c.taken = taken /\ c.k = b.k
          \/ c.step = "slots" /\ c.list \in Lists /\ c.taken = {} /\ c.k = b.k
      BY <1>1, <1>3, PassingCall
    <2> QED
      BY <1>2, <1>3, <2>1, IdleOK, Constants DEF CallOK
  <1>4. CASE /\ c = Passing(b, taken, "probe", "probe") /\ b.k \in Creds
             /\ credential[b.k].status # "ABSENT" /\ Unembedded(b.k)
    <2>1. \/ c = Idle
          \/ /\ c.step = "probe" /\ c.list \in Lists /\ c.taken # Slots /\ c.k = b.k
      BY <1>1, <1>4, PassingCall, Constants
    <2> QED
      BY <1>2, <1>4, <2>1, IdleOK DEF CallOK
  <1> QED
    BY <1>2, <1>3, <1>4

LEMMA InsertKeeps == ASSUME IInv, NEW x \in Clients, Insert(x) PROVE IInv' /\ Growing
  <1>1. PICK b \in Call : b = call[x] /\ CallOK(b)
    BY InFlight
  <1>2. b.step = "insert" /\ b.list \in Lists /\ b.taken # Slots /\ b.taken \in SUBSET Slots /\ b.k \in New
    BY <1>1, CallFields DEF Insert, CallOK
  <1>3. b.k \in Creds
    BY <1>2 DEF Creds
  <1>4. PICK n \in Slots : n = Probe(b.k, b.taken) /\ n \notin b.taken
    BY <1>2, <1>3, ProbeFree
  <1>5. PICK s \in Slot : s = <<b.list, n>> /\ s[2] = n
    <2>1. <<b.list, n>> \in Slot /\ <<b.list, n>>[2] = n
      BY <1>2 DEF Slot
    <2> QED
      BY <2>1
  <1>6. CASE Ends(x) /\ UNCHANGED <<credential, entry, publication, outbox, due>>
    BY <1>6, IdleType, IdleOK, OnlyCall DEF Ends
  <1>7. CASE Update(x, AfterConflict(b, n)) /\ UNCHANGED <<credential, entry, publication, outbox, due>>
    <2>1. b.taken \cup {n} \in SUBSET Slots
      BY <1>2
    <2>2. AfterConflict(b, n) \in Call /\ CallOK(AfterConflict(b, n))
      BY <1>2, <2>1, PassingOK DEF AfterConflict
    <2> QED
      BY <1>7, <2>2, OnlyCall
  <1>8. CASE /\ credential[b.k].status = "ABSENT" /\ credential' = [credential EXCEPT ![b.k] = Issued(s)]
             /\ Ends(x) /\ UNCHANGED <<entry, publication, outbox, due>>
    <2>1. Issued(s) \in CredentialDoc /\ Issued(s).status = "ACTIVE" /\ Issued(s).issued /\ Issued(s).slot = s
      BY DEF Issued, CredentialDoc, Status
    <2>2. /\ credential' \in [Creds -> CredentialDoc] /\ credential'[b.k] = Issued(s)
          /\ \A k \in Creds : k # b.k => credential'[k] = credential[k]
      BY <1>3, <1>8, <2>1 DEF IInv, TypeOK
    <2>3. TypeOK'
      BY <1>8, <2>2, IdleType, TypeUpdate DEF IInv, TypeOK, Ends
    <2>4. entry[b.k] = NoSlot /\ ~credential[b.k].issued
      BY <1>3, <1>8 DEF IInv, DocOK
    <2>5. DocOK(b.k)'
      BY <1>8, <2>1, <2>2, <2>4 DEF DocOK
    <2>6. Grows(b.k)
      BY <1>8, <2>4 DEF Grows, Assigned, Assignment
    <2>7. ASSUME NEW k \in Creds, k # b.k PROVE DocOK(k)' /\ Grows(k)
      BY <1>8, <2>2, <2>7 DEF IInv, DocOK, Grows, Assigned, Assignment, Unembedded
    <2>8. Growing /\ \A k \in Creds : DocOK(k)'
      BY <2>5, <2>6, <2>7 DEF Growing
    <2> QED
      BY <1>8, <2>3, <2>8, IdleType, IdleOK, StepKeeps DEF Ends
  <1> QED
    BY <1>1, <1>4, <1>5, <1>6, <1>7, <1>8 DEF Insert

LEMMA OpenRevokeKeeps ==
    ASSUME IInv, NEW x \in Clients, NEW k \in Creds, OpenRevoke(x, k) PROVE IInv' /\ Growing
  <1>1. PICK v \in Nat : v = credential[k].version
    BY DEF IInv, TypeOK, CredentialDoc
  <1>2. PICK r \in BOOLEAN : r = (credential[k].status # "REVOKED")
    OBVIOUS
  <1> DEFINE c == [Idle EXCEPT !.step = "ensure", !.k = k, !.version = v, !.revoking = r]
  <1>3. Update(x, c) /\ UNCHANGED <<credential, entry, publication, outbox, due>>
    BY <1>1, <1>2 DEF OpenRevoke
  <1>4. credential[k].status # "ABSENT"
    BY DEF OpenRevoke, Transitions
  <1>5. c \in Call
    BY IdleType DEF Call, Steps
  <1>6. c.step = "ensure" /\ c.k = k /\ c.taken = {}
    BY DEF Idle
  <1> HIDE DEF c
  <1>7. CallOK(c)
    BY <1>4, <1>6 DEF CallOK
  <1> QED
    BY <1>3, <1>5, <1>7, OnlyCall

LEMMA OpenStatusKeeps ==
    ASSUME IInv, NEW x \in Clients, NEW k \in Creds, OpenStatus(x, k) PROVE IInv' /\ Growing
  <1>1. PICK v \in Nat : v = credential[k].version
    BY DEF IInv, TypeOK, CredentialDoc
  <1> DEFINE c == [Idle EXCEPT !.step = "expire", !.k = k, !.version = v]
  <1>2. Update(x, c) /\ UNCHANGED <<credential, entry, publication, outbox, due>>
    BY <1>1 DEF OpenStatus
  <1>3. credential[k].status # "ABSENT"
    BY DEF OpenStatus, Transitions
  <1>4. c \in Call
    BY IdleType DEF Call, Steps
  <1>5. c.step = "expire" /\ c.k = k /\ c.taken = {}
    BY DEF Idle
  <1> HIDE DEF c
  <1>6. CallOK(c)
    BY <1>3, <1>5 DEF CallOK
  <1> QED
    BY <1>2, <1>4, <1>6, OnlyCall

LEMMA MarkExpiredKeeps == ASSUME IInv, NEW x \in Clients, MarkExpired(x) PROVE IInv' /\ Growing
  <1>1. PICK b \in Call : b = call[x] /\ CallOK(b)
    BY InFlight
  <1>2. b.step = "expire" /\ b.k \in Creds /\ credential[b.k].status # "ABSENT" /\ b.taken = {}
    BY <1>1 DEF MarkExpired, CallOK
  <1> DEFINE d == [credential[b.k] EXCEPT !.status = "EXPIRED", !.version = @ + 1]
             c == [b EXCEPT !.step = "ensure", !.version = 0]
  <1>3. CASE /\ Expirable(b.k, b.version)
             /\ credential' = [credential EXCEPT ![b.k].status = "EXPIRED", ![b.k].version = @ + 1]
             /\ Ends(x) /\ UNCHANGED <<entry, publication, outbox, due>>
    <2>1. credential[b.k] \in CredentialDoc /\ credential[b.k].version + 1 \in Nat
      BY <1>2 DEF IInv, TypeOK, CredentialDoc
    <2>2. d \in CredentialDoc
      BY <2>1 DEF CredentialDoc, Status
    <2>3. /\ d.status = "EXPIRED" /\ d.issued = credential[b.k].issued
          /\ d.slot = credential[b.k].slot
      BY <2>1 DEF CredentialDoc
    <2>4. credential' = [credential EXCEPT ![b.k] = d]
      BY <1>2, <1>3 DEF IInv, TypeOK
    <2> HIDE DEF d
    <2>5. /\ credential' \in [Creds -> CredentialDoc] /\ credential'[b.k] = d
          /\ \A k \in Creds : k # b.k => credential'[k] = credential[k]
      BY <1>2, <2>2, <2>4 DEF IInv, TypeOK
    <2>6. TypeOK'
      BY <1>3, <2>5, IdleType, TypeUpdate DEF IInv, TypeOK, Ends
    <2>7. credential[b.k].status = "ACTIVE"
      BY <1>3 DEF Expirable
    <2>8. DocOK(b.k)' /\ Grows(b.k)
      BY <1>2, <1>3, <2>3, <2>5, <2>7 DEF IInv, DocOK, Grows, Assigned, Assignment, Unembedded
    <2>9. ASSUME NEW k \in Creds, k # b.k PROVE DocOK(k)' /\ Grows(k)
      BY <1>3, <2>5, <2>9 DEF IInv, DocOK, Grows, Assigned, Assignment, Unembedded
    <2>10. Growing /\ \A k \in Creds : DocOK(k)'
      BY <2>8, <2>9 DEF Growing
    <2> QED
      BY <1>3, <2>6, <2>10, IdleType, IdleOK, StepKeeps DEF Ends
  <1>4. CASE Update(x, c) /\ UNCHANGED <<credential, entry, publication, outbox, due>>
    <2>1. c \in Call
      BY DEF Call, Steps
    <2>2. c.step = "ensure" /\ c.k = b.k /\ c.taken = b.taken
      BY DEF Call
    <2> HIDE DEF c
    <2>3. CallOK(c)
      BY <1>2, <2>2 DEF CallOK
    <2> QED
      BY <1>4, <2>1, <2>3, OnlyCall
  <1>5. CASE Update(x, Idle) /\ UNCHANGED <<credential, entry, publication, outbox, due>>
    BY <1>5, IdleType, IdleOK, OnlyCall
  <1> HIDE DEF c, d
  <1> QED
    BY <1>1, <1>3, <1>4, <1>5 DEF MarkExpired, c

\* ensure_entry goes on with a slot that is the credential's assignment by then.
LEMMA AssignedOn ==
    ASSUME IInv, NEW x \in Clients, NEW b \in Call, b = call[x], b.k \in Creds,
           credential[b.k].status # "ABSENT", NEW s \in Slot, Assignment(b.k) = s,
           Reserved(x, s), UNCHANGED <<credential, entry, publication, due>>
    PROVE  IInv' /\ Growing
  <1> PICK c : c = [b EXCEPT !.step = "revoke", !.slot = s, !.list = 0, !.taken = {}]
    OBVIOUS
  <1>1. CASE Update(x, c) /\ UNCHANGED outbox
    <2>1. c \in Call /\ c.step = "revoke" /\ c.slot = s /\ c.k = b.k
      BY DEF Call, Steps
    <2>2. CallOK(c)
      BY <2>1 DEF CallOK
    <2> QED
      BY <1>1, <2>1, <2>2, OnlyCall
  <1>2. CASE outbox' = outbox \cup {b.k} /\ Update(x, Idle)
    BY <1>2, IdleType, IdleOK, Searches DEF IInv, TypeOK
  <1> QED
    BY <1>1, <1>2 DEF Reserved, Recorded, Ends

LEMMA AdoptKeeps ==
    ASSUME IInv, NEW x \in Clients, NEW b \in Call, b = call[x], b.k \in Creds,
           credential[b.k].status # "ABSENT", Assigned(b.k), Adopt(x),
           UNCHANGED <<credential, entry, publication, due>>
    PROVE  IInv' /\ Growing
  <1>1. PICK s \in Slot : s = Assignment(b.k)
    BY DEF Assigned, Assignment, IInv, TypeOK, CredentialDoc
  <1>2. CASE Reserved(x, s)
    BY <1>1, <1>2, AssignedOn
  <1>3. CASE Ends(x) /\ UNCHANGED outbox
    BY <1>3, IdleType, IdleOK, OnlyCall DEF Ends
  <1> QED
    BY <1>1, <1>2, <1>3 DEF Adopt

LEMMA EnsureKeeps == ASSUME IInv, NEW x \in Clients, Ensure(x) PROVE IInv' /\ Growing
  <1>1. PICK b \in Call : b = call[x] /\ CallOK(b)
    BY InFlight
  <1>2. b.step = "ensure" /\ b.k \in Creds /\ credential[b.k].status # "ABSENT"
    BY <1>1 DEF Ensure, CallOK
  <1>3. CASE /\ Assigned(b.k) /\ Reserved(x, Assignment(b.k)) /\ UNCHANGED <<credential, entry, publication, due>>
    <2>1. PICK s \in Slot : s = Assignment(b.k)
      BY <1>2, <1>3 DEF Assigned, Assignment, IInv, TypeOK, CredentialDoc
    <2> QED
      BY <1>1, <1>2, <1>3, <2>1, AssignedOn
  <1>4. PICK l \in Lists : l = Latest
    BY LatestType
  <1> DEFINE c == [b EXCEPT !.step = "probe", !.list = l]
  <1>5. CASE ~Assigned(b.k) /\ Update(x, c) /\ UNCHANGED <<credential, entry, publication, outbox, due>>
    <2>1. c \in Call
      BY Constants DEF Call, Steps
    <2>2. c.step = "probe" /\ c.k = b.k /\ c.list = l /\ c.taken = b.taken
      BY DEF Call
    <2>3. b.taken # Slots
      BY <1>1, <1>2, Constants DEF CallOK
    <2>4. Unembedded(b.k)
      BY <1>2, <1>5, Constants DEF Assigned, Assignment, Unembedded, IInv, DocOK
    <2> HIDE DEF c
    <2>5. CallOK(c)
      BY <1>2, <2>2, <2>3, <2>4 DEF CallOK
    <2> QED
      BY <1>5, <2>1, <2>5, OnlyCall
  <1> QED
    BY <1>1, <1>3, <1>4, <1>5 DEF Ensure

LEMMA ProbeSlotKeeps == ASSUME IInv, NEW x \in Clients, ProbeSlot(x) PROVE IInv' /\ Growing
  <1>1. PICK b \in Call : b = call[x] /\ CallOK(b)
    BY InFlight
  <1>2. /\ b.step = "probe" /\ b.list \in Lists /\ b.taken # Slots /\ b.taken \in SUBSET Slots /\ b.k \in Creds
        /\ credential[b.k].status # "ABSENT" /\ Unembedded(b.k)
    BY <1>1, CallFields DEF ProbeSlot, CallOK
  <1>3. PICK n \in Slots : n = Probe(b.k, b.taken) /\ n \notin b.taken
    BY <1>2, ProbeFree
  <1>4. PICK s \in Slot : s = <<b.list, n>> /\ s[2] = n
    <2>1. <<b.list, n>> \in Slot /\ <<b.list, n>>[2] = n
      BY <1>2 DEF Slot
    <2> QED
      BY <2>1
  <1>5. CASE Meanwhile(b.k) /\ Adopt(x) /\ UNCHANGED <<credential, entry, publication, due>>
    BY <1>1, <1>2, <1>5, AdoptKeeps DEF Meanwhile
  <1>6. CASE /\ Update(x, Passing(b, b.taken \cup {n}, "probe", "probe"))
             /\ UNCHANGED <<credential, entry, publication, outbox, due>>
    <2>1. PICK c : c = Passing(b, b.taken \cup {n}, "probe", "probe")
      OBVIOUS
    <2>2. b.taken \cup {n} \in SUBSET Slots
      BY <1>2
    <2>3. c \in Call /\ CallOK(c)
      BY <1>2, <2>1, <2>2, PassingOK
    <2> QED
      BY <1>6, <2>1, <2>3, OnlyCall
  <1> DEFINE c == [b EXCEPT !.step = "reserve", !.slot = s]
  <1>7. CASE Update(x, c) /\ UNCHANGED <<credential, entry, publication, outbox, due>>
    <2>1. c \in Call
      BY DEF Call, Steps
    <2>2. c.step = "reserve" /\ c.k = b.k /\ c.list = b.list /\ c.taken = b.taken /\ c.slot = s
      BY DEF Call
    <2> HIDE DEF c
    <2>3. CallOK(c)
      BY <1>2, <1>3, <1>4, <2>2 DEF CallOK
    <2> QED
      BY <1>7, <2>1, <2>3, OnlyCall
  <1> QED
    BY <1>1, <1>3, <1>4, <1>5, <1>6, <1>7 DEF ProbeSlot

LEMMA ReserveKeeps == ASSUME IInv, NEW x \in Clients, Reserve(x) PROVE IInv' /\ Growing
  <1>1. PICK b \in Call : b = call[x] /\ CallOK(b)
    BY InFlight
  <1>2. /\ b.step = "reserve" /\ b.list \in Lists /\ b.taken \in SUBSET Slots /\ b.k \in Creds
        /\ credential[b.k].status # "ABSENT" /\ Unembedded(b.k) /\ b.slot \in Slot
    BY <1>1, CallFields DEF Reserve, CallOK
  <1>3. PICK s \in Slot : s = b.slot
    BY <1>2
  <1>4. CASE /\ entry[b.k] = NoSlot /\ entry' = [entry EXCEPT ![b.k] = s] /\ Reserved(x, s)
             /\ UNCHANGED <<credential, publication, due>>
    <2>1. /\ entry' \in [Creds -> Slot \cup {NoSlot}] /\ entry'[b.k] = s
          /\ \A k \in Creds : k # b.k => entry'[k] = entry[k]
      BY <1>2, <1>4 DEF IInv, TypeOK
    <2>2. ~credential[b.k].issued /\ s # NoSlot
      BY <1>2, <1>4, Constants DEF Unembedded
    <2>3. DocOK(b.k)' /\ Grows(b.k) /\ Assignment(b.k)' = s
      BY <1>2, <1>4, <2>1, <2>2 DEF IInv, DocOK, Grows, Assigned, Assignment, Unembedded
    <2>4. ASSUME NEW k \in Creds, k # b.k PROVE DocOK(k)' /\ Grows(k)
      BY <1>4, <2>1, <2>4 DEF IInv, DocOK, Grows, Assigned, Assignment, Unembedded
    <2>5. Growing /\ \A k \in Creds : DocOK(k)'
      BY <2>3, <2>4 DEF Growing
    <2>6. PICK c : c = [b EXCEPT !.step = "revoke", !.slot = s, !.list = 0, !.taken = {}]
      OBVIOUS
    <2>7. CASE Update(x, c) /\ UNCHANGED outbox
      <3>1. c \in Call /\ c.step = "revoke" /\ c.slot = s /\ c.k = b.k
        BY <2>6 DEF Call, Steps
      <3>2. CallOK(c)'
        BY <1>2, <1>4, <2>3, <3>1 DEF CallOK, Assignment
      <3>3. TypeOK'
        BY <1>4, <2>1, <2>7, <3>1, TypeUpdate DEF IInv, TypeOK
      <3> QED
        BY <2>5, <2>7, <3>1, <3>2, <3>3, StepKeeps
    <2>8. CASE outbox' = outbox \cup {b.k} /\ Update(x, Idle)
      <3>1. TypeOK'
        BY <1>2, <1>4, <2>1, <2>8, IdleType, TypeUpdate DEF IInv, TypeOK
      <3> QED
        BY <2>5, <2>8, <3>1, IdleType, IdleOK, StepKeeps
    <2> QED
      BY <1>1, <1>4, <2>6, <2>7, <2>8 DEF Reserved, Recorded, Ends
  <1>5. CASE Meanwhile(b.k) /\ Adopt(x) /\ UNCHANGED <<credential, entry, publication, due>>
    BY <1>1, <1>2, <1>5, AdoptKeeps DEF Meanwhile
  <1>6. CASE /\ Update(x, Passing(b, b.taken \cup {b.slot[2]}, "probe", "probe"))
             /\ UNCHANGED <<credential, entry, publication, outbox, due>>
    <2>1. PICK c : c = Passing(b, b.taken \cup {b.slot[2]}, "probe", "probe")
      OBVIOUS
    <2>2. b.taken \cup {b.slot[2]} \in SUBSET Slots
      BY <1>2, SlotParts
    <2>3. c \in Call /\ CallOK(c)
      BY <1>2, <2>1, <2>2, PassingOK
    <2> QED
      BY <1>6, <2>1, <2>3, OnlyCall
  <1> QED
    BY <1>1, <1>3, <1>4, <1>5, <1>6 DEF Reserve

LEMMA RevokeKeeps == ASSUME IInv, NEW x \in Clients, Revoke(x) PROVE IInv' /\ Growing
  <1>1. PICK b \in Call : b = call[x] /\ CallOK(b)
    BY InFlight
  <1>2. /\ b.step = "revoke" /\ b.k \in Creds /\ credential[b.k].status # "ABSENT"
        /\ b.slot \in Slot /\ Assignment(b.k) = b.slot
    BY <1>1 DEF Revoke, CallOK
  <1>3. CASE Ends(x) /\ UNCHANGED <<credential, entry, publication, outbox, due>>
    BY <1>3, IdleType, IdleOK, OnlyCall DEF Ends
  <1> DEFINE d == RevokedAs(b.k, b.slot)
  <1>4. CASE /\ Revocable(b.k, b.version) /\ credential' = [credential EXCEPT ![b.k] = d]
             /\ outbox' = outbox \cup {b.k} /\ Ends(x) /\ UNCHANGED <<entry, publication, due>>
    <2>1. credential[b.k] \in CredentialDoc /\ credential[b.k].version + 1 \in Nat
      BY <1>2 DEF IInv, TypeOK, CredentialDoc
    <2>2. d \in CredentialDoc
      BY <1>2, <2>1 DEF CredentialDoc, Status, RevokedAs
    <2>3. d.status = "REVOKED" /\ d.issued /\ d.slot = b.slot
      BY <2>1 DEF CredentialDoc, RevokedAs
    <2> HIDE DEF d
    <2>4. /\ credential' \in [Creds -> CredentialDoc] /\ credential'[b.k] = d
          /\ \A k \in Creds : k # b.k => credential'[k] = credential[k]
      BY <1>2, <1>4, <2>2 DEF IInv, TypeOK
    <2>5. TypeOK'
      BY <1>2, <1>4, <2>4, IdleType, TypeUpdate DEF IInv, TypeOK, Ends
    <2>6. credential[b.k].status \in {"ACTIVE", "EXPIRED"}
      BY <1>4 DEF Revocable
    <2>7. /\ credential[b.k].issued => credential[b.k].slot = b.slot
          /\ entry[b.k] # NoSlot => entry[b.k] = b.slot
          /\ ~credential[b.k].issued => entry[b.k] = b.slot
      BY <1>2 DEF IInv, DocOK, Assignment
    <2>8. DocOK(b.k)'
      BY <1>2, <1>4, <2>3, <2>4, <2>7 DEF DocOK
    <2>9. Grows(b.k)
      BY <1>2, <1>4, <2>3, <2>4, <2>6, <2>7, Constants DEF Grows, Assigned, Assignment, Unembedded
    <2>10. ASSUME NEW k \in Creds, k # b.k PROVE DocOK(k)' /\ Grows(k)
      BY <1>4, <2>4, <2>10 DEF IInv, DocOK, Grows, Assigned, Assignment, Unembedded
    <2>11. Growing /\ \A k \in Creds : DocOK(k)'
      BY <2>8, <2>9, <2>10 DEF Growing
    <2> QED
      BY <1>4, <2>5, <2>11, IdleType, IdleOK, StepKeeps DEF Ends
  <1> QED
    BY <1>1, <1>3, <1>4 DEF Revoke, Recorded

-----------------------------------------------------------------------------
\* Publication

LEMMA OpenPublicationKeeps ==
    ASSUME IInv, NEW x \in Clients, NEW l \in Lists, OpenPublication(x, l) PROVE IInv' /\ Growing
  <1>1. PICK n \in Nat : n = Cardinality(AssignedIn(l))
    <2>1. AssignedIn(l) \subseteq Creds
      BY DEF AssignedIn
    <2> QED
      BY <2>1, Constants, FS_Subset, FS_CardinalityType
  <1>2. PICK m \in SUBSET Slots : m = RevokedIn(l)
    BY RevocationsType DEF IInv
  <1> DEFINE c == [Idle EXCEPT !.step = "revoked", !.list = l, !.assigned = n, !.must = m]
  <1>3. Update(x, c) /\ UNCHANGED <<credential, entry, publication, outbox, due>>
    BY <1>1, <1>2 DEF OpenPublication
  <1>4. c \in Call
    BY Constants, IdleType DEF Call, Steps
  <1>5. c.step = "revoked" /\ c.list = l /\ c.must = m
    BY DEF Idle
  <1> HIDE DEF c
  <1>6. CallOK(c)
    BY <1>2, <1>5 DEF CallOK
  <1> QED
    BY <1>3, <1>4, <1>6, OnlyCall

LEMMA ReadRevokedKeeps == ASSUME IInv, NEW x \in Clients, ReadRevoked(x) PROVE IInv' /\ Growing
  <1>1. PICK b \in Call : b = call[x] /\ CallOK(b)
    BY InFlight
  <1>2. b.step = "revoked" /\ b.list \in Lists /\ b.must \subseteq RevokedIn(b.list)
    BY <1>1 DEF ReadRevoked, CallOK
  <1>3. PICK bits \in SUBSET Slots : bits = RevokedIn(b.list)
    BY <1>2, RevocationsType DEF IInv
  <1> DEFINE c == [b EXCEPT !.step = "existing", !.bits = bits]
  <1>4. Update(x, c) /\ UNCHANGED <<credential, entry, publication, outbox, due>>
    BY <1>1, <1>3 DEF ReadRevoked
  <1>5. c \in Call
    BY DEF Call, Steps
  <1>6. c.step = "existing" /\ c.list = b.list /\ c.must = b.must /\ c.bits = bits
    BY DEF Call
  <1> HIDE DEF c
  <1>7. CallOK(c)
    BY <1>2, <1>3, <1>6 DEF CallOK
  <1> QED
    BY <1>4, <1>5, <1>7, OnlyCall

LEMMA ContentType == ASSUME NEW c \in Call PROVE Content(c) \in Publication
  BY CallFields DEF Content, Encoded, Publication

\* The published bits are the revocations that were read.
LEMMA AnswerCall ==
    ASSUME NEW c \in Call, NEW p, p = Content(c), NEW a, a = Answer(c, p)
    PROVE  a \in Call /\ a.step = "answer" /\ a.must = c.must /\ a.bits = c.bits
  <1>1. PICK bits \in SUBSET Slots : bits = {s \in Slots : p.encoded[s] = 1}
    OBVIOUS
  <1>2. bits = c.bits
    <2>1. \A s \in Slots : p.encoded[s] = IF s \in c.bits THEN 1 ELSE 0
      BY DEF Content, Encoded
    <2>2. c.bits \subseteq Slots
      BY CallFields
    <2> QED
      BY <1>1, <2>1, <2>2
  <1>3. c.list \in Nat /\ c.must \in SUBSET Slots
    BY CallFields
  <1>4. a = [Idle EXCEPT !.step = "answer", !.list = c.list, !.must = c.must, !.bits = bits]
    BY <1>1 DEF Answer
  <1>5. a \in Call
    BY <1>3, <1>4, IdleType DEF Call, Steps
  <1>6. a.step = "answer" /\ a.must = c.must /\ a.bits = bits
    BY <1>4 DEF Idle
  <1> QED
    BY <1>2, <1>5, <1>6

LEMMA AnswerOK ==
    ASSUME NEW c \in Call, c.must \subseteq c.bits, NEW p, p = Content(c)
    PROVE  Answer(c, p) \in Call /\ CallOK(Answer(c, p))
  <1>1. PICK a : a = Answer(c, p)
    OBVIOUS
  <1>2. a \in Call /\ a.step = "answer" /\ a.must = c.must /\ a.bits = c.bits
    BY <1>1, AnswerCall
  <1>3. CallOK(a)
    BY <1>2 DEF CallOK
  <1> QED
    BY <1>1, <1>2, <1>3

LEMMA ReadExistingKeeps == ASSUME IInv, NEW x \in Clients, ReadExisting(x) PROVE IInv' /\ Growing
  <1>1. PICK b \in Call : b = call[x] /\ CallOK(b)
    BY InFlight
  <1>2. b.step = "existing" /\ b.list \in Lists /\ b.must \subseteq b.bits
    BY <1>1 DEF ReadExisting, CallOK
  <1>3. PICK h \in Seq(Publication) : h = publication[b.list]
    BY <1>2 DEF IInv, TypeOK
  <1>4. PICK n \in Nat : n = Len(h)
    OBVIOUS
  <1> DEFINE c == [b EXCEPT !.step = "publish", !.version = n]
  <1>5. UNCHANGED <<credential, entry, publication, outbox, due>>
    BY DEF ReadExisting
  <1>6. CASE Current(h, b) /\ Update(x, Answer(b, h[Len(h)]))
    BY <1>2, <1>5, <1>6, AnswerOK, OnlyCall DEF Current
  <1>7. CASE Update(x, c)
    <2>1. c \in Call
      BY DEF Call, Steps
    <2>2. c.step = "publish" /\ c.list = b.list /\ c.must = b.must /\ c.bits = b.bits
      BY DEF Call
    <2> HIDE DEF c
    <2>3. CallOK(c)
      BY <1>2, <2>2 DEF CallOK
    <2> QED
      BY <1>5, <1>7, <2>1, <2>3, OnlyCall
  <1>8. CASE Update(x, Idle)
    BY <1>5, <1>8, IdleType, IdleOK, OnlyCall
  <1> QED
    BY <1>1, <1>3, <1>4, <1>6, <1>7, <1>8 DEF ReadExisting

LEMMA PublishKeeps == ASSUME IInv, NEW x \in Clients, Publish(x) PROVE IInv' /\ Growing
  <1>1. PICK b \in Call : b = call[x] /\ CallOK(b)
    BY InFlight
  <1>2. b.step = "publish" /\ b.list \in Lists /\ b.must \subseteq b.bits
    BY <1>1 DEF Publish, CallOK
  <1>3. PICK h \in Seq(Publication) : h = publication[b.list]
    BY <1>2 DEF IInv, TypeOK
  <1>4. UNCHANGED <<credential, entry, outbox, due>>
    BY DEF Publish
  <1>5. CASE /\ Replaceable(b.list, b.version) /\ Update(x, Answer(b, Content(b)))
             /\ publication' = [publication EXCEPT ![b.list] = Appended(h, b.version, b)]
    <2>1. SubSeq(h, 1, Len(h)) \in Seq(Publication)
      OBVIOUS
    <2>2. Appended(h, b.version, b) \in Seq(Publication)
      BY <1>3, <1>5, <2>1, ContentType DEF Appended, Replaceable
    <2>3. publication' \in [Lists -> Seq(Publication)]
      BY <1>2, <1>5, <2>2 DEF IInv, TypeOK
    <2>4. Answer(b, Content(b)) \in Call /\ CallOK(Answer(b, Content(b)))
      BY <1>2, AnswerOK
    <2> QED
      BY <1>4, <1>5, <2>3, <2>4, Searches DEF IInv, TypeOK
  <1>6. CASE Current(h, b) /\ Update(x, Answer(b, h[Len(h)])) /\ UNCHANGED publication
    BY <1>2, <1>4, <1>6, AnswerOK, OnlyCall DEF Current
  <1>7. CASE Update(x, Idle) /\ UNCHANGED publication
    BY <1>4, <1>7, IdleType, IdleOK, OnlyCall
  <1> QED
    BY <1>1, <1>3, <1>5, <1>6, <1>7 DEF Publish

LEMMA EndsKeeps == ASSUME IInv, NEW x \in Clients, Respond(x) \/ CallFails(x) PROVE IInv' /\ Growing
  BY IdleType, IdleOK, OnlyCall DEF Respond, CallFails, Ends

LEMMA PassesKeeps == ASSUME IInv, NEW k \in Expiring, Passes(k) PROVE IInv' /\ Growing
  <1>1. TypeOK'
    BY DEF Passes, IInv, TypeOK
  <1>2. Growing /\ \A j \in Creds : DocOK(j)'
    BY DocsStay DEF Passes
  <1> QED
    BY <1>1, <1>2, StepKeeps DEF Passes

-----------------------------------------------------------------------------
\* Theorems about the state

LEMMA InvariantInit == Init => IInv
  <1> SUFFICES ASSUME Init PROVE IInv
    OBVIOUS
  <1>1. PICK gone \in SUBSET Legacy :
            credential = [k \in Creds |->
                [status |-> IF k \in New THEN "ABSENT" ELSE IF k \in gone THEN "REVOKED" ELSE "ACTIVE",
                 slot |-> NoSlot, issued |-> FALSE, version |-> IF k \in New THEN 0 ELSE 1]]
    BY DEF Init
  <1>2. credential \in [Creds -> CredentialDoc]
    BY <1>1 DEF CredentialDoc, Status
  <1>3. entry \in [Creds -> Slot \cup {NoSlot}] /\ publication \in [Lists -> Seq(Publication)]
    BY DEF Init
  <1>4. TypeOK
    BY <1>2, <1>3, IdleType DEF Init, TypeOK
  <1>5. \A k \in Creds : DocOK(k)
    BY <1>1 DEF Init, DocOK
  <1>6. ASSUME NEW x \in Clients PROVE CallOK(call[x])
    BY DEF Init, CallOK, Idle
  <1> QED
    BY <1>4, <1>5, <1>6 DEF IInv

LEMMA InvariantNext == IInv /\ [Next]_vars => IInv' /\ Growing
  <1> SUFFICES ASSUME IInv, [Next]_vars PROVE IInv' /\ Growing
    OBVIOUS
  <1>1. ASSUME NEW x \in Clients, Step(x) PROVE IInv' /\ Growing
    BY <1>1, ReadSlotsKeeps, InsertKeeps, MarkExpiredKeeps, EnsureKeeps, ProbeSlotKeeps, ReserveKeeps,
       RevokeKeeps, ReadRevokedKeeps, ReadExistingKeeps, PublishKeeps, EndsKeeps DEF Step
  <1>2. ASSUME NEW x \in Clients, CallFails(x) PROVE IInv' /\ Growing
    BY <1>2, EndsKeeps
  <1>3. ASSUME NEW x \in Clients, SignRequest(x) \/ RevokeRequest(x) PROVE IInv' /\ Growing
    BY <1>3, OpenIssueKeeps, OpenRevokeKeeps DEF SignRequest, RevokeRequest
  <1>4. ASSUME NEW x \in Clients, StatusRequest(x) \/ ListRequest(x) PROVE IInv' /\ Growing
    BY <1>4, OpenStatusKeeps, OpenPublicationKeeps, Constants DEF StatusRequest, ListRequest
  <1>5. ASSUME NEW k \in Expiring, Passes(k) PROVE IInv' /\ Growing
    BY <1>5, PassesKeeps
  <1>6. CASE UNCHANGED vars
    <2>1. TypeOK'
      BY <1>6 DEF vars, IInv, TypeOK
    <2>2. Growing /\ \A k \in Creds : DocOK(k)'
      BY <1>6, DocsStay DEF vars
    <2> QED
      BY <1>6, <2>1, <2>2, StepKeeps DEF vars
  <1> QED
    BY <1>1, <1>2, <1>3, <1>4, <1>5, <1>6 DEF Next

\* The inductive invariant holds in every state: a document and an entry never name
\* different slots, and what a call in flight relies on is still so when it writes.
THEOREM Invariant == Spec => []IInv
  BY InvariantInit, InvariantNext, PTL DEF Spec

\* Every document and call has the fields its type allows; in particular the search for a
\* slot, going round from the hashed candidate, ends at a slot of the list.
THEOREM TypeCorrect == Spec => []TypeOK
  <1>1. IInv => TypeOK
    BY DEF IInv
  <1> QED
    BY <1>1, Invariant, PTL

\* Whoever asks for a list after a revocation gets a list with that revocation in it.
THEOREM AnswersAreFresh == Spec => []FreshAnswers
  <1>1. IInv => FreshAnswers
    BY InFlight DEF FreshAnswers, CallOK
  <1> QED
    BY <1>1, Invariant, PTL

\* A credential never moves between slots, for any number of lists, slots and calls.
THEOREM SlotsAreForGood == Spec => NeverMoves
  <1>1. IInv /\ [Next]_vars => [\A k \in Creds : Assigned(k) => Assignment(k)' = Assignment(k)]_vars
    BY InvariantNext DEF Growing, Grows
  <1> QED
    BY <1>1, Invariant, PTL DEF Spec, NeverMoves

\* A revoked credential stays revoked and an expired one is only ever revoked.
THEOREM RevocationIsForGood == Spec => RevokedForGood
  <1> DEFINE A == \A k \in Creds :
        /\ credential[k].status = "REVOKED" => credential'[k] = credential[k]
        /\ credential[k].status = "EXPIRED" => credential[k]'.status \in {"EXPIRED", "REVOKED"}
  <1>1. IInv /\ [Next]_vars => [A]_vars
    BY InvariantNext DEF Growing, Grows
  <1> QED
    BY <1>1, Invariant, PTL DEF Spec, RevokedForGood

-----------------------------------------------------------------------------
\* Every call comes to its end

\* The steps that a search of one list takes at most, and of the lists after list l.
PerList == 2 * Capacity + 2
After(l) == (MaxLists - l) * PerList

LEMMA ProductType == ASSUME NEW a \in Nat, NEW b \in Nat PROVE a * b \in Nat
  OBVIOUS

LEMMA ProductNext == ASSUME NEW a \in Nat, NEW b \in Nat PROVE (a + 1) * b = a * b + b
  OBVIOUS

LEMMA ProductGrows == ASSUME NEW a \in Nat, NEW b \in Nat, NEW c \in Nat, a <= b PROVE a * c <= b * c
  OBVIOUS

LEMMA AfterBounds ==
    ASSUME NEW l \in Lists
    PROVE  /\ PerList \in Nat /\ PerList = 2 * Capacity + 2
           /\ After(l) \in Nat /\ MaxLists * PerList \in Nat
           /\ After(l) + PerList <= MaxLists * PerList
           /\ l < MaxLists => After(l) = After(l + 1) + PerList
  <1>1. PerList \in Nat /\ PerList = 2 * Capacity + 2 /\ MaxLists \in Nat /\ l \in Nat /\ l >= 1 /\ l <= MaxLists
    BY Constants DEF PerList, Lists
  <1>2. PICK a \in Nat : a = MaxLists - l
    BY <1>1
  <1> HIDE DEF PerList
  <1>3. After(l) = a * PerList /\ a * PerList \in Nat /\ MaxLists * PerList \in Nat
    BY <1>1, <1>2, ProductType DEF After
  <1>4. a * PerList + PerList <= MaxLists * PerList
    <2>1. a + 1 \in Nat /\ a + 1 <= MaxLists
      BY <1>1, <1>2
    <2>2. (a + 1) * PerList <= MaxLists * PerList
      BY <1>1, <2>1, ProductGrows
    <2>3. (a + 1) * PerList = a * PerList + PerList
      BY <1>1, ProductNext
    <2> QED
      BY <2>2, <2>3
  <1>5. l < MaxLists => After(l) = After(l + 1) + PerList
    <2> SUFFICES ASSUME l < MaxLists PROVE After(l) = After(l + 1) + PerList
      OBVIOUS
    <2>1. PICK m \in Nat : m = MaxLists - (l + 1) /\ a = m + 1
      BY <1>1, <1>2
    <2>2. (m + 1) * PerList = m * PerList + PerList
      BY <1>1, ProductNext
    <2> QED
      BY <1>3, <2>1, <2>2 DEF After
  <1> QED
    BY <1>1, <1>3, <1>4, <1>5

LEMMA TakenBounds ==
    ASSUME NEW taken \in SUBSET Slots
    PROVE  /\ IsFiniteSet(taken) /\ Cardinality(taken) \in Nat /\ Cardinality(taken) <= Capacity
           /\ Cardinality({}) = 0
  <1>1. Capacity - 1 \in Int /\ Capacity \in Nat \ {0}
    BY Constants
  <1>2. IsFiniteSet(Slots) /\ Cardinality(Slots) = Capacity
    BY <1>1, FS_Interval DEF Slots
  <1>3. IsFiniteSet(taken) /\ Cardinality(taken) <= Cardinality(Slots)
    BY <1>2, FS_Subset
  <1> QED
    BY <1>2, <1>3, FS_CardinalityType, FS_EmptySet

LEMMA SearchingIs ==
    ASSUME NEW c \in Call, c.list \in Lists, NEW n \in {0, 1}
    PROVE  /\ Searching(n, c) = 2 + After(c.list) + 2 * (Capacity - Cardinality(c.taken)) + n
           /\ Searching(n, c) \in Nat /\ Searching(n, c) >= 2 + n
  <1>1. After(c.list) \in Nat
    BY AfterBounds
  <1>2. c.taken \in SUBSET Slots
    BY CallFields
  <1>3. Cardinality(c.taken) \in Nat /\ Cardinality(c.taken) <= Capacity
    BY <1>2, TakenBounds
  <1>4. Searching(n, c) = 2 + After(c.list) + 2 * (Capacity - Cardinality(c.taken)) + n
    BY DEF Searching, After, PerList
  <1>5. Capacity \in Nat
    BY Constants
  <1> QED
    BY <1>1, <1>3, <1>4, <1>5

\* Left, step by step.
LEMMA LeftIs ==
    ASSUME NEW c \in Call
    PROVE  /\ c.step = "expire" => Left(c) = 4 + MaxLists * PerList
           /\ c.step = "ensure" => Left(c) = 3 + MaxLists * PerList
           /\ c.step \in {"slots", "probe"} => Left(c) = Searching(1, c)
           /\ c.step \in {"insert", "reserve"} => Left(c) = Searching(0, c)
           /\ c.step = "revoked" => Left(c) = 4
           /\ c.step = "existing" => Left(c) = 3
           /\ c.step = "publish" => Left(c) = 2
           /\ c.step \in {"revoke", "answer"} => Left(c) = 1
           /\ c.step = "idle" => Left(c) = 0
  BY DEF Left, PerList

LEMMA LeftIdle == Left(Idle) = 0
  BY LeftIs, IdleType DEF Idle

\* A call that has not ended has a step to go; one before its slot is found has more.
LEMMA LeftBounds ==
    ASSUME NEW c \in Call, CallOK(c), c # Idle
    PROVE  /\ Left(c) \in Nat /\ Left(c) >= 1
           /\ c.step \in {"ensure", "probe", "reserve"} => Left(c) >= 2
  <1>1. c.step \in Steps /\ c.step # "idle"
    BY CallFields DEF CallOK
  <1>2. MaxLists * PerList \in Nat
    BY AfterBounds, Constants
  <1>3. c.step \in {"slots", "insert", "probe", "reserve"} => c.list \in Lists
    BY DEF CallOK
  <1>4. c.step \in {"slots", "probe"} => Left(c) \in Nat /\ Left(c) >= 3
    BY <1>3, LeftIs, SearchingIs
  <1>5. c.step \in {"insert", "reserve"} => Left(c) \in Nat /\ Left(c) >= 2
    BY <1>3, LeftIs, SearchingIs
  <1>6. c.step \in {"expire", "ensure"} => Left(c) \in Nat /\ Left(c) >= 3
    BY <1>2, LeftIs
  <1>7. c.step \in {"revoked", "existing", "publish", "revoke", "answer"} => Left(c) \in Nat /\ Left(c) >= 1
    BY LeftIs
  <1> QED
    BY <1>1, <1>4, <1>5, <1>6, <1>7 DEF Steps

\* A search that passes a slot or a list over has less to go.
LEMMA PassingAdvances ==
    ASSUME NEW b \in Call, b.list \in Lists, NEW taken \in SUBSET Slots, NEW c,
           \/ b.step = "slots" /\ b.taken = {} /\ c = Passing(b, taken, "insert", "slots")
           \/ /\ b.step = "insert" /\ c = Passing(b, taken, "insert", "slots")
              /\ \E s \in Slots \ b.taken : taken = b.taken \cup {s}
           \/ /\ b.step \in {"probe", "reserve"} /\ c = Passing(b, taken, "probe", "probe")
              /\ \E s \in Slots \ b.taken : taken = b.taken \cup {s}
    PROVE  Left(c) < Left(b)
  <1> DEFINE N == Cardinality(b.taken)
             M == Cardinality(taken)
             n == IF b.step \in {"slots", "probe"} THEN 1 ELSE 0
             m == IF b.step \in {"slots", "insert"} THEN 0 ELSE 1
             step == IF b.step \in {"slots", "insert"} THEN "insert" ELSE "probe"
             first == IF b.step \in {"slots", "insert"} THEN "slots" ELSE "probe"
  <1>1. b.taken \in SUBSET Slots /\ Capacity \in Nat /\ MaxLists \in Nat
    BY CallFields, Constants
  <1>2. N \in Nat /\ M \in Nat /\ N <= Capacity /\ M <= Capacity
    BY <1>1, TakenBounds
  <1>3. n \in {0, 1} /\ m \in {0, 1} /\ m < n + 2 * (M - N)
    <2>1. CASE b.step = "slots"
      <3>1. N = 0
        BY <2>1, TakenBounds
      <3> QED
        BY <1>2, <2>1, <3>1
    <2>2. CASE b.step \in {"insert", "probe", "reserve"}
      <3>1. PICK s \in Slots \ b.taken : taken = b.taken \cup {s}
        BY <2>2
      <3>2. M = N + 1
        BY <1>1, <3>1, TakenBounds, FS_AddElement
      <3> QED
        BY <1>2, <2>2, <3>2
    <2> QED
      BY <2>1, <2>2
  <1>4. Left(b) = 2 + After(b.list) + 2 * (Capacity - N) + n
    <2>1. Left(b) = Searching(n, b)
      BY LeftIs
    <2> QED
      BY <1>3, <2>1, SearchingIs
  <1>5. c = Passing(b, taken, step, first) /\ step \in Steps /\ first \in Steps
    BY DEF Steps
  <1> HIDE DEF n, N, M, step, first
  <1>6. After(b.list) \in Nat
    BY AfterBounds
  <1>7. CASE c = Idle
    BY <1>2, <1>3, <1>4, <1>6, <1>7, <1>1, LeftIdle
  <1>8. CASE taken # Slots /\ c \in Call /\ c.step = step /\ c.list = b.list /\ c.taken = taken
    <2>1. Left(c) = Searching(m, c)
      BY <1>8, LeftIs DEF step
    <2>2. Left(c) = 2 + After(b.list) + 2 * (Capacity - M) + m
      BY <1>3, <1>8, <2>1, SearchingIs DEF M
    <2> HIDE DEF m
    <2> QED
      BY <1>1, <1>2, <1>3, <1>4, <1>6, <2>2
  <1>9. CASE /\ b.list < MaxLists /\ b.list + 1 \in Lists /\ c \in Call /\ c.step = first
             /\ c.list = b.list + 1 /\ c.taken = {}
    <2>1. Left(c) = Searching(1, c)
      BY <1>9, LeftIs DEF first
    <2>2. Cardinality({}) = 0
      BY TakenBounds
    <2>3. Left(c) = 2 + After(b.list + 1) + 2 * (Capacity - 0) + 1
      BY <1>9, <2>1, <2>2, SearchingIs
    <2>4. After(b.list) = After(b.list + 1) + PerList /\ PerList = 2 * Capacity + 2 /\ After(b.list + 1) \in Nat
      BY <1>9, AfterBounds
    <2> HIDE DEF m
    <2> QED
      BY <1>1, <1>2, <1>3, <1>4, <2>3, <2>4
  <1> QED
    BY <1>5, <1>7, <1>8, <1>9, PassingCall

Advances(x) == call[x] # Idle /\ call'[x] # call[x] => Left(call'[x]) < Left(call[x])

\* The end of a call is an advance, and so is the step to a revocation.
LEMMA EndAdvances == ASSUME IInv, NEW x \in Clients, Update(x, Idle) PROVE Advances(x)
  <1>1. call'[x] = Idle
    BY DEF Update, IInv, TypeOK
  <1> QED
    BY <1>1, InFlight, LeftBounds, LeftIdle DEF Advances

LEMMA ReservedAdvances ==
    ASSUME IInv, NEW x \in Clients, NEW b \in Call, b = call[x], CallOK(b),
           b.step \in {"ensure", "probe", "reserve"}, NEW s \in Slot, Reserved(x, s)
    PROVE  Advances(x)
  <1>1. PICK c : c = [b EXCEPT !.step = "revoke", !.slot = s, !.list = 0, !.taken = {}]
    OBVIOUS
  <1>2. CASE Update(x, c)
    <2>1. c \in Call /\ c.step = "revoke"
      BY <1>1 DEF Call, Steps
    <2>2. Left(c) = 1
      BY <2>1, LeftIs
    <2>3. b # Idle
      BY DEF Idle
    <2>4. Left(b) \in Nat /\ Left(b) >= 2
      BY <2>3, LeftBounds
    <2>5. call'[x] = c
      BY <1>2 DEF Update, IInv, TypeOK
    <2> QED
      BY <2>2, <2>4, <2>5 DEF Advances
  <1> QED
    BY <1>1, <1>2, EndAdvances DEF Reserved, Ends

\* Where an assignment is there it is a slot.
LEMMA AssignmentType ==
    ASSUME IInv, NEW k \in Creds, Assigned(k) PROVE Assignment(k) \in Slot
  BY DEF Assigned, Assignment, IInv, TypeOK, CredentialDoc

LEMMA AdoptAdvances ==
    ASSUME IInv, NEW x \in Clients, NEW b \in Call, b = call[x], CallOK(b),
           b.step \in {"probe", "reserve"}, Assigned(b.k), Adopt(x)
    PROVE  Advances(x)
  <1>1. b.k \in Creds
    BY DEF CallOK
  <1>2. PICK s \in Slot : s = Assignment(b.k)
    BY <1>1, AssignmentType
  <1> QED
    BY <1>2, ReservedAdvances, EndAdvances DEF Adopt, Ends

LEMMA SearchAdvances ==
    ASSUME IInv, NEW x \in Clients, ReadSlots(x) \/ Insert(x)
    PROVE  Advances(x)
  <1>1. PICK b \in Call : b = call[x] /\ CallOK(b)
    BY InFlight
  <1>2. /\ b.step \in {"slots", "insert"} /\ b.list \in Lists /\ b.taken \in SUBSET Slots
        /\ b.k \in New /\ b.taken # Slots /\ (b.step = "slots" => b.taken = {})
    BY <1>1, CallFields DEF ReadSlots, Insert, CallOK
  <1>3. CASE ReadSlots(x)
    <2>1. PICK taken \in SUBSET Slots : Update(x, Passing(b, taken, "insert", "slots"))
      <3>1. OccupiedIn(b.list) \in SUBSET Slots
        <4>1. ASSUME NEW k \in AssignedIn(b.list) PROVE Assignment(k)[2] \in Slots
          BY <1>2, AssignmentType, SlotParts DEF AssignedIn
        <4> QED
          BY <4>1 DEF OccupiedIn
      <3> QED
        BY <1>1, <1>3, <3>1 DEF ReadSlots
    <2>2. PICK c : c = Passing(b, taken, "insert", "slots")
      OBVIOUS
    <2>3. b.step = "slots"
      BY <1>1, <1>3 DEF ReadSlots
    <2>4. Left(c) < Left(b)
      BY <1>2, <2>2, <2>3, PassingAdvances
    <2>5. call'[x] = c
      BY <2>1, <2>2 DEF Update, IInv, TypeOK
    <2> QED
      BY <1>1, <2>4, <2>5 DEF Advances
  <1>4. CASE Insert(x)
    <2>1. b.step = "insert" /\ b.k \in Creds
      BY <1>1, <1>2, <1>4 DEF Insert, Creds
    <2>2. PICK n \in Slots : n = Probe(b.k, b.taken) /\ n \notin b.taken
      BY <1>2, <2>1, ProbeFree
    <2>3. PICK c : c = Passing(b, b.taken \cup {n}, "insert", "slots")
      OBVIOUS
    <2>4. Update(x, Idle) \/ Update(x, c)
      BY <1>1, <1>4, <2>2, <2>3 DEF Insert, AfterConflict, Ends
    <2>5. b.taken \cup {n} \in SUBSET Slots
      BY <1>2
    <2>6. Left(c) < Left(b)
      BY <1>2, <2>1, <2>2, <2>3, <2>5, PassingAdvances
    <2>7. Update(x, c) => call'[x] = c
      BY DEF Update, IInv, TypeOK
    <2> QED
      BY <1>1, <2>4, <2>6, <2>7, EndAdvances DEF Advances
  <1> QED
    BY <1>3, <1>4

LEMMA ProbeAdvances ==
    ASSUME IInv, NEW x \in Clients, ProbeSlot(x) \/ Reserve(x)
    PROVE  Advances(x)
  <1>1. PICK b \in Call : b = call[x] /\ CallOK(b)
    BY InFlight
  <1>2. /\ b.step \in {"probe", "reserve"} /\ b.list \in Lists /\ b.taken \in SUBSET Slots
        /\ b.k \in Creds /\ b.taken # Slots
        /\ (b.step = "reserve" => b.slot \in Slot /\ b.slot[2] \notin b.taken)
    BY <1>1, CallFields DEF ProbeSlot, Reserve, CallOK
  <1>3. ASSUME NEW n \in Slots, n \notin b.taken, Update(x, Passing(b, b.taken \cup {n}, "probe", "probe"))
        PROVE  Advances(x)
    <2>1. PICK c : c = Passing(b, b.taken \cup {n}, "probe", "probe")
      OBVIOUS
    <2>2. b.taken \cup {n} \in SUBSET Slots
      BY <1>2
    <2>3. Left(c) < Left(b)
      BY <1>2, <1>3, <2>1, <2>2, PassingAdvances
    <2>4. call'[x] = c
      BY <1>3, <2>1 DEF Update, IInv, TypeOK
    <2> QED
      BY <1>1, <2>3, <2>4 DEF Advances
  <1>4. CASE ProbeSlot(x)
    <2>1. b.step = "probe"
      BY <1>1, <1>4 DEF ProbeSlot
    <2>2. PICK n \in Slots : n = Probe(b.k, b.taken) /\ n \notin b.taken
      BY <1>2, ProbeFree
    <2>3. PICK s \in Slot : s = <<b.list, n>> /\ s[2] = n
      <3>1. <<b.list, n>> \in Slot /\ <<b.list, n>>[2] = n
        BY <1>2, <2>2 DEF Slot
      <3> QED
        BY <3>1
    <2>4. PICK c : c = [b EXCEPT !.step = "reserve", !.slot = s]
      OBVIOUS
    <2>5. \/ Meanwhile(b.k) /\ Adopt(x)
          \/ Update(x, Passing(b, b.taken \cup {n}, "probe", "probe"))
          \/ Update(x, c)
      BY <1>1, <1>4, <2>2, <2>3, <2>4 DEF ProbeSlot
    <2>6. CASE Update(x, c)
      <3>2. c \in Call /\ c.step = "reserve" /\ c.list = b.list /\ c.taken = b.taken
        BY <2>3, <2>4 DEF Call, Steps
      <3>3. PICK m \in Int : m = 2 + After(b.list) + 2 * (Capacity - Cardinality(b.taken))
        <4>1. After(b.list) \in Nat
          BY <1>2, AfterBounds
        <4>2. Cardinality(b.taken) \in Nat /\ Capacity \in Nat
          BY <1>2, TakenBounds, Constants
        <4>3. 2 + After(b.list) + 2 * (Capacity - Cardinality(b.taken)) \in Int
          BY <4>1, <4>2
        <4> QED
          BY <4>3
      <3>4. Left(c) = m + 0
        BY <1>2, <3>2, <3>3, LeftIs, SearchingIs
      <3>5. Left(b) = m + 1
        BY <1>2, <2>1, <3>3, LeftIs, SearchingIs
      <3>6. call'[x] = c
        BY <2>6 DEF Update, IInv, TypeOK
      <3> QED
        BY <1>1, <3>3, <3>4, <3>5, <3>6 DEF Advances
    <2> QED
      BY <1>1, <1>2, <1>3, <2>2, <2>5, <2>6, AdoptAdvances DEF Meanwhile
  <1>5. CASE Reserve(x)
    <2>1. b.step = "reserve" /\ b.slot \in Slot /\ b.slot[2] \notin b.taken /\ b.slot[2] \in Slots
      BY <1>1, <1>2, <1>5, SlotParts DEF Reserve
    <2>2. \/ Reserved(x, b.slot)
          \/ Meanwhile(b.k) /\ Adopt(x)
          \/ Update(x, Passing(b, b.taken \cup {b.slot[2]}, "probe", "probe"))
      BY <1>1, <1>5 DEF Reserve
    <2> QED
      BY <1>1, <1>2, <1>3, <2>1, <2>2, AdoptAdvances, ReservedAdvances DEF Meanwhile
  <1> QED
    BY <1>4, <1>5

LEMMA EnsureAdvances ==
    ASSUME IInv, NEW x \in Clients, Ensure(x) PROVE Advances(x)
  <1>1. PICK b \in Call : b = call[x] /\ CallOK(b)
    BY InFlight
  <1>2. b.step = "ensure" /\ b.k \in Creds /\ b.taken = {}
    BY <1>1 DEF Ensure, CallOK
  <1>3. CASE Assigned(b.k) /\ Reserved(x, Assignment(b.k))
    <2>1. PICK s \in Slot : s = Assignment(b.k)
      BY <1>2, <1>3, AssignmentType
    <2> QED
      BY <1>1, <1>2, <1>3, <2>1, ReservedAdvances
  <1>4. PICK l \in Lists : l = Latest
    BY LatestType
  <1>5. PICK c : c = [b EXCEPT !.step = "probe", !.list = l]
    OBVIOUS
  <1>6. CASE Update(x, c)
    <2>1. c \in Call /\ c.step = "probe" /\ c.list = l /\ c.taken = {}
      BY <1>2, <1>5, Constants DEF Call, Steps
    <2>2. Cardinality({}) = 0 /\ Capacity \in Nat
      BY TakenBounds, Constants
    <2>3. Left(c) = Searching(1, c)
      BY <2>1, LeftIs
    <2>4. Left(c) = 2 + After(l) + 2 * (Capacity - 0) + 1
      BY <2>1, <2>2, <2>3, SearchingIs
    <2>5. Left(b) = 3 + MaxLists * PerList
      BY <1>2, LeftIs
    <2>6. /\ PerList = 2 * Capacity + 2 /\ After(l) \in Nat /\ MaxLists * PerList \in Nat
          /\ After(l) + PerList <= MaxLists * PerList
      BY AfterBounds
    <2>7. Left(c) < Left(b)
      BY <2>2, <2>4, <2>5, <2>6
    <2>8. call'[x] = c
      BY <1>6 DEF Update, IInv, TypeOK
    <2> QED
      BY <1>1, <2>7, <2>8 DEF Advances
  <1> QED
    BY <1>1, <1>3, <1>4, <1>5, <1>6 DEF Ensure

LEMMA ExpiryAdvances == ASSUME IInv, NEW x \in Clients, MarkExpired(x) PROVE Advances(x)
  <1>1. PICK b \in Call : b = call[x] /\ CallOK(b)
    BY InFlight
  <1>2. b.step = "expire"
    BY <1>1 DEF MarkExpired
  <1>3. PICK c : c = [b EXCEPT !.step = "ensure", !.version = 0]
    OBVIOUS
  <1>4. Update(x, Idle) \/ Update(x, c)
    BY <1>1, <1>3 DEF MarkExpired, Ends
  <1>5. CASE Update(x, c)
    <2>1. c \in Call /\ c.step = "ensure"
      BY <1>3 DEF Call, Steps
    <2>2. MaxLists * PerList \in Nat
      BY AfterBounds, Constants
    <2>3. Left(c) = 3 + MaxLists * PerList /\ Left(b) = 4 + MaxLists * PerList
      BY <1>2, <2>1, LeftIs
    <2>4. call'[x] = c
      BY <1>5 DEF Update, IInv, TypeOK
    <2> QED
      BY <1>1, <2>2, <2>3, <2>4 DEF Advances
  <1> QED
    BY <1>4, <1>5, EndAdvances

LEMMA PublicationAdvances ==
    ASSUME IInv, NEW x \in Clients, ReadRevoked(x) \/ ReadExisting(x) \/ Publish(x)
    PROVE  Advances(x)
  <1>1. PICK b \in Call : b = call[x] /\ CallOK(b)
    BY InFlight
  <1>2. CASE ReadRevoked(x)
    <2>1. PICK bits \in SUBSET Slots : bits = RevokedIn(b.list)
      BY <1>1, <1>2, RevocationsType DEF ReadRevoked, CallOK, IInv
    <2>2. PICK c : c = [b EXCEPT !.step = "existing", !.bits = bits]
      OBVIOUS
    <2>3. c \in Call /\ c.step = "existing" /\ b.step = "revoked"
      BY <1>1, <1>2, <2>2 DEF Call, Steps, ReadRevoked
    <2>4. call'[x] = c
      BY <1>1, <1>2, <2>1, <2>2 DEF ReadRevoked, Update, IInv, TypeOK
    <2>5. Left(c) = 3 /\ Left(b) = 4
      BY <2>3, LeftIs
    <2> QED
      BY <1>1, <2>4, <2>5 DEF Advances
  <1>3. ASSUME NEW p, p = Content(b), Update(x, Answer(b, p)), b.step \in {"existing", "publish"}
        PROVE  Advances(x)
    <2>1. PICK a : a = Answer(b, p)
      OBVIOUS
    <2>2. a \in Call /\ a.step = "answer"
      BY <1>3, <2>1, AnswerCall
    <2>3. call'[x] = a
      BY <1>3, <2>1 DEF Update, IInv, TypeOK
    <2>4. Left(a) = 1 /\ Left(b) \in {2, 3}
      BY <1>3, <2>2, LeftIs
    <2> QED
      BY <1>1, <2>3, <2>4 DEF Advances
  <1>4. CASE ReadExisting(x)
    <2>1. b.step = "existing" /\ b.list \in Lists
      BY <1>1, <1>4 DEF ReadExisting, CallOK
    <2>2. PICK h \in Seq(Publication) : h = publication[b.list]
      BY <2>1 DEF IInv, TypeOK
    <2>3. PICK n \in Nat : n = Len(h)
      OBVIOUS
    <2>4. PICK c : c = [b EXCEPT !.step = "publish", !.version = n]
      OBVIOUS
    <2>5. \/ h[Len(h)] = Content(b) /\ Update(x, Answer(b, h[Len(h)]))
          \/ Update(x, c)
          \/ Update(x, Idle)
      BY <1>1, <1>4, <2>2, <2>3, <2>4 DEF ReadExisting, Current
    <2>6. CASE Update(x, c)
      <3>1. c \in Call /\ c.step = "publish"
        BY <2>4 DEF Call, Steps
      <3>2. call'[x] = c
        BY <2>6 DEF Update, IInv, TypeOK
      <3>3. Left(c) = 2 /\ Left(b) = 3
        BY <2>1, <3>1, LeftIs
      <3> QED
        BY <1>1, <3>2, <3>3 DEF Advances
    <2> QED
      BY <1>3, <2>1, <2>5, <2>6, EndAdvances
  <1>5. CASE Publish(x)
    <2>1. b.step = "publish"
      BY <1>1, <1>5 DEF Publish
    <2>2. PICK h : h = publication[b.list]
      OBVIOUS
    <2>3. \/ Update(x, Answer(b, Content(b)))
          \/ h[Len(h)] = Content(b) /\ Update(x, Answer(b, h[Len(h)]))
          \/ Update(x, Idle)
      BY <1>1, <1>5, <2>2 DEF Publish, Current
    <2> QED
      BY <1>3, <2>1, <2>3, EndAdvances
  <1> QED
    BY <1>2, <1>4, <1>5

\* Every access to the database brings its request nearer to its end, for any number of
\* lists, slots and rivals: the loops that look for a slot are no livelock.
THEOREM CallsAdvance == Spec => EveryCallAdvances
  <1> DEFINE A == \A x \in Clients : call[x] # Idle /\ call'[x] # call[x] => Left(call'[x]) < Left(call[x])
  <1>1. ASSUME IInv, [Next]_vars PROVE A \/ UNCHANGED vars
    <2>1. ASSUME NEW y \in Clients, NEW c, Update(y, c), Advances(y) PROVE A
      BY <1>1, <2>1 DEF Update, Advances, IInv, TypeOK
    <2>2. ASSUME NEW y \in Clients, NEW c, Update(y, c), call[y] = Idle PROVE A
      BY <1>1, <2>2 DEF Update, IInv, TypeOK
    <2>3. ASSUME NEW y \in Clients, Step(y) PROVE A
      <3>1. Advances(y)
        BY <1>1, <2>3, SearchAdvances, ProbeAdvances, EnsureAdvances, ExpiryAdvances, PublicationAdvances,
           EndAdvances DEF Step, Revoke, Respond, Ends
      <3>2. \E c : Update(y, c)
        BY <2>3 DEF Step, ReadSlots, Insert, MarkExpired, Ensure, ProbeSlot, Reserve, Revoke, ReadRevoked,
             ReadExisting, Publish, Respond, Reserved, Adopt, Ends
      <3> QED
        BY <2>1, <3>1, <3>2
    <2>4. ASSUME NEW y \in Clients, CallFails(y) PROVE A
      BY <1>1, <2>1, <2>4, EndAdvances DEF CallFails, Ends
    <2>5. ASSUME NEW y \in Clients, SignRequest(y) \/ RevokeRequest(y) \/ StatusRequest(y) \/ ListRequest(y)
          PROVE  A
      BY <2>2, <2>5 DEF SignRequest, RevokeRequest, StatusRequest, ListRequest, OpenIssue, OpenRevoke,
           OpenStatus, OpenPublication
    <2>6. ASSUME NEW k \in Expiring, Passes(k) PROVE A
      BY <2>6 DEF Passes
    <2> QED
      BY <1>1, <2>3, <2>4, <2>5, <2>6 DEF Next
  <1>2. IInv /\ [Next]_vars => [A]_vars
    BY <1>1
  <1> QED
    BY <1>2, Invariant, PTL DEF Spec, EveryCallAdvances
=============================================================================
