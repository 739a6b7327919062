---------------------------- MODULE Credentials ----------------------------
\* Credentials of the identity service: issuance with a slot of a bitstring status
\* list, slots of credentials from before status lists, revocation, expiry, and the
\* publication of the lists.
\*
\* A slot is reserved in one of two collections, each with a unique index of its own:
\* an issued credential embeds its slot, a legacy one gets a status entry. A call in
\* flight is a record that says which access to the database comes next.
EXTENDS Integers, Sequences, FiniteSets

CONSTANTS
    Legacy,         \* credentials stored before status lists
    New,            \* identifiers of credentials to be issued
    Expiring,       \* credentials with an expiration date
    Watched,        \* sequences of the lists whose publication is asked for
    Candidate,      \* hash of each identifier: the first slot that is tried
    Capacity,       \* slots of a list that may be assigned
    MaxLists,       \* sequences of lists (999,999 in the code)
    MaxVersion,     \* bound on the versions of a list at which a publication begins
    Clients         \* concurrent requests

VARIABLES
    credential,     \* collection credentials
    entry,          \* collection credential_status_entries: slot of a credential
    publication,    \* collection status_lists: history of each list
    outbox,         \* credentials with a CREDENTIAL_REVOKED outbox record
    due,            \* credentials past their expiration date
    call            \* request in flight, per client

vars == <<credential, entry, publication, outbox, due, call>>

Creds == Legacy \cup New
Lists == 1 .. MaxLists
Slots == 0 .. Capacity - 1
None == "none"
NoSlot == <<0, 0>>
Slot == Lists \X Slots

ASSUME CredentialAssumptions ==
    /\ Legacy \cap New = {} /\ None \notin Creds /\ IsFiniteSet(Creds)
    /\ {Capacity, MaxLists} \subseteq Nat \ {0} /\ MaxVersion \in Nat
    /\ Candidate \in [Creds -> Slots]
    /\ Expiring \subseteq Creds /\ Watched \subseteq Lists

\* Absent until issued. The legacy statuses stored and verified are read as ACTIVE;
\* no operation suspends a credential.
Status == {"ABSENT", "ACTIVE", "EXPIRED", "REVOKED"}
CredentialDoc ==
    [status : Status, slot : Slot \cup {NoSlot}, issued : BOOLEAN, version : Nat]
Publication == [encoded : [Slots -> {0, 1}], assigned : Nat]

Steps == {"idle", "slots", "insert", "ensure", "probe", "reserve", "revoke", "expire",
          "revoked", "existing", "publish", "answer"}
Call ==
    [step : Steps, k : Creds \cup {None}, revoking : BOOLEAN, version : Nat,
     list : Nat, taken : SUBSET Slots, slot : Slot \cup {NoSlot},
     bits : SUBSET Slots, assigned : Nat, must : SUBSET Slots]
Idle ==
    [step |-> "idle", k |-> None, revoking |-> FALSE, version |-> 0, list |-> 0,
     taken |-> {}, slot |-> NoSlot, bits |-> {}, assigned |-> 0, must |-> {}]

\* RevocationPolicy.require_transition
Transitions == {<<"ACTIVE", "EXPIRED">>, <<"ACTIVE", "REVOKED">>, <<"EXPIRED", "REVOKED">>}

\* Some credentials are there from before status lists, some of them revoked.
Init ==
    /\ \E gone \in SUBSET Legacy :
        credential = [k \in Creds |->
            [status |-> IF k \in New THEN "ABSENT" ELSE IF k \in gone THEN "REVOKED" ELSE "ACTIVE",
             slot |-> NoSlot, issued |-> FALSE, version |-> IF k \in New THEN 0 ELSE 1]]
    /\ entry = [k \in Creds |-> NoSlot]
    /\ publication = [l \in Lists |-> <<>>]
    /\ outbox = {}
    /\ due = {}
    /\ call = [x \in Clients |-> Idle]

-----------------------------------------------------------------------------
\* Repositories; each query is one step

\* get_by_credential_id: the embedded assignment first, then the entry.
Assignment(k) == IF credential[k].issued THEN credential[k].slot ELSE entry[k]
Assigned(k) == Assignment(k) # NoSlot

\* list_by_status_list: entries and embedded assignments, by credential.
AssignedIn(l) == {k \in Creds : Assigned(k) /\ Assignment(k)[1] = l}
OccupiedIn(l) == {Assignment(k)[2] : k \in AssignedIn(l)}

\* revoked_indices: through the entries, and of the documents that name the list.
RevokedIn(l) ==
    {entry[k][2] : k \in {k \in Creds : credential[k].status = "REVOKED" /\ entry[k][1] = l}}
        \cup {credential[k].slot[2] :
                k \in {k \in Creds : credential[k].status = "REVOKED" /\ credential[k].slot[1] = l}}

\* list_status_list_ids: the last list in use.
Latest ==
    LET used == {l \in Lists : AssignedIn(l) # {}} IN
    IF used = {} THEN 1 ELSE CHOOSE l \in used : \A m \in used : m <= l

\* The unique indices on the slots of the two collections.
HeldInCredentials(k, s) == \E j \in Creds \ {k} : credential[j].slot = s
HeldInEntries(s) == \E j \in Creds : entry[j] = s

Update(x, c) == call' = [call EXCEPT ![x] = c]
Ends(x) == Update(x, Idle)

\* Variant: the search does not go round.
ProbeStraight(k, taken) ==
    LET at(o) == Candidate[k] + o
        o == CHOOSE n \in Slots : at(n) \notin taken /\ \A m \in 0 .. n - 1 : at(m) \in taken
    IN at(o)

\* The first free slot from the hashed candidate on, going round.
Probe(k, taken) ==
    LET at(o) == (Candidate[k] + o) % Capacity
        o == CHOOSE n \in Slots : at(n) \notin taken /\ \A m \in 0 .. n - 1 : at(m) \in taken
    IN at(o)

\* The call after some slots of its list were found taken: the next list, or the end,
\* when there are no more.
Passing(c, taken, step, first) ==
    IF taken # Slots THEN [c EXCEPT !.step = step, !.taken = taken, !.slot = NoSlot]
    ELSE IF c.list < MaxLists
    THEN [c EXCEPT !.step = first, !.taken = {}, !.slot = NoSlot, !.list = @ + 1]
    ELSE Idle

-----------------------------------------------------------------------------
\* Issuance

\* sign_credential, _issue: a credential without an assignment starts at the last list.
OpenIssue(x, k) ==
    /\ call[x] = Idle
    /\ ~Assigned(k)
    /\ Update(x, [Idle EXCEPT !.step = "slots", !.k = k, !.list = Latest])
    /\ UNCHANGED <<credential, entry, publication, outbox, due>>

\* The slots of the list are read; a full list is passed over.
ReadSlots(x) ==
    /\ call[x].step = "slots"
    /\ LET c == call[x]
           full == Cardinality(AssignedIn(c.list)) >= Capacity
       IN Update(x, Passing(c, IF full THEN Slots ELSE OccupiedIn(c.list), "insert", "slots"))
    /\ UNCHANGED <<credential, entry, publication, outbox, due>>

\* Variant: the same slot is tried again.
AfterConflictAgain(c, s) == [c EXCEPT !.step = "slots"]

\* A slot that was reserved meanwhile is passed over without reading the list again.
AfterConflict(c, s) == Passing(c, c.taken \cup {s}, "insert", "slots")

\* The document of an issued credential holds the slot that its proof covers.
Issued(s) == [status |-> "ACTIVE", slot |-> s, issued |-> TRUE, version |-> 1]

\* issue: one insertion of the signed credential with its slot.
Insert(x) ==
    /\ call[x].step = "insert"
    /\ LET c == call[x]
           s == <<c.list, Probe(c.k, c.taken)>>
       IN \/ /\ credential[c.k].status # "ABSENT"
             /\ Ends(x)
             /\ UNCHANGED credential
          \/ /\ credential[c.k].status = "ABSENT"
             /\ HeldInCredentials(c.k, s)
             /\ Update(x, AfterConflict(c, s[2]))
             /\ UNCHANGED credential
          \/ /\ credential[c.k].status = "ABSENT"
             /\ ~HeldInCredentials(c.k, s)
             /\ credential' = [credential EXCEPT ![c.k] = Issued(s)]
             /\ Ends(x)
    /\ UNCHANGED <<entry, publication, outbox, due>>

-----------------------------------------------------------------------------
\* Revocation and status

\* revoke: a revoked credential only gets its entry and outbox record completed.
OpenRevoke(x, k) ==
    /\ call[x] = Idle
    /\ credential[k].status = "REVOKED" \/ <<credential[k].status, "REVOKED">> \in Transitions
    /\ Update(x, [Idle EXCEPT !.step = "ensure", !.k = k, !.version = credential[k].version,
                              !.revoking = credential[k].status # "REVOKED"])
    /\ UNCHANGED <<credential, entry, publication, outbox, due>>

\* effective_status: a revoked credential does not expire.
Effective(k) ==
    IF credential[k].status # "REVOKED" /\ k \in due THEN "EXPIRED" ELSE credential[k].status

\* get_status of a credential whose expiry is to be stored; of a revoked one it does
\* what revoke does, of any other it changes nothing here.
OpenStatus(x, k) ==
    /\ call[x] = Idle
    /\ <<credential[k].status, Effective(k)>> \in Transitions
    /\ Update(x, [Idle EXCEPT !.step = "expire", !.k = k, !.version = credential[k].version])
    /\ UNCHANGED <<credential, entry, publication, outbox, due>>

\* Variant: expiry is stored over whatever the status has become.
ExpirableAnyway(k, v) == credential[k].status # "ABSENT"

\* mark_expired: the version that was read.
Expirable(k, v) == credential[k].version = v /\ credential[k].status = "ACTIVE"

MarkExpired(x) ==
    /\ call[x].step = "expire"
    /\ LET c == call[x] IN
       \/ /\ Expirable(c.k, c.version)
          /\ credential' = [credential EXCEPT ![c.k].status = "EXPIRED", ![c.k].version = @ + 1]
          /\ Ends(x)
       \/ /\ ~Expirable(c.k, c.version)
          /\ Update(x, IF credential[c.k].status = "REVOKED"
                       THEN [c EXCEPT !.step = "ensure", !.version = 0] ELSE Idle)
          /\ UNCHANGED credential
    /\ UNCHANGED <<entry, publication, outbox, due>>

\* The outbox record of a revocation: its identifier is derived from the credential's, so
\* that there is one at most, embedded or of its own.
Recorded(k) == outbox' = outbox \cup {k}

\* What follows once the call has a slot s: the revocation itself or, of a credential
\* that is revoked already, the outbox record that may be missing.
Reserved(x, s) ==
    IF call[x].revoking
    THEN /\ Update(x, [call[x] EXCEPT !.step = "revoke", !.slot = s, !.list = 0, !.taken = {}])
         /\ UNCHANGED outbox
    ELSE /\ Recorded(call[x].k)
         /\ Ends(x)

\* ensure_entry: the assignment there is, or a search from the last list on.
Ensure(x) ==
    /\ call[x].step = "ensure"
    /\ \/ /\ Assigned(call[x].k)
          /\ Reserved(x, Assignment(call[x].k))
       \/ /\ ~Assigned(call[x].k)
          /\ Update(x, [call[x] EXCEPT !.step = "probe", !.list = Latest])
          /\ UNCHANGED outbox
    /\ UNCHANGED <<credential, entry, publication, due>>

\* ensure looks for an assignment at the start of each list and after a duplicate.
Meanwhile(k) == Assigned(k)

\* An assignment another call made in the same list is used; in another list it is a conflict.
Adopt(x) ==
    \/ /\ Assignment(call[x].k)[1] = call[x].list
       /\ Reserved(x, Assignment(call[x].k))
    \/ /\ Assignment(call[x].k)[1] # call[x].list
       /\ Ends(x)
       /\ UNCHANGED outbox

\* ensure: the next slot, unless a credential holds it.
ProbeSlot(x) ==
    /\ call[x].step = "probe"
    /\ LET c == call[x]
           s == <<c.list, Probe(c.k, c.taken)>>
       IN \/ /\ c.taken = {} /\ Meanwhile(c.k)
             /\ Adopt(x)
          \/ /\ ~(c.taken = {} /\ Meanwhile(c.k))
             /\ Update(x, IF HeldInCredentials(c.k, s)
                          THEN Passing(c, c.taken \cup {s[2]}, "probe", "probe")
                          ELSE [c EXCEPT !.step = "reserve", !.slot = s])
             /\ UNCHANGED outbox
    /\ UNCHANGED <<credential, entry, publication, due>>

\* ensure: the entry is inserted, or the slot or the credential has one by now.
Reserve(x) ==
    /\ call[x].step = "reserve"
    /\ LET c == call[x]
           duplicate == HeldInEntries(c.slot) \/ entry[c.k] # NoSlot
       IN \/ /\ ~duplicate
             /\ entry' = [entry EXCEPT ![c.k] = c.slot]
             /\ Reserved(x, c.slot)
          \/ /\ duplicate /\ Meanwhile(c.k)
             /\ Adopt(x)
             /\ UNCHANGED entry
          \/ /\ duplicate /\ ~Meanwhile(c.k)
             /\ Update(x, Passing(c, c.taken \cup {c.slot[2]}, "probe", "probe"))
             /\ UNCHANGED <<entry, outbox>>
    /\ UNCHANGED <<credential, publication, due>>

\* Variant: the first slot of the list is embedded.
RevokedAsElsewhere(k, s) ==
    [credential[k] EXCEPT !.status = "REVOKED", !.slot = <<s[1], 0>>, !.issued = TRUE, !.version = @ + 1]

\* The update that revokes embeds the slot and names its entry.
RevokedAs(k, s) ==
    [credential[k] EXCEPT !.status = "REVOKED", !.slot = s, !.issued = TRUE, !.version = @ + 1]

Revocable(k, v) == credential[k].version = v /\ credential[k].status \in {"ACTIVE", "EXPIRED"}

\* revoke of the repository: one update with the outbox record in it. It ends with a
\* conflict, or with an unavailable database when another credential holds the slot.
Revoke(x) ==
    /\ call[x].step = "revoke"
    /\ LET c == call[x] IN
       IF Revocable(c.k, c.version) /\ ~HeldInCredentials(c.k, c.slot)
       THEN /\ credential' = [credential EXCEPT ![c.k] = RevokedAs(c.k, c.slot)]
            /\ Recorded(c.k)
       ELSE UNCHANGED <<credential, outbox>>
    /\ Ends(x)
    /\ UNCHANGED <<entry, publication, due>>

-----------------------------------------------------------------------------
\* Publication

\* get_publication: the assigned entries, then the revoked ones, then the publication
\* there is. The bound keeps publications that overtake each other apart.
OpenPublication(x, l) ==
    /\ call[x] = Idle
    /\ AssignedIn(l) # {}
    /\ Len(publication[l]) <= MaxVersion
    /\ Update(x, [Idle EXCEPT !.step = "revoked", !.list = l,
                              !.assigned = Cardinality(AssignedIn(l)), !.must = RevokedIn(l)])
    /\ UNCHANGED <<credential, entry, publication, outbox, due>>

ReadRevoked(x) ==
    /\ call[x].step = "revoked"
    /\ Update(x, [call[x] EXCEPT !.step = "existing", !.bits = RevokedIn(call[x].list)])
    /\ UNCHANGED <<credential, entry, publication, outbox, due>>

\* encode_status_list: one bit per slot.
Encoded(indices) == [s \in Slots |-> IF s \in indices THEN 1 ELSE 0]

\* _publication_fingerprint: the encoded list and the number of entries.
Content(c) == [encoded |-> Encoded(c.bits), assigned |-> c.assigned]

\* Variant: the publication there is answers, whatever has changed.
CurrentAlways(h, c) == h # <<>>

\* The publication there is has the content that was read.
Current(h, c) == h # <<>> /\ h[Len(h)] = Content(c)

\* What the constructor of a publication demands.
Consistent(c) == Cardinality(c.bits) <= c.assigned /\ c.assigned <= Capacity

\* The status list credential that is answered with shows the encoded bits.
Answer(c, p) == [Idle EXCEPT !.step = "answer", !.list = c.list, !.must = c.must,
                             !.bits = {s \in Slots : p.encoded[s] = 1}]

ReadExisting(x) ==
    /\ call[x].step = "existing"
    /\ LET c == call[x]
           h == publication[c.list]
       IN Update(x, IF Current(h, c) THEN Answer(c, h[Len(h)])
                    ELSE IF Consistent(c) THEN [c EXCEPT !.step = "publish", !.version = Len(h)]
                    ELSE Idle)
    /\ UNCHANGED <<credential, entry, publication, outbox, due>>

\* publish: the first version, or over the version that was read.
Replaceable(l, v) == Len(publication[l]) = v

\* The history of the version that was read, and the new one.
Appended(h, v, c) == Append(SubSeq(h, 1, v), Content(c))

\* publish; a publication that lost answers with the other one if it is the same.
Publish(x) ==
    /\ call[x].step = "publish"
    /\ LET c == call[x]
           h == publication[c.list]
       IN \/ /\ Replaceable(c.list, c.version)
             /\ publication' = [publication EXCEPT ![c.list] = Appended(h, c.version, c)]
             /\ Update(x, Answer(c, Content(c)))
          \/ /\ ~Replaceable(c.list, c.version)
             /\ Update(x, IF Current(h, c) THEN Answer(c, h[Len(h)]) ELSE Idle)
             /\ UNCHANGED publication
    /\ UNCHANGED <<credential, entry, outbox, due>>

\* get_status_list answers.
Respond(x) ==
    /\ call[x].step = "answer"
    /\ Ends(x)
    /\ UNCHANGED <<credential, entry, publication, outbox, due>>

-----------------------------------------------------------------------------
\* The database cannot be reached, or the process stops: a call ends where it is.
CallFails(x) ==
    /\ call[x] # Idle
    /\ Ends(x)
    /\ UNCHANGED <<credential, entry, publication, outbox, due>>

\* A credential passes its expiration date.
Passes(k) ==
    /\ k \notin due
    /\ due' = due \cup {k}
    /\ UNCHANGED <<credential, entry, publication, outbox, call>>

Step(x) ==
    \/ ReadSlots(x) \/ Insert(x)
    \/ MarkExpired(x) \/ Ensure(x) \/ ProbeSlot(x) \/ Reserve(x) \/ Revoke(x)
    \/ ReadRevoked(x) \/ ReadExisting(x) \/ Publish(x) \/ Respond(x)

\* The routes; a status request of a revoked credential does what a revocation does.
SignRequest(x) == \E k \in New : OpenIssue(x, k)
RevokeRequest(x) == \E k \in Creds : OpenRevoke(x, k)
StatusRequest(x) == \E k \in Creds : OpenStatus(x, k)
ListRequest(x) == \E l \in Watched : OpenPublication(x, l)

Next ==
    \/ \E x \in Clients : Step(x) \/ CallFails(x)
    \/ \E x \in Clients : SignRequest(x) \/ RevokeRequest(x) \/ StatusRequest(x) \/ ListRequest(x)
    \/ \E k \in Expiring : Passes(k)

Spec == Init /\ [][Next]_vars

-----------------------------------------------------------------------------
\* Properties

\* Every document and call has the fields its type allows.
TypeOK ==
    /\ credential \in [Creds -> CredentialDoc]
    /\ entry \in [Creds -> Slot \cup {NoSlot}]
    /\ publication \in [Lists -> Seq(Publication)]
    /\ outbox \subseteq Creds /\ due \subseteq Expiring
    /\ call \in [Clients -> Call]

\* A credential never moves between slots: an assignment, in whichever of the two
\* collections it was made, is never lost or changed (ensure_entry, revoke).
NeverMoves ==
    [][\A k \in Creds : Assigned(k) => Assignment(k)' = Assignment(k)]_vars

\* A revoked credential stays revoked and an expired one is only ever revoked,
\* although calls that read it earlier write later (mark_expired, revoke).
RevokedForGood ==
    [][\A k \in Creds :
        /\ credential[k].status = "REVOKED" => credential'[k] = credential[k]
        /\ credential[k].status = "EXPIRED" => credential[k]'.status \in {"EXPIRED", "REVOKED"}]_vars

\* Whoever asks for a list after a revocation gets a list with that revocation in it
\* (get_publication), even when a publication that began earlier is stored meanwhile.
FreshAnswers == \A x \in Clients : call[x].step = "answer" => call[x].must \subseteq call[x].bits

\* The steps a call has left at most.
Searching(n, c) == 2 + (MaxLists - c.list) * (2 * Capacity + 2) + 2 * (Capacity - Cardinality(c.taken)) + n
Left(c) ==
    CASE c.step = "expire" -> 4 + MaxLists * (2 * Capacity + 2)
      [] c.step = "ensure" -> 3 + MaxLists * (2 * Capacity + 2)
      [] c.step \in {"slots", "probe"} -> Searching(1, c)
      [] c.step \in {"insert", "reserve"} -> Searching(0, c)
      [] c.step = "revoked" -> 4
      [] c.step = "existing" -> 3
      [] c.step = "publish" -> 2
      [] c.step \in {"revoke", "answer"} -> 1
      [] OTHER -> 0

\* Every request comes nearer to its end with each access to the database, however often
\* the slots it tries are taken by others in between (the loops of _issue and ensure).
EveryCallAdvances ==
    [][\A x \in Clients : call[x] # Idle /\ call'[x] # call[x] => Left(call'[x]) < Left(call[x])]_vars

=============================================================================
