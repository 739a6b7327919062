----------------------------- MODULE Contracts -----------------------------
(***************************************************************************)
(* The two contracts of the blockchain layer that carry a protocol:        *)
(* DIDRegistry, which maps identifiers to their owner and owners back to   *)
(* an identifier, and EmergencyRecovery, in which two of three guardians   *)
(* move a wallet to a new owner.                                           *)
(*                                                                         *)
(* A transaction is atomic, so an action is one external function called   *)
(* by msg.sender: its guard is the conjunction of the modifier and the     *)
(* require statements (a call that fails one reverts and changes           *)
(* nothing), its effect the assignments.  Transactions of different        *)
(* senders arrive in any order.  Events and timestamps are left out.       *)
(***************************************************************************)
EXTENDS Integers, FiniteSets

CONSTANTS
    Addresses,  \* the accounts
    ZeroAddress,
    Wallets,    \* the accounts that may configure guardians
    Admin,      \* the deployer, owner of EmergencyRecovery
    Dids, NoDid,
    Hashes, NoHash  \* hashes of credentials, and bytes32(0)

ASSUME AccountsAssumption ==
    /\ ZeroAddress \notin Addresses
    /\ Wallets \subseteq Addresses
    /\ Admin \in Addresses
    /\ NoDid \notin Dids
    /\ NoHash \notin Hashes

VARIABLES
    didOwner,     \* DIDRegistry._didRecords: owner, ZeroAddress until registered
    vcHash,       \* DIDRegistry._didRecords: hash of the credential
    ownerToDID,   \* DIDRegistry._ownerToDID, the reverse lookup
    guardians,    \* _walletConfigs: the three guardians, {} until configured
    walletOwner,  \* _walletConfigs: current owner
    request,      \* _recoveryRequests
    hasApproved,  \* _hasApproved: the accounts whose flag is set
    quarantined   \* _isQuarantined

registry == <<didOwner, vcHash, ownerToDID>>
recovery == <<guardians, walletOwner, request, hasApproved, quarantined>>
vars == <<didOwner, vcHash, ownerToDID, guardians, walletOwner, request,
          hasApproved, quarantined>>

GUARDIAN_COUNT == 3
REQUIRED_APPROVALS == 2

RecoveryRequest ==
    [proposedNewOwner : Addresses \cup {ZeroAddress},
     approvalCount : Nat,
     executed : BOOLEAN,
     active : BOOLEAN]

\* The storage of a request that was never made.
NoRequest == [proposedNewOwner |-> ZeroAddress, approvalCount |-> 0,
              executed |-> FALSE, active |-> FALSE]

Init ==
    /\ didOwner = [d \in Dids |-> ZeroAddress]
    /\ vcHash = [d \in Dids |-> NoHash]
    /\ ownerToDID = [a \in Addresses |-> NoDid]
    /\ guardians = [w \in Addresses |-> {}]
    /\ walletOwner = [w \in Addresses |-> ZeroAddress]
    /\ request = [w \in Addresses |-> NoRequest]
    /\ hasApproved = [w \in Addresses |-> {}]
    /\ quarantined = {}

-----------------------------------------------------------------------------
(* DIDRegistry *)

Exists(d) == didOwner[d] # ZeroAddress

RegisterDID(sender, d, h) ==
    /\ ~Exists(d)
    /\ didOwner' = [didOwner EXCEPT ![d] = sender]
    /\ vcHash' = [vcHash EXCEPT ![d] = h]
    /\ ownerToDID' = [ownerToDID EXCEPT ![sender] = d]
    /\ UNCHANGED recovery

UpdateVCHash(sender, d, h) ==
    /\ didOwner[d] = sender
    /\ h # vcHash[d]
    /\ vcHash' = [vcHash EXCEPT ![d] = h]
    /\ UNCHANGED <<didOwner, ownerToDID, recovery>>

\* Variant: the old owner's reverse entry is not deleted.
ReverseKept(from, to, d) == [ownerToDID EXCEPT ![to] = d]

\* The reverse entries after d went from one owner to another: the old owner's is
\* deleted whichever identifier it named, the new owner's is overwritten.
ReverseAfter(from, to, d) ==
    [ownerToDID EXCEPT ![from] = NoDid, ![to] = d]

TransferDIDOwnership(sender, d, newOwner) ==
    /\ didOwner[d] = sender
    /\ newOwner # sender
    /\ didOwner' = [didOwner EXCEPT ![d] = newOwner]
    /\ ownerToDID' = ReverseAfter(sender, newOwner, d)
    /\ UNCHANGED <<vcHash, recovery>>

-----------------------------------------------------------------------------
(* EmergencyRecovery *)

IsConfigured(w) == walletOwner[w] # ZeroAddress

\* Three distinct accounts, the caller not among them.
Team(sender, team) ==
    /\ team \subseteq Addresses
    /\ Cardinality(team) = GUARDIAN_COUNT
    /\ sender \notin team

ConfigureGuardians(sender, team) ==
    /\ ~IsConfigured(sender)
    /\ Team(sender, team)
    /\ guardians' = [guardians EXCEPT ![sender] = team]
    /\ walletOwner' = [walletOwner EXCEPT ![sender] = sender]
    /\ UNCHANGED <<registry, request, hasApproved, quarantined>>

\* Variant: the flags of the request before are not cleared.
FlagsLeft(w, g) == hasApproved[w] \cup {g}

\* The flags once the three guardians' were cleared and the initiator's set.
FlagsOnInitiation(w, g) == (hasApproved[w] \ guardians[w]) \cup {g}

\* The initiator's call is his approval.
InitiateRecovery(sender, w, newOwner) ==
    /\ IsConfigured(w)
    /\ sender \in guardians[w]
    /\ newOwner # walletOwner[w]
    /\ ~request[w].active \/ request[w].executed
    /\ request' = [request EXCEPT ![w] =
                     [proposedNewOwner |-> newOwner, approvalCount |-> 1,
                      executed |-> FALSE, active |-> TRUE]]
    /\ hasApproved' = [hasApproved EXCEPT ![w] = FlagsOnInitiation(w, sender)]
    /\ UNCHANGED <<registry, guardians, walletOwner, quarantined>>

\* Variant: an account that has approved may approve again.
MayApproveAgain(sender, w) ==
    /\ IsConfigured(w)
    /\ sender \in guardians[w]
    /\ request[w].active
    /\ ~request[w].executed

\* A guardian approves the active request, whatever owner it proposes.
MayApprove(sender, w) ==
    /\ IsConfigured(w)
    /\ sender \in guardians[w]
    /\ request[w].active
    /\ ~request[w].executed
    /\ sender \notin hasApproved[w]

\* The request and the owner once its approvals are n: the one that completes the
\* quorum executes the recovery in the same transaction.
Approved(w, n) ==
    IF n >= REQUIRED_APPROVALS
      THEN /\ request' = [request EXCEPT ![w] =
                            [@ EXCEPT !.approvalCount = n, !.executed = TRUE,
                                      !.active = FALSE]]
           /\ walletOwner' = [walletOwner EXCEPT ![w] = request[w].proposedNewOwner]
      ELSE /\ request' = [request EXCEPT ![w] = [@ EXCEPT !.approvalCount = n]]
           /\ UNCHANGED walletOwner

ApproveRecovery(sender, w) ==
    /\ MayApprove(sender, w)
    /\ hasApproved' = [hasApproved EXCEPT ![w] = @ \cup {sender}]
    /\ Approved(w, request[w].approvalCount + 1)
    /\ UNCHANGED <<registry, guardians, quarantined>>

\* The condition of executeRecovery, which anyone may call.  ApprovalsCounted shows
\* that no call of it ever meets it, so that it is no action of its own.
ExecutableByHand(w) ==
    /\ request[w].active
    /\ ~request[w].executed
    /\ request[w].approvalCount >= REQUIRED_APPROVALS

\* approvalCount keeps its value: the next initiation overwrites it.
CancelRecovery(sender, w) ==
    /\ IsConfigured(w)
    /\ walletOwner[w] = sender
    /\ request[w].active
    /\ ~request[w].executed
    /\ request' = [request EXCEPT ![w] = [@ EXCEPT !.active = FALSE]]
    /\ hasApproved' = [hasApproved EXCEPT ![w] = @ \ guardians[w]]
    /\ UNCHANGED <<registry, guardians, walletOwner, quarantined>>

\* The two quarantine functions of the administrator; no other function reads the flag.
SetQuarantine(sender, w) ==
    /\ sender = Admin
    /\ quarantined' \in {quarantined \cup {w}, quarantined \ {w}}
    /\ UNCHANGED <<registry, guardians, walletOwner, request, hasApproved>>

-----------------------------------------------------------------------------
RegistryCall(sender) ==
    \E d \in Dids :
       \/ \E h \in Hashes : RegisterDID(sender, d, h)
       \/ \E h \in Hashes : UpdateVCHash(sender, d, h)
       \/ \E a \in Addresses : TransferDIDOwnership(sender, d, a)

RecoveryCall(sender) ==
    \E w \in Wallets :
       \/ \E a \in Addresses : InitiateRecovery(sender, w, a)
       \/ ApproveRecovery(sender, w)
       \/ CancelRecovery(sender, w)
       \/ SetQuarantine(sender, w)

Next ==
    \E sender \in Addresses :
       \/ RegistryCall(sender)
       \/ RecoveryCall(sender)
       \/ \E team \in SUBSET Addresses :
             sender \in Wallets /\ ConfigureGuardians(sender, team)

Spec == Init /\ [][Next]_vars

-----------------------------------------------------------------------------
\* The contracts' storage holds values of the declared types.
TypeOK ==
    /\ didOwner \in [Dids -> Addresses \cup {ZeroAddress}]
    /\ vcHash \in [Dids -> Hashes \cup {NoHash}]
    /\ ownerToDID \in [Addresses -> Dids \cup {NoDid}]
    /\ guardians \in [Addresses -> SUBSET Addresses]
    /\ walletOwner \in [Addresses -> Addresses \cup {ZeroAddress}]
    /\ request \in [Addresses -> RecoveryRequest]
    /\ hasApproved \in [Addresses -> SUBSET Addresses]
    /\ quarantined \subseteq Addresses

\* The reverse lookup never names an identifier that the account no longer owns,
\* although an account that owns several has one entry, which registration
\* overwrites and a transfer deletes whichever identifier it names.
ReverseIsOwned ==
    \A a \in Addresses : ownerToDID[a] # NoDid => didOwner[ownerToDID[a]] = a

\* The counter of an active request is the number of guardians whose flag is set,
\* through initiation, cancellation and execution in any order, and a request that
\* has its quorum is no longer active: executeRecovery always reverts.
ApprovalsCounted ==
    \A w \in Wallets : request[w].active =>
       /\ hasApproved[w] \subseteq guardians[w]
       /\ request[w].approvalCount = Cardinality(hasApproved[w])
       /\ ~ExecutableByHand(w)

\* A configured wallet changes its owner only to the owner an active request
\* proposes, and only when two of its guardians have approved that request, none
\* of them for a request that was cancelled or executed before.
OwnedByQuorum ==
    [][\A w \in Wallets : IsConfigured(w) /\ walletOwner'[w] # walletOwner[w] =>
          /\ request[w].active
          /\ walletOwner'[w] = request[w].proposedNewOwner
          /\ hasApproved'[w] \subseteq guardians[w]
          /\ Cardinality(hasApproved'[w]) >= REQUIRED_APPROVALS]_vars
=============================================================================
