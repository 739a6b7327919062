-------------------------- MODULE ContractsProofs --------------------------
(***************************************************************************)
(* Machine-checked proofs about Contracts, for every value of its          *)
(* constants.                                                              *)
(***************************************************************************)
EXTENDS Contracts, FiniteSetTheorems, TLAPS

USE AccountsAssumption

LEMMA InitTypeOK == Init => TypeOK
    BY DEF Init, TypeOK, RecoveryRequest, NoRequest

LEMMA RegistryTypeOK ==
    ASSUME TypeOK, NEW sender \in Addresses, RegistryCall(sender)
    PROVE  TypeOK'
<1>1. UNCHANGED recovery
    BY DEF RegistryCall, RegisterDID, UpdateVCHash, TransferDIDOwnership
<1>2. /\ didOwner' \in [Dids -> Addresses \cup {ZeroAddress}]
      /\ vcHash' \in [Dids -> Hashes \cup {NoHash}]
      /\ ownerToDID' \in [Addresses -> Dids \cup {NoDid}]
  <2> PICK d \in Dids, h \in Hashes \cup {NoHash}, a \in Addresses :
        \/ RegisterDID(sender, d, h) /\ h \in Hashes
        \/ UpdateVCHash(sender, d, h) /\ h \in Hashes
        \/ TransferDIDOwnership(sender, d, a)
      BY DEF RegistryCall
  <2>. QED
      BY DEF TypeOK, RegisterDID, UpdateVCHash, TransferDIDOwnership, ReverseAfter
<1>. QED  BY <1>1, <1>2 DEF TypeOK, recovery

LEMMA RecoveryTypeOK ==
    ASSUME TypeOK, NEW sender \in Addresses, RecoveryCall(sender),
           Wallets \subseteq Addresses
    PROVE  TypeOK'
<1>1. PICK w \in Wallets :
        \/ \E a \in Addresses : InitiateRecovery(sender, w, a)
        \/ ApproveRecovery(sender, w)
        \/ CancelRecovery(sender, w)
        \/ SetQuarantine(sender, w)
    BY DEF RecoveryCall
<1>2. w \in Addresses /\ request[w] \in RecoveryRequest /\ UNCHANGED registry
    BY <1>1 DEF TypeOK, InitiateRecovery, ApproveRecovery, CancelRecovery, SetQuarantine
<1>3. UNCHANGED guardians
    BY <1>1 DEF InitiateRecovery, ApproveRecovery, CancelRecovery, SetQuarantine
<1> SUFFICES /\ walletOwner' \in [Addresses -> Addresses \cup {ZeroAddress}]
             /\ request' \in [Addresses -> RecoveryRequest]
             /\ hasApproved' \in [Addresses -> SUBSET Addresses]
             /\ quarantined' \subseteq Addresses
    BY <1>2, <1>3 DEF TypeOK, registry
<1>4. CASE \E a \in Addresses : InitiateRecovery(sender, w, a)
  <2> PICK a \in Addresses : InitiateRecovery(sender, w, a)
      BY <1>4
  <2>1. [proposedNewOwner |-> a, approvalCount |-> 1,
         executed |-> FALSE, active |-> TRUE] \in RecoveryRequest
      BY DEF RecoveryRequest
  <2>. QED  BY <2>1, <1>2 DEF TypeOK, InitiateRecovery, FlagsOnInitiation
<1>5. CASE ApproveRecovery(sender, w)
  <2> DEFINE n == request[w].approvalCount + 1
             q == [request[w] EXCEPT !.approvalCount = n, !.executed = TRUE,
                                     !.active = FALSE]
             p == [request[w] EXCEPT !.approvalCount = n]
  <2>1. n \in Nat /\ request[w].proposedNewOwner \in Addresses \cup {ZeroAddress}
      BY <1>2 DEF RecoveryRequest
  <2>2. q \in RecoveryRequest /\ p \in RecoveryRequest
      BY <2>1, <1>2 DEF RecoveryRequest
  <2>3. /\ \/ /\ walletOwner' = [walletOwner EXCEPT ![w] = request[w].proposedNewOwner]
              /\ request' = [request EXCEPT ![w] = q]
           \/ /\ request' = [request EXCEPT ![w] = p]
              /\ walletOwner' = walletOwner
        /\ hasApproved' = [hasApproved EXCEPT ![w] = @ \cup {sender}]
        /\ quarantined' = quarantined
      BY <1>5 DEF ApproveRecovery, Approved
  <2> HIDE DEF n, p, q
  <2>. QED  BY <2>1, <2>2, <2>3, <1>2 DEF TypeOK
<1>6. CASE CancelRecovery(sender, w)
  <2>1. [request[w] EXCEPT !.active = FALSE] \in RecoveryRequest
      BY <1>2 DEF RecoveryRequest
  <2>. QED  BY <2>1, <1>6, <1>2 DEF TypeOK, CancelRecovery
<1>7. CASE SetQuarantine(sender, w)
    BY <1>7, <1>2 DEF TypeOK, SetQuarantine
<1>. QED  BY <1>1, <1>4, <1>5, <1>6, <1>7

LEMMA ConfigureTypeOK ==
    ASSUME TypeOK, NEW sender \in Addresses, NEW team, ConfigureGuardians(sender, team)
    PROVE  TypeOK'
    BY DEF TypeOK, ConfigureGuardians, Team, registry

\* The storage of the contracts holds values of the declared types.
THEOREM TypeCorrect == Spec => []TypeOK
<1>1. TypeOK /\ [Next]_vars => TypeOK'
  <2> SUFFICES ASSUME TypeOK, Next PROVE TypeOK'
      BY DEF vars, TypeOK
  <2>. QED
      BY RegistryTypeOK, RecoveryTypeOK, ConfigureTypeOK DEF Next
<1>. QED  BY InitTypeOK, <1>1, PTL DEF Spec

-----------------------------------------------------------------------------
(* DIDRegistry *)

\* The reverse lookup never names an identifier that the account no longer owns.
\* It is inductive: only the old owner's entry can name a transferred identifier.
THEOREM ReverseAlwaysOwned == Spec => []ReverseIsOwned
<1>1. Init => ReverseIsOwned
    BY DEF Init, ReverseIsOwned
<1>2. TypeOK /\ ReverseIsOwned /\ [Next]_vars => ReverseIsOwned'
  <2> SUFFICES ASSUME TypeOK, ReverseIsOwned, [Next]_vars
               PROVE  ReverseIsOwned'
      OBVIOUS
  <2>1. CASE UNCHANGED registry
      BY <2>1 DEF ReverseIsOwned, registry
  <2>2. ASSUME NEW sender \in Addresses, NEW d \in Dids, NEW h,
               RegisterDID(sender, d, h)
        PROVE  ReverseIsOwned'
      BY <2>2 DEF RegisterDID, Exists, ReverseIsOwned, TypeOK
  <2>3. ASSUME NEW sender \in Addresses, NEW d \in Dids, NEW h,
               UpdateVCHash(sender, d, h)
        PROVE  ReverseIsOwned'
      BY <2>3 DEF UpdateVCHash, ReverseIsOwned
  <2>4. ASSUME NEW sender \in Addresses, NEW d \in Dids, NEW b \in Addresses,
               TransferDIDOwnership(sender, d, b)
        PROVE  ReverseIsOwned'
    <3> SUFFICES ASSUME NEW a \in Addresses, ownerToDID'[a] # NoDid
                 PROVE  didOwner'[ownerToDID'[a]] = a
        BY DEF ReverseIsOwned
    <3>1. ownerToDID' = [ownerToDID EXCEPT ![sender] = NoDid, ![b] = d]
          /\ didOwner' = [didOwner EXCEPT ![d] = b] /\ b # sender
          /\ didOwner[d] = sender
        BY <2>4 DEF TransferDIDOwnership, ReverseAfter
    <3>2. CASE a = b
        BY <3>1, <3>2 DEF TypeOK
    <3>3. CASE a # b
      <4>1. a # sender /\ ownerToDID'[a] = ownerToDID[a]
          BY <3>1, <3>3 DEF TypeOK
      <4>2. didOwner[ownerToDID[a]] = a
          BY <4>1 DEF ReverseIsOwned
      <4>. QED  BY <4>1, <4>2, <3>1 DEF TypeOK
    <3>. QED  BY <3>2, <3>3
  <2>5. ASSUME NEW sender \in Addresses, RecoveryCall(sender)
        PROVE  UNCHANGED registry
      BY <2>5 DEF RecoveryCall, InitiateRecovery, ApproveRecovery, CancelRecovery,
                  SetQuarantine
  <2>6. ASSUME NEW sender \in Addresses, NEW team, ConfigureGuardians(sender, team)
        PROVE  UNCHANGED registry
      BY <2>6 DEF ConfigureGuardians
  <2>7. CASE UNCHANGED vars
      BY <2>7, <2>1 DEF vars, registry
  <2>. QED  BY <2>1, <2>2, <2>3, <2>4, <2>5, <2>6, <2>7 DEF Next, RegistryCall
<1>. QED  BY <1>1, <1>2, TypeCorrect, PTL DEF Spec

-----------------------------------------------------------------------------
(* EmergencyRecovery *)

\* An active request has exactly one approval, that of the guardian whose flag is
\* set: the second one executes it.
OneApproval ==
    \A w \in Wallets : request[w].active =>
       /\ request[w].approvalCount = 1
       /\ ~request[w].executed
       /\ request[w].proposedNewOwner \in Addresses
       /\ \E g \in guardians[w] : hasApproved[w] = {g}

\* Flags are only ever set for guardians, so that clearing the guardians' clears all.
FlagsOfGuardians ==
    \A w \in Wallets : hasApproved[w] \subseteq guardians[w]

QuorumInv == TypeOK /\ OneApproval /\ FlagsOfGuardians

\* ConfigureGuardians gives a wallet its guardians once; nothing was flagged before.
Unconfigured ==
    \A w \in Addresses : ~IsConfigured(w) => ~request[w].active /\ hasApproved[w] = {}

LEMMA RecoverySteps ==
    ASSUME QuorumInv, Unconfigured, NEW sender \in Addresses, RecoveryCall(sender)
    PROVE  (OneApproval /\ FlagsOfGuardians /\ Unconfigured)'
<1>1. PICK w \in Wallets :
        \/ \E a \in Addresses : InitiateRecovery(sender, w, a)
        \/ ApproveRecovery(sender, w)
        \/ CancelRecovery(sender, w)
        \/ SetQuarantine(sender, w)
    BY DEF RecoveryCall
<1>2. w \in Addresses /\ request[w] \in RecoveryRequest /\ TypeOK
    BY <1>1 DEF QuorumInv, TypeOK
<1>3. CASE \E a \in Addresses : InitiateRecovery(sender, w, a)
  <2> PICK a \in Addresses : InitiateRecovery(sender, w, a)
      BY <1>3
  <2>1. hasApproved[w] \subseteq guardians[w] /\ sender \in guardians[w]
      BY DEF InitiateRecovery, QuorumInv, FlagsOfGuardians
  <2>2. FlagsOnInitiation(w, sender) = {sender}
      BY <2>1 DEF FlagsOnInitiation
  <2>3. /\ hasApproved' = [hasApproved EXCEPT ![w] = {sender}]
        /\ request' = [request EXCEPT ![w] =
                         [proposedNewOwner |-> a, approvalCount |-> 1,
                          executed |-> FALSE, active |-> TRUE]]
        /\ guardians' = guardians /\ walletOwner' = walletOwner /\ IsConfigured(w)
      BY <2>2 DEF InitiateRecovery
  <2>. QED  BY <2>1, <2>3, <1>2 DEF QuorumInv, OneApproval, FlagsOfGuardians,
                                    Unconfigured, IsConfigured, TypeOK
<1>4. CASE ApproveRecovery(sender, w)
  <2>1. request[w].active /\ sender \in guardians[w] /\ IsConfigured(w)
        /\ hasApproved' = [hasApproved EXCEPT ![w] = @ \cup {sender}]
        /\ guardians' = guardians
      BY <1>4 DEF ApproveRecovery, MayApprove
  <2>2. request[w].approvalCount = 1
      BY <2>1 DEF QuorumInv, OneApproval
  <2>3. /\ request' = [request EXCEPT ![w] = [@ EXCEPT !.approvalCount = 2,
                         !.executed = TRUE, !.active = FALSE]]
        /\ walletOwner' = [walletOwner EXCEPT ![w] = request[w].proposedNewOwner]
      BY <1>4, <2>2 DEF ApproveRecovery, Approved, REQUIRED_APPROVALS
  <2>4. \A v \in Addresses : v # w => /\ request'[v] = request[v]
                                      /\ hasApproved'[v] = hasApproved[v]
                                      /\ walletOwner'[v] = walletOwner[v]
      BY <2>1, <2>3, <1>2 DEF TypeOK
  <2>5. ~request'[w].active /\ hasApproved'[w] = hasApproved[w] \cup {sender}
      BY <2>1, <2>3, <1>2 DEF TypeOK, RecoveryRequest
  <2>6. IsConfigured(w)'
    <3>1. request[w].proposedNewOwner # ZeroAddress
        BY <2>1 DEF QuorumInv, OneApproval
    <3>. QED  BY <3>1, <2>3, <1>2 DEF IsConfigured, TypeOK
  <2>. QED  BY <2>1, <2>4, <2>5, <2>6, <1>2
            DEF QuorumInv, OneApproval, FlagsOfGuardians, Unconfigured, IsConfigured
<1>5. CASE CancelRecovery(sender, w)
    BY <1>5, <1>2 DEF CancelRecovery, QuorumInv, OneApproval, FlagsOfGuardians,
                      Unconfigured, IsConfigured, TypeOK, RecoveryRequest
<1>6. CASE SetQuarantine(sender, w)
    BY <1>6 DEF SetQuarantine, QuorumInv, OneApproval, FlagsOfGuardians,
                Unconfigured, IsConfigured
<1>. QED  BY <1>1, <1>3, <1>4, <1>5, <1>6

LEMMA ConfigureSteps ==
    ASSUME QuorumInv, Unconfigured, NEW sender \in Addresses, NEW team,
           ConfigureGuardians(sender, team)
    PROVE  (OneApproval /\ FlagsOfGuardians /\ Unconfigured)'
<1>1. /\ guardians' = [guardians EXCEPT ![sender] = team]
      /\ walletOwner' = [walletOwner EXCEPT ![sender] = sender]
      /\ request' = request /\ hasApproved' = hasApproved
      /\ ~request[sender].active /\ hasApproved[sender] = {}
    BY DEF ConfigureGuardians, Unconfigured
<1>. QED
    BY <1>1 DEF QuorumInv, OneApproval, FlagsOfGuardians, Unconfigured, IsConfigured,
                TypeOK

LEMMA QuorumInductive ==
    ASSUME QuorumInv, Unconfigured, [Next]_vars
    PROVE  (OneApproval /\ FlagsOfGuardians /\ Unconfigured)'
<1>1. CASE UNCHANGED recovery
    BY <1>1 DEF QuorumInv, OneApproval, FlagsOfGuardians, Unconfigured, IsConfigured,
                recovery
<1>2. ASSUME NEW sender \in Addresses, RegistryCall(sender)
      PROVE  UNCHANGED recovery
    BY <1>2 DEF RegistryCall, RegisterDID, UpdateVCHash, TransferDIDOwnership
<1>3. CASE UNCHANGED vars
    BY <1>3, <1>1 DEF vars, recovery
<1>. QED  BY <1>1, <1>2, <1>3, RecoverySteps, ConfigureSteps DEF Next

LEMMA QuorumInvariant == Spec => [](QuorumInv /\ Unconfigured)
<1>1. Init => OneApproval /\ FlagsOfGuardians /\ Unconfigured
    BY DEF Init, NoRequest, OneApproval, FlagsOfGuardians, Unconfigured
<1>2. TypeOK /\ OneApproval /\ FlagsOfGuardians /\ Unconfigured /\ [Next]_vars
        => (OneApproval /\ FlagsOfGuardians /\ Unconfigured)'
    BY QuorumInductive DEF QuorumInv
<1>. QED  BY <1>1, <1>2, TypeCorrect, PTL DEF Spec, QuorumInv

\* The counter is the number of guardians whose flag is set, and a request that has
\* its quorum is no longer active.
THEOREM AlwaysCounted == Spec => []ApprovalsCounted
<1>1. QuorumInv => ApprovalsCounted
  <2> SUFFICES ASSUME QuorumInv, NEW w \in Wallets, request[w].active
               PROVE  /\ hasApproved[w] \subseteq guardians[w]
                      /\ request[w].approvalCount = Cardinality(hasApproved[w])
                      /\ ~ExecutableByHand(w)
      BY DEF ApprovalsCounted
  <2>1. PICK g \in guardians[w] : hasApproved[w] = {g}
      BY DEF QuorumInv, OneApproval
  <2>2. Cardinality({g}) = 1
      BY FS_Singleton
  <2>3. request[w].approvalCount = 1
      BY DEF QuorumInv, OneApproval
  <2>. QED  BY <2>1, <2>2, <2>3 DEF ExecutableByHand, REQUIRED_APPROVALS
<1>. QED  BY <1>1, QuorumInvariant, PTL

\* A wallet changes its owner only with two approvals of the request that names him.
THEOREM AlwaysOwnedByQuorum == Spec => OwnedByQuorum
<1>1. QuorumInv /\ [Next]_vars =>
        [\A w \in Wallets : IsConfigured(w) /\ walletOwner'[w] # walletOwner[w] =>
            /\ request[w].active
            /\ walletOwner'[w] = request[w].proposedNewOwner
            /\ hasApproved'[w] \subseteq guardians[w]
            /\ Cardinality(hasApproved'[w]) >= REQUIRED_APPROVALS]_vars
  <2> SUFFICES ASSUME QuorumInv, Next, NEW w \in Wallets, IsConfigured(w),
                      walletOwner'[w] # walletOwner[w]
               PROVE  /\ request[w].active
                      /\ walletOwner'[w] = request[w].proposedNewOwner
                      /\ hasApproved'[w] \subseteq guardians[w]
                      /\ Cardinality(hasApproved'[w]) >= REQUIRED_APPROVALS
      OBVIOUS
  <2>1. PICK sender \in Addresses : ApproveRecovery(sender, w)
    <3>1. ASSUME NEW sender \in Addresses, NEW team, ConfigureGuardians(sender, team)
          PROVE  FALSE
        BY <3>1 DEF ConfigureGuardians, QuorumInv, TypeOK
    <3>2. ASSUME NEW sender \in Addresses, RegistryCall(sender)
          PROVE  FALSE
        BY <3>2 DEF RegistryCall, RegisterDID, UpdateVCHash, TransferDIDOwnership,
                    recovery
    <3>3. ASSUME NEW sender \in Addresses, NEW v \in Wallets, NEW a \in Addresses,
                 \/ InitiateRecovery(sender, v, a)
                 \/ CancelRecovery(sender, v)
                 \/ SetQuarantine(sender, v)
          PROVE  FALSE
        BY <3>3 DEF InitiateRecovery, CancelRecovery, SetQuarantine
    <3>4. ASSUME NEW sender \in Addresses, NEW v \in Wallets, v # w,
                 ApproveRecovery(sender, v)
          PROVE  FALSE
        BY <3>4 DEF ApproveRecovery, Approved, QuorumInv, TypeOK
    <3>. QED  BY <3>1, <3>2, <3>3, <3>4 DEF Next, RecoveryCall
  <2>2. /\ request[w].active /\ sender \in guardians[w] /\ sender \notin hasApproved[w]
        /\ hasApproved'[w] = hasApproved[w] \cup {sender}
      BY <2>1 DEF ApproveRecovery, MayApprove, QuorumInv, TypeOK
  <2>3. walletOwner'[w] = request[w].proposedNewOwner
      BY <2>1 DEF ApproveRecovery, Approved, QuorumInv, TypeOK
  <2>4. PICK g \in guardians[w] : hasApproved[w] = {g}
      BY <2>2 DEF QuorumInv, OneApproval
  <2>5. Cardinality(hasApproved'[w]) = 2
    <3>1. IsFiniteSet({g}) /\ Cardinality({g}) = 1
        BY FS_Singleton
    <3>2. sender \notin {g}
        BY <2>2, <2>4
    <3>3. Cardinality({g} \cup {sender})
             = IF sender \in {g} THEN Cardinality({g}) ELSE Cardinality({g}) + 1
        BY <3>1, FS_AddElement, Zenon
    <3>4. Cardinality({g} \cup {sender}) = 2
        BY <3>1, <3>2, <3>3
    <3>. QED  BY <3>4, <2>2, <2>4
  <2>. QED  BY <2>2, <2>3, <2>4, <2>5 DEF REQUIRED_APPROVALS
<1>. QED  BY <1>1, QuorumInvariant, PTL DEF Spec, OwnedByQuorum
=============================================================================
