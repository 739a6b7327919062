----------------------------- MODULE Oid4Proofs -----------------------------
\* Proofs about Oid4.
EXTENDS Oid4, TLAPS

-----------------------------------------------------------------------------
\* The inductive invariant

\* An offer or a session says what a request has written there, or an answer has told.
ClaimedAs(o, h, k) == offer[o].status = "CLAIMED" /\ offer[o].by = h /\ offer[o].credential = k
DecidedAs(s, accepted) == session[s].status = (IF accepted THEN "VERIFIED" ELSE "REJECTED")

\* What a request in flight may rely on.
CallOK(c) ==
    /\ c.step \in {"sign", "claim", "auditClaim"} => c.on \in Offers /\ c.holder \in Holders
    /\ c.step \in {"claim", "auditClaim"} =>
            c.credential \in Known /\ issued[c.credential].holder = c.holder
    /\ c.step = "auditClaim" => ClaimedAs(c.on, c.holder, c.credential)
    /\ c.step \in {"status", "decide", "auditVerdict"} => c.on \in Sessions
    /\ c.step \in {"status", "decide"} /\ c.revoked => Revoked(c.credential)
    /\ c.step = "decide" /\ c.passed => ~c.revoked
    /\ c.step = "auditVerdict" => DecidedAs(c.on, c.passed)

\* What was answered, with the documents and the audit events.
HandedOK ==
    \A a \in handed :
        /\ ClaimedAs(a.offer, a.holder, a.credential)
        /\ a.credential \in Known /\ issued[a.credential].holder = a.holder
        /\ [on |-> a.offer, credential |-> a.credential, accepted |-> TRUE] \in audit
AuditOK == \A e \in audit : e.on \in Sessions => DecidedAs(e.on, e.accepted)
VerdictsOK ==
    \A v \in verdicts :
        /\ DecidedAs(v.session, v.accepted)
        /\ ~v.polled => \E e \in audit : e.on = v.session

IInv ==
    /\ TypeOK
    /\ \A x \in Clients : CallOK(call[x])
    /\ HandedOK
    /\ AuditOK
    /\ VerdictsOK
    /\ RevokedNeverVerifies

-----------------------------------------------------------------------------
\* Types

LEMMA IdleType == Idle \in Call
  BY DEF Idle, Call, Steps, Foreign

LEMMA CallFields ==
    ASSUME NEW c \in Call
    PROVE  /\ c.step \in Steps /\ c.on \in Offers \cup Sessions \cup {None}
           /\ c.holder \in Holders \cup {None} /\ c.credential \in Nat /\ c.version \in Nat
           /\ c.passed \in BOOLEAN /\ c.revoked \in BOOLEAN
  BY DEF Call

LEMMA CallStep == ASSUME NEW c \in Call, NEW s \in Steps PROVE [c EXCEPT !.step = s] \in Call
  BY DEF Call

LEMMA TypeInit == Init => TypeOK
  BY IdleType, Oid4Assumptions
  DEF Init, TypeOK, StoredOffers, StoredSessions, StoredEvents, Offer, Session, Foreign

LEMMA TypeUpdate ==
    ASSUME TypeOK, NEW x \in Clients, NEW c \in Call, Update(x, c)
    PROVE  call' \in [Clients -> Call]
  BY DEF TypeOK, Update

LEMMA TypeStore ==
    ASSUME TypeOK
    PROVE  /\ \A o \in Offers : [offer EXCEPT ![o].status = "PENDING", ![o].version = 1] \in StoredOffers
           /\ \A o \in Offers, d \in Offer : [offer EXCEPT ![o] = d] \in StoredOffers
           /\ \A s \in Sessions : [session EXCEPT ![s].status = "PENDING", ![s].version = 1] \in StoredSessions
           /\ \A s \in Sessions, d \in Session : [session EXCEPT ![s] = d] \in StoredSessions
  <1>1. ASSUME NEW o \in Offers
        PROVE  [offer EXCEPT ![o].status = "PENDING", ![o].version = 1] \in StoredOffers
    <2>1. offer[o] \in Offer
      BY DEF TypeOK, StoredOffers
    <2>2. [offer[o] EXCEPT !.status = "PENDING", !.version = 1] \in Offer
      BY <2>1 DEF Offer
    <2> QED
      BY <2>2 DEF TypeOK, StoredOffers
  <1>2. ASSUME NEW s \in Sessions
        PROVE  [session EXCEPT ![s].status = "PENDING", ![s].version = 1] \in StoredSessions
    <2>1. session[s] \in Session
      BY DEF TypeOK, StoredSessions
    <2>2. [session[s] EXCEPT !.status = "PENDING", !.version = 1] \in Session
      BY <2>1 DEF Session
    <2> QED
      BY <2>2 DEF TypeOK, StoredSessions
  <1>3. \A o \in Offers, d \in Offer : [offer EXCEPT ![o] = d] \in StoredOffers
    BY DEF TypeOK, StoredOffers
  <1>4. \A s \in Sessions, d \in Session : [session EXCEPT ![s] = d] \in StoredSessions
    BY DEF TypeOK, StoredSessions
  <1> QED
    BY <1>1, <1>2, <1>3, <1>4

LEMMA ClaimCall ==
    ASSUME NEW o \in Offers, NEW h \in Holders, NEW v \in Nat
    PROVE  [Idle EXCEPT !.step = "sign", !.on = o, !.holder = h, !.version = v] \in Call
  BY IdleType DEF Call, Steps

LEMMA PostCall ==
    ASSUME NEW s \in Sessions, NEW k \in Nat, NEW v \in Nat, NEW p \in BOOLEAN, NEW r \in BOOLEAN
    PROVE  [Idle EXCEPT !.step = "status", !.on = s, !.credential = k, !.version = v,
                        !.passed = p, !.revoked = r] \in Call
  BY IdleType DEF Call, Steps

-----------------------------------------------------------------------------
\* Issued credentials: a list that grows, in which credentials only become revoked

IssuedGrows ==
    /\ Len(issued) <= Len(issued')
    /\ \A k \in Known : issued'[k].holder = issued[k].holder
    /\ \A k \in Known : issued[k].status = "REVOKED" => issued'[k].status = "REVOKED"

LEMMA StillKnown ==
    ASSUME TypeOK, TypeOK', IssuedGrows, NEW k
    PROVE  /\ k \in Known => k \in Known' /\ issued'[k].holder = issued[k].holder
           /\ Revoked(k) => Revoked(k)'
  BY DEF TypeOK, IssuedGrows, Known, Revoked

\* Documents that are claimed or decided stay as they are.
SettledStay ==
    /\ \A o \in Offers : offer[o].status = "CLAIMED" => offer'[o] = offer[o]
    /\ \A s \in Sessions : session[s].status \in {"VERIFIED", "REJECTED"} => session'[s] = session[s]

LEMMA SaysTheSame ==
    ASSUME SettledStay
    PROVE  /\ \A o \in Offers : \A h, k : ClaimedAs(o, h, k) => ClaimedAs(o, h, k)'
           /\ \A s \in Sessions : \A b : DecidedAs(s, b) => DecidedAs(s, b)'
  BY DEF SettledStay, ClaimedAs, DecidedAs

\* What a request relies on outlasts the steps of the others.
LEMMA CallKept ==
    ASSUME TypeOK, TypeOK', IssuedGrows, SettledStay, NEW c \in Call, CallOK(c)
    PROVE  CallOK(c)'
  <1>1. c.step \in {"sign", "claim", "auditClaim"} => c.on \in Offers /\ c.holder \in Holders
    BY DEF CallOK
  <1>2. c.step \in {"claim", "auditClaim"} =>
            c.credential \in Known' /\ issued'[c.credential].holder = c.holder
    BY StillKnown DEF CallOK
  <1>3. c.step = "auditClaim" => ClaimedAs(c.on, c.holder, c.credential)'
    BY <1>1, SaysTheSame DEF CallOK
  <1>4. c.step \in {"status", "decide", "auditVerdict"} => c.on \in Sessions
    BY DEF CallOK
  <1>5. c.step \in {"status", "decide"} /\ c.revoked => Revoked(c.credential)'
    BY StillKnown DEF CallOK
  <1>6. c.step = "decide" /\ c.passed => ~c.revoked
    BY DEF CallOK
  <1>7. c.step = "auditVerdict" => DecidedAs(c.on, c.passed)'
    BY <1>4, SaysTheSame DEF CallOK
  <1> QED
    BY <1>1, <1>2, <1>3, <1>4, <1>5, <1>6, <1>7 DEF CallOK

\* So do the histories, as long as nothing is added to them.
LEMMA HistoriesKept ==
    ASSUME IInv, TypeOK', IssuedGrows, SettledStay
    PROVE  /\ UNCHANGED handed /\ audit \subseteq audit' => HandedOK'
           /\ UNCHANGED audit => AuditOK'
           /\ UNCHANGED verdicts /\ audit \subseteq audit' => VerdictsOK'
  <1>1. ASSUME UNCHANGED handed, audit \subseteq audit', NEW a \in handed
        PROVE  /\ ClaimedAs(a.offer, a.holder, a.credential)'
               /\ a.credential \in Known' /\ issued'[a.credential].holder = a.holder
               /\ [on |-> a.offer, credential |-> a.credential, accepted |-> TRUE] \in audit'
    <2>1. a.offer \in Offers
      BY DEF IInv, TypeOK, ClaimResponse
    <2>2. /\ ClaimedAs(a.offer, a.holder, a.credential)
          /\ a.credential \in Known /\ issued[a.credential].holder = a.holder
          /\ [on |-> a.offer, credential |-> a.credential, accepted |-> TRUE] \in audit
      BY DEF IInv, HandedOK
    <2> QED
      BY <1>1, <2>1, <2>2, StillKnown, SaysTheSame DEF IInv
  <1>2. UNCHANGED audit => AuditOK'
    BY SaysTheSame DEF IInv, AuditOK
  <1>3. ASSUME UNCHANGED verdicts, audit \subseteq audit', NEW v \in verdicts
        PROVE  DecidedAs(v.session, v.accepted)' /\ (~v.polled => \E e \in audit' : e.on = v.session)
    <2>1. v.session \in Sessions
      BY DEF IInv, TypeOK, VerdictResponse
    <2>2. DecidedAs(v.session, v.accepted) /\ (~v.polled => \E e \in audit : e.on = v.session)
      BY DEF IInv, VerdictsOK
    <2> QED
      BY <1>3, <2>1, <2>2, SaysTheSame
  <1> QED
    BY <1>1, <1>2, <1>3 DEF HandedOK, VerdictsOK

-----------------------------------------------------------------------------
\* Steps

\* A step keeps the invariant if it keeps types, credentials and settled documents, adds
\* only what is true, and leaves its own request with what that may rely on.
LEMMA StepKeeps ==
    ASSUME IInv, TypeOK', IssuedGrows, SettledStay, HandedOK', AuditOK', VerdictsOK', RevokedNeverVerifies',
           UNCHANGED call \/ \E x \in Clients, c \in Call : Update(x, c) /\ CallOK(c)'
    PROVE  IInv'
  <1>1. ASSUME NEW y \in Clients, NEW d \in Call, d = call'[y]
        PROVE  CallOK(d)'
    <2>1. CASE d = call[y]
      <3>1. CallOK(d)
        BY <2>1 DEF IInv
      <3> QED
        BY <3>1, CallKept DEF IInv
    <2>2. CASE d # call[y]
      <3>1. PICK x \in Clients, c \in Call : Update(x, c) /\ CallOK(c)'
        BY <1>1, <2>2
      <3>2. d = c
        BY <1>1, <2>2, <3>1 DEF Update, IInv, TypeOK
      <3> QED
        BY <3>1, <3>2
    <2> QED
      BY <2>1, <2>2
  <1>2. ASSUME NEW y \in Clients PROVE CallOK(call[y])'
    <2>1. PICK d \in Call : d = call'[y]
      BY DEF TypeOK
    <2>2. CallOK(d)'
      BY <1>1, <2>1
    <2> QED
      BY <2>1, <2>2 DEF CallOK, ClaimedAs, DecidedAs, Revoked, Known
  <1> QED
    BY <1>2 DEF IInv

\* A step that only goes on with a request, or ends it.
LEMMA OnlyCall ==
    ASSUME IInv, NEW x \in Clients, NEW c \in Call, Update(x, c),
           UNCHANGED <<offer, session, issued, late, audit, handed, verdicts>>, CallOK(c)
    PROVE  IInv'
  <1>1. TypeOK'
    BY TypeUpdate DEF IInv, TypeOK
  <1>2. IssuedGrows /\ SettledStay
    BY DEF IInv, TypeOK, IssuedGrows, SettledStay
  <1>3. CallOK(c)'
    BY <1>1, <1>2, CallKept DEF IInv
  <1>4. HandedOK' /\ AuditOK' /\ VerdictsOK' /\ RevokedNeverVerifies'
    BY <1>1, <1>2, HistoriesKept DEF IInv, RevokedNeverVerifies
  <1> QED
    BY <1>1, <1>2, <1>3, <1>4, StepKeeps

LEMMA IdleOK == CallOK(Idle) /\ CallOK(Idle)'
  BY DEF CallOK, Idle

LEMMA CreateOfferKeeps == ASSUME IInv, NEW o \in Offers, CreateOffer(o) PROVE IInv'
  <1>1. TypeOK'
    BY TypeStore DEF IInv, TypeOK, CreateOffer
  <1>2. IssuedGrows
    BY DEF IInv, TypeOK, IssuedGrows, CreateOffer
  <1>3. SettledStay
    BY DEF IInv, TypeOK, StoredOffers, SettledStay, CreateOffer, NewOffer
  <1>4. HandedOK' /\ AuditOK' /\ VerdictsOK' /\ RevokedNeverVerifies'
    BY <1>1, <1>2, <1>3, HistoriesKept DEF IInv, RevokedNeverVerifies, CreateOffer
  <1> QED
    BY <1>1, <1>2, <1>3, <1>4, StepKeeps DEF CreateOffer

LEMMA CreateSessionKeeps == ASSUME IInv, NEW s \in Sessions, CreateSession(s) PROVE IInv'
  <1>1. TypeOK'
    BY TypeStore DEF IInv, TypeOK, CreateSession
  <1>2. IssuedGrows
    BY DEF IInv, TypeOK, IssuedGrows, CreateSession
  <1>3. SettledStay
    BY DEF IInv, TypeOK, StoredSessions, SettledStay, CreateSession, NewSession
  <1>4. HandedOK' /\ AuditOK' /\ VerdictsOK'
    BY <1>1, <1>2, <1>3, HistoriesKept DEF IInv, CreateSession
  <1>5. RevokedNeverVerifies'
    <2>1. \A d \in Sessions :
            session'[d] = session[d] \/ session'[d].status = "PENDING"
      BY DEF IInv, TypeOK, StoredSessions, CreateSession, Session
    <2> QED
      BY <2>1 DEF IInv, RevokedNeverVerifies
  <1> QED
    BY <1>1, <1>2, <1>3, <1>4, <1>5, StepKeeps DEF CreateSession

LEMMA OpenClaimKeeps ==
    ASSUME IInv, NEW x \in Clients, NEW o \in Offers, NEW h \in Holders, NEW pin \in BOOLEAN,
           OpenClaim(x, o, h, pin)
    PROVE  IInv'
  <1> PICK v \in Nat : v = offer[o].version
    BY DEF IInv, TypeOK, StoredOffers, Offer
  <1> DEFINE c == [Idle EXCEPT !.step = "sign", !.on = o, !.holder = h, !.version = v]
  <1>1. Update(x, c) /\ UNCHANGED <<offer, session, issued, late, audit, handed, verdicts>>
    BY DEF OpenClaim
  <1>2. c \in Call
    BY ClaimCall
  <1>3. CallOK(c)
    BY DEF CallOK, Idle
  <1> HIDE DEF c
  <1> QED
    BY <1>1, <1>2, <1>3, OnlyCall

LEMMA PostKeeps ==
    ASSUME IInv, NEW x \in Clients, NEW s \in Sessions, NEW t \in Token, Post(x, s, t)
    PROVE  IInv'
  <1> PICK v \in Nat : v = session[s].version
    BY DEF IInv, TypeOK, StoredSessions, Session
  <1> PICK k \in Nat : k = t.credential
    BY DEF Token, Known, Foreign
  <1> PICK p \in BOOLEAN : p = Passes(t)
    BY DEF Passes
  <1> PICK r \in BOOLEAN : r = Revoked(k)
    BY DEF Revoked
  <1> DEFINE c == [Idle EXCEPT !.step = "status", !.on = s, !.credential = k, !.version = v,
                               !.passed = p, !.revoked = r]
  <1>1. Update(x, c) /\ UNCHANGED <<offer, session, issued, late, audit, handed, verdicts>>
    BY DEF Post
  <1>2. c \in Call
    BY PostCall
  <1>3. CallOK(c)
    <2>1. c.step = "status" /\ c.on = s /\ c.credential = k /\ c.revoked = r
      BY DEF Idle
    <2> HIDE DEF c
    <2> QED
      BY <2>1 DEF CallOK
  <1> HIDE DEF c
  <1> QED
    BY <1>1, <1>2, <1>3, OnlyCall

LEMMA SignKeeps == ASSUME IInv, NEW x \in Clients, Sign(x) PROVE IInv'
  <1>1. PICK b \in Call : b = call[x]
    BY DEF IInv, TypeOK
  <1>2. b.step = "sign" /\ b.on \in Offers /\ b.holder \in Holders
    BY <1>1 DEF Sign, IInv, CallOK
  <1>3. PICK n \in Nat : n = Len(issued) + 1
    BY DEF IInv, TypeOK
  <1> DEFINE e == [holder |-> b.holder, status |-> "ACTIVE"]
             c == [b EXCEPT !.step = "claim", !.credential = n]
  <1>4. /\ issued' = Append(issued, e) /\ Update(x, c) /\ Len(issued) < MaxIssued
        /\ UNCHANGED <<offer, session, late, audit, handed, verdicts>>
    BY <1>1, <1>3 DEF Sign
  <1>5. e \in Credential
    BY <1>2 DEF Credential
  <1>6. c \in Call
    BY DEF Call, Steps
  <1>7. issued \in Seq(Credential) /\ Len(issued) \in Nat /\ MaxIssued \in Nat
    BY Oid4Assumptions DEF IInv, TypeOK
  <1> HIDE DEF e, c
  <1>8. /\ issued' \in Seq(Credential) /\ Len(issued') = n /\ issued'[n] = e
        /\ \A k \in Known : issued'[k] = issued[k]
    BY <1>3, <1>4, <1>5, <1>7 DEF Known
  <1>9. TypeOK'
    BY <1>3, <1>4, <1>6, <1>7, <1>8, TypeUpdate DEF IInv, TypeOK
  <1>10. IssuedGrows /\ SettledStay
    <2>1. Len(issued) <= Len(issued')
      BY <1>3, <1>7, <1>8
    <2>2. SettledStay
      BY <1>4 DEF SettledStay
    <2> QED
      BY <1>8, <2>1, <2>2 DEF IssuedGrows
  <1>11. HandedOK' /\ AuditOK' /\ VerdictsOK' /\ RevokedNeverVerifies'
    BY <1>4, <1>9, <1>10, HistoriesKept DEF IInv, RevokedNeverVerifies
  <1>12. CallOK(c)'
    <2>1. c.step = "claim" /\ c.on = b.on /\ c.holder = b.holder /\ c.credential = n
      BY <1>1 DEF c, Call
    <2>2. n \in Known' /\ issued'[n].holder = b.holder
      BY <1>3, <1>7, <1>8 DEF Known, e
    <2> QED
      BY <1>2, <2>1, <2>2 DEF CallOK
  <1> QED
    BY <1>4, <1>6, <1>9, <1>10, <1>11, <1>12, StepKeeps

LEMMA MarkClaimedKeeps == ASSUME IInv, NEW x \in Clients, MarkClaimed(x) PROVE IInv'
  <1>1. PICK b \in Call : b = call[x]
    BY DEF IInv, TypeOK
  <1>2. /\ b.step = "claim" /\ b.on \in Offers /\ b.holder \in Holders
        /\ b.credential \in Known /\ issued[b.credential].holder = b.holder
    BY <1>1 DEF MarkClaimed, IInv, CallOK
  <1>3. CASE Ends(x) /\ UNCHANGED <<offer, session, issued, late, audit, handed, verdicts>>
    BY <1>3, IdleType, IdleOK, OnlyCall DEF Ends
  <1>4. CASE /\ Claimable(b.on, b.version)
             /\ offer' = [offer EXCEPT ![b.on] = ClaimedBy(b)]
             /\ Update(x, [b EXCEPT !.step = "auditClaim"])
             /\ UNCHANGED <<session, issued, late, audit, handed, verdicts>>
    <2> DEFINE c == [b EXCEPT !.step = "auditClaim"]
    <2>1. c \in Call
      BY CallStep DEF Steps
    <2>2. ClaimedBy(b) \in Offer
      BY <1>2, CallFields DEF ClaimedBy, Offer
    <2>3. TypeOK'
      BY <1>2, <1>4, <2>1, <2>2, TypeStore, TypeUpdate DEF IInv, TypeOK
    <2>4. IssuedGrows
      BY <1>4 DEF IInv, TypeOK, IssuedGrows
    <2>5. SettledStay
      BY <1>2, <1>4 DEF SettledStay, Claimable, IInv, TypeOK, StoredOffers
    <2>6. HandedOK' /\ AuditOK' /\ VerdictsOK' /\ RevokedNeverVerifies'
      BY <1>4, <2>3, <2>4, <2>5, HistoriesKept DEF IInv, RevokedNeverVerifies
    <2>7. CallOK(c)'
      <3>1. /\ c.step = "auditClaim" /\ c.on = b.on /\ c.holder = b.holder
            /\ c.credential = b.credential
        BY <1>1 DEF Call
      <3>2. ClaimedAs(b.on, b.holder, b.credential)'
        BY <1>2, <1>4 DEF ClaimedAs, ClaimedBy, IInv, TypeOK, StoredOffers
      <3>3. b.credential \in Known' /\ issued'[b.credential].holder = b.holder
        BY <1>2, <1>4 DEF Known
      <3> HIDE DEF c
      <3> QED
        BY <1>2, <3>1, <3>2, <3>3 DEF CallOK
    <2> HIDE DEF c
    <2> QED
      BY <1>4, <2>1, <2>3, <2>4, <2>5, <2>6, <2>7, StepKeeps DEF c
  <1> QED
    BY <1>1, <1>3, <1>4 DEF MarkClaimed

LEMMA AuditClaimKeeps == ASSUME IInv, NEW x \in Clients, AuditClaim(x) PROVE IInv'
  <1>1. PICK b \in Call : b = call[x]
    BY DEF IInv, TypeOK
  <1>2. /\ b.step = "auditClaim" /\ b.on \in Offers /\ b.holder \in Holders
        /\ b.credential \in Known /\ issued[b.credential].holder = b.holder /\ b.credential \in Nat
        /\ ClaimedAs(b.on, b.holder, b.credential)
    BY <1>1, CallFields DEF AuditClaim, IInv, CallOK
  <1> DEFINE e == [on |-> b.on, credential |-> b.credential, accepted |-> TRUE]
             a == [offer |-> b.on, holder |-> b.holder, credential |-> b.credential]
  <1>3. /\ audit' = audit \cup {e} /\ handed' = handed \cup {a} /\ Update(x, Idle)
        /\ UNCHANGED <<offer, session, issued, late, verdicts>>
    BY <1>1 DEF AuditClaim, Ends
  <1>4. e \in Event /\ a \in ClaimResponse
    BY <1>2 DEF Event, ClaimResponse
  <1>5. TypeOK'
    BY <1>3, <1>4, IdleType, TypeUpdate DEF IInv, TypeOK, StoredEvents
  <1>6. IssuedGrows /\ SettledStay
    BY <1>3 DEF IInv, TypeOK, IssuedGrows, SettledStay
  <1>7. HandedOK'
    <2>1. ASSUME NEW f \in handed
          PROVE  /\ ClaimedAs(f.offer, f.holder, f.credential)'
                 /\ f.credential \in Known' /\ issued'[f.credential].holder = f.holder
                 /\ [on |-> f.offer, credential |-> f.credential, accepted |-> TRUE] \in audit'
      BY <1>3 DEF IInv, HandedOK, ClaimedAs, Known
    <2>2. /\ ClaimedAs(a.offer, a.holder, a.credential)'
          /\ a.credential \in Known' /\ issued'[a.credential].holder = a.holder
          /\ [on |-> a.offer, credential |-> a.credential, accepted |-> TRUE] \in audit'
      BY <1>2, <1>3 DEF ClaimedAs, Known
    <2> HIDE DEF a, e
    <2> QED
      BY <1>3, <2>1, <2>2 DEF HandedOK, ClaimedAs, Known
  <1>8. AuditOK'
    BY <1>2, <1>3, Oid4Assumptions DEF IInv, AuditOK, DecidedAs
  <1>9. VerdictsOK' /\ RevokedNeverVerifies'
    BY <1>3, <1>5, <1>6, HistoriesKept DEF IInv, RevokedNeverVerifies
  <1> HIDE DEF e, a
  <1> QED
    BY <1>3, <1>5, <1>6, <1>7, <1>8, <1>9, IdleType, IdleOK, StepKeeps

LEMMA CheckStatusKeeps == ASSUME IInv, NEW x \in Clients, CheckStatus(x) PROVE IInv'
  <1>1. PICK b \in Call : b = call[x]
    BY DEF IInv, TypeOK
  <1>2. b.step = "status" /\ b.on \in Sessions /\ (b.revoked => Revoked(b.credential))
    BY <1>1 DEF CheckStatus, IInv, CallOK
  <1>3. PICK p \in BOOLEAN : p = (b.passed /\ Clear(b.credential))
    OBVIOUS
  <1> DEFINE c == [b EXCEPT !.step = "decide", !.passed = p]
  <1>4. Update(x, c) /\ UNCHANGED <<offer, session, issued, late, audit, handed, verdicts>>
    BY <1>1, <1>3 DEF CheckStatus, Call
  <1>5. c \in Call
    BY DEF Call, Steps
  <1>6. /\ c.step = "decide" /\ c.on = b.on /\ c.credential = b.credential
        /\ c.passed = p /\ c.revoked = b.revoked
    BY <1>1 DEF Call
  <1> HIDE DEF c
  <1>7. p => ~b.revoked
    BY <1>2, <1>3 DEF Clear
  <1>8. CallOK(c)
    BY <1>2, <1>6, <1>7 DEF CallOK
  <1> QED
    BY <1>4, <1>5, <1>8, OnlyCall

LEMMA DecideKeeps == ASSUME IInv, NEW x \in Clients, Decide(x) PROVE IInv'
  <1>1. PICK b \in Call : b = call[x]
    BY DEF IInv, TypeOK
  <1>2. b.step = "decide" /\ b.on \in Sessions /\ (b.passed => ~b.revoked)
    BY <1>1 DEF Decide, IInv, CallOK
  <1>3. CASE Ends(x) /\ UNCHANGED <<offer, session, issued, late, audit, handed, verdicts>>
    BY <1>3, IdleType, IdleOK, OnlyCall DEF Ends
  <1> DEFINE n == session[b.on].version + 1
             d == [status |-> Verdict(b), credential |-> b.credential, revoked |-> b.revoked, version |-> n]
             c == [b EXCEPT !.step = "auditVerdict"]
  <1>4. CASE /\ Decidable(b.on, b.version) /\ session' = [session EXCEPT ![b.on] = d] /\ Update(x, c)
             /\ UNCHANGED <<offer, issued, late, audit, handed, verdicts>>
    <2>1. c \in Call
      BY CallStep DEF Steps
    <2>2. d \in Session /\ d.status = Verdict(b) /\ d.revoked = b.revoked
      <3>1. n \in Nat
        BY <1>2 DEF IInv, TypeOK, StoredSessions, Session
      <3> HIDE DEF n
      <3> QED
        BY <3>1, CallFields DEF Session, Verdict
    <2> HIDE DEF d, c
    <2>3. TypeOK'
      BY <1>2, <1>4, <2>1, <2>2, TypeStore, TypeUpdate DEF IInv, TypeOK
    <2>4. IssuedGrows
      BY <1>4 DEF IInv, TypeOK, IssuedGrows
    <2>5. SettledStay
      BY <1>2, <1>4 DEF SettledStay, Decidable, IInv, TypeOK, StoredSessions
    <2>6. HandedOK' /\ AuditOK' /\ VerdictsOK'
      BY <1>4, <2>3, <2>4, <2>5, HistoriesKept DEF IInv
    <2>7. session'[b.on] = d /\ \A s \in Sessions : s # b.on => session'[s] = session[s]
      BY <1>2, <1>4 DEF IInv, TypeOK, StoredSessions
    <2>8. RevokedNeverVerifies'
      BY <1>2, <2>2, <2>7 DEF IInv, RevokedNeverVerifies, Verdict
    <2>9. CallOK(c)'
      <3>1. c.step = "auditVerdict" /\ c.on = b.on /\ c.passed = b.passed
        BY <1>1 DEF c, Call
      <3>2. DecidedAs(b.on, b.passed)'
        BY <2>2, <2>7 DEF DecidedAs, Verdict
      <3> QED
        BY <1>2, <3>1, <3>2 DEF CallOK
    <2> QED
      BY <1>4, <2>1, <2>3, <2>4, <2>5, <2>6, <2>8, <2>9, StepKeeps
  <1> QED
    BY <1>1, <1>3, <1>4 DEF Decide

LEMMA AuditVerdictKeeps == ASSUME IInv, NEW x \in Clients, AuditVerdict(x) PROVE IInv'
  <1>1. PICK b \in Call : b = call[x]
    BY DEF IInv, TypeOK
  <1>2. /\ b.step = "auditVerdict" /\ b.on \in Sessions /\ DecidedAs(b.on, b.passed)
        /\ b.credential \in Nat /\ b.passed \in BOOLEAN
    BY <1>1, CallFields DEF AuditVerdict, IInv, CallOK
  <1> DEFINE e == [on |-> b.on, credential |-> b.credential, accepted |-> b.passed]
             v == [session |-> b.on, accepted |-> b.passed, polled |-> FALSE]
  <1>3. /\ audit' = audit \cup {e} /\ verdicts' = verdicts \cup {v} /\ Update(x, Idle)
        /\ UNCHANGED <<offer, session, issued, late, handed>>
    BY <1>1 DEF AuditVerdict, Ends
  <1>4. e \in Event /\ v \in VerdictResponse
    BY <1>2 DEF Event, VerdictResponse
  <1>5. TypeOK'
    BY <1>3, <1>4, IdleType, TypeUpdate DEF IInv, TypeOK, StoredEvents
  <1>6. IssuedGrows /\ SettledStay
    BY <1>3 DEF IInv, TypeOK, IssuedGrows, SettledStay
  <1>7. HandedOK' /\ RevokedNeverVerifies'
    BY <1>3, <1>5, <1>6, HistoriesKept DEF IInv, RevokedNeverVerifies
  <1>8. AuditOK'
    BY <1>2, <1>3 DEF IInv, AuditOK, DecidedAs
  <1>9. VerdictsOK'
    <2>1. ASSUME NEW u \in verdicts
          PROVE  DecidedAs(u.session, u.accepted)' /\ (~u.polled => \E f \in audit' : f.on = u.session)
      BY <1>3 DEF IInv, VerdictsOK, DecidedAs
    <2>2. DecidedAs(b.on, b.passed)'
      BY <1>2, <1>3 DEF DecidedAs
    <2>3. \E f \in audit' : f.on = b.on
      <3>1. e.on = b.on
        OBVIOUS
      <3> HIDE DEF e
      <3> QED
        BY <1>3, <3>1
    <2>4. v.session = b.on /\ v.accepted = b.passed
      OBVIOUS
    <2> HIDE DEF v, e
    <2> QED
      BY <1>3, <2>1, <2>2, <2>3, <2>4 DEF VerdictsOK, DecidedAs
  <1> HIDE DEF e, v
  <1> QED
    BY <1>3, <1>5, <1>6, <1>7, <1>8, <1>9, IdleType, IdleOK, StepKeeps

LEMMA PollKeeps == ASSUME IInv, NEW s \in Sessions, Poll(s) PROVE IInv'
  <1> PICK p \in BOOLEAN : p = (session[s].status = "VERIFIED")
    OBVIOUS
  <1> DEFINE v == [session |-> s, accepted |-> p, polled |-> TRUE]
  <1>1. /\ session[s].status \in {"VERIFIED", "REJECTED"} /\ verdicts' = verdicts \cup {v}
        /\ UNCHANGED <<offer, session, issued, late, audit, call, handed>>
    BY DEF Poll
  <1>2. v \in VerdictResponse
    BY DEF VerdictResponse
  <1>3. TypeOK'
    BY <1>1, <1>2 DEF IInv, TypeOK
  <1>4. IssuedGrows /\ SettledStay
    BY <1>1 DEF IInv, TypeOK, IssuedGrows, SettledStay
  <1>5. HandedOK' /\ AuditOK' /\ RevokedNeverVerifies'
    BY <1>1, <1>3, <1>4, HistoriesKept DEF IInv, RevokedNeverVerifies
  <1>6. VerdictsOK'
    <2>1. ASSUME NEW u \in verdicts
          PROVE  DecidedAs(u.session, u.accepted)' /\ (~u.polled => \E f \in audit' : f.on = u.session)
      BY <1>1 DEF IInv, VerdictsOK, DecidedAs
    <2>2. DecidedAs(s, p)'
      BY <1>1 DEF DecidedAs
    <2>3. v.session = s /\ v.accepted = p /\ v.polled
      OBVIOUS
    <2> HIDE DEF v
    <2> QED
      BY <1>1, <2>1, <2>2, <2>3 DEF VerdictsOK, DecidedAs
  <1> QED
    BY <1>1, <1>3, <1>4, <1>5, <1>6, StepKeeps

LEMMA ExpireKeeps == ASSUME IInv, NEW d \in Offers \cup Sessions, Expire(d) PROVE IInv'
  <1>1. late' \subseteq Offers \cup Sessions /\ UNCHANGED <<offer, session, issued, audit, call, handed, verdicts>>
    BY DEF Expire, IInv, TypeOK
  <1>2. TypeOK'
    BY <1>1 DEF IInv, TypeOK
  <1>3. IssuedGrows /\ SettledStay
    BY <1>1 DEF IInv, TypeOK, IssuedGrows, SettledStay
  <1>4. HandedOK' /\ AuditOK' /\ VerdictsOK' /\ RevokedNeverVerifies'
    BY <1>1, <1>2, <1>3, HistoriesKept DEF IInv, RevokedNeverVerifies
  <1> QED
    BY <1>1, <1>2, <1>3, <1>4, StepKeeps

LEMMA RevokeCredentialKeeps == ASSUME IInv, NEW k \in Known, RevokeCredential(k) PROVE IInv'
  <1>1. /\ issued' = [issued EXCEPT ![k].status = "REVOKED"]
        /\ UNCHANGED <<offer, session, late, audit, call, handed, verdicts>>
    BY DEF RevokeCredential
  <1>2. issued \in Seq(Credential) /\ k \in 1 .. Len(issued) /\ issued[k] \in Credential
    BY DEF IInv, TypeOK, Known
  <1>3. [issued[k] EXCEPT !.status = "REVOKED"] \in Credential
    BY <1>2 DEF Credential
  <1>4. /\ issued' \in Seq(Credential) /\ Len(issued') = Len(issued)
        /\ \A j \in Known : j # k => issued'[j] = issued[j]
        /\ issued'[k].holder = issued[k].holder /\ issued'[k].status = "REVOKED"
    BY <1>1, <1>2, <1>3 DEF Known, Credential
  <1>5. TypeOK'
    BY <1>1, <1>4 DEF IInv, TypeOK
  <1>6. IssuedGrows /\ SettledStay
    BY <1>1, <1>2, <1>4 DEF IssuedGrows, SettledStay
  <1>7. HandedOK' /\ AuditOK' /\ VerdictsOK' /\ RevokedNeverVerifies'
    BY <1>1, <1>5, <1>6, HistoriesKept DEF IInv, RevokedNeverVerifies
  <1> QED
    BY <1>1, <1>5, <1>6, <1>7, StepKeeps

LEMMA FailKeeps == ASSUME IInv, NEW x \in Clients, Fail(x) PROVE IInv'
  BY IdleType, IdleOK, OnlyCall DEF Fail, Ends

-----------------------------------------------------------------------------
\* Theorems

LEMMA InvariantInit == Init => IInv
  <1> SUFFICES ASSUME Init PROVE IInv
    OBVIOUS
  <1>1. \A x \in Clients : CallOK(call[x])
    BY IdleOK DEF Init, CallOK, Idle
  <1>2. HandedOK /\ AuditOK /\ VerdictsOK /\ RevokedNeverVerifies
    BY DEF Init, HandedOK, AuditOK, VerdictsOK, RevokedNeverVerifies
  <1> QED
    BY <1>1, <1>2, TypeInit DEF IInv

LEMMA InvariantNext == IInv /\ [Next]_vars => IInv'
  <1> SUFFICES ASSUME IInv, [Next]_vars PROVE IInv'
    OBVIOUS
  <1>1. ASSUME NEW o \in Offers, OfferRequest(o) PROVE IInv'
    BY <1>1, CreateOfferKeeps DEF OfferRequest
  <1>2. ASSUME NEW s \in Sessions, SessionRequest(s) \/ PollRequest(s) PROVE IInv'
    BY <1>2, CreateSessionKeeps, PollKeeps DEF SessionRequest, PollRequest
  <1>3. ASSUME NEW x \in Clients, ClaimRequest(x) PROVE IInv'
    BY <1>3, OpenClaimKeeps DEF ClaimRequest
  <1>4. ASSUME NEW x \in Clients, DirectPost(x) PROVE IInv'
    BY <1>4, PostKeeps DEF DirectPost
  <1>5. ASSUME NEW x \in Clients, Sign(x) \/ MarkClaimed(x) \/ AuditClaim(x) PROVE IInv'
    BY <1>5, SignKeeps, MarkClaimedKeeps, AuditClaimKeeps
  <1>6. ASSUME NEW x \in Clients, CheckStatus(x) \/ Decide(x) \/ AuditVerdict(x) \/ Fail(x) PROVE IInv'
    BY <1>6, CheckStatusKeeps, DecideKeeps, AuditVerdictKeeps, FailKeeps
  <1>7. ASSUME NEW d \in Offers \cup Sessions, Expire(d) PROVE IInv'
    BY <1>7, ExpireKeeps
  <1>8. ASSUME NEW k \in Known, RevokeCredential(k) PROVE IInv'
    BY <1>8, RevokeCredentialKeeps
  <1>9. CASE UNCHANGED vars
    <2>1. TypeOK'
      BY <1>9 DEF vars, IInv, TypeOK
    <2>2. IssuedGrows /\ SettledStay
      BY <1>9 DEF vars, IInv, TypeOK, IssuedGrows, SettledStay
    <2>3. HandedOK' /\ AuditOK' /\ VerdictsOK' /\ RevokedNeverVerifies'
      BY <1>9, <2>1, <2>2, HistoriesKept DEF vars, IInv, RevokedNeverVerifies
    <2> QED
      BY <1>9, <2>1, <2>2, <2>3, StepKeeps DEF vars
  <1> QED
    BY <1>1, <1>2, <1>3, <1>4, <1>5, <1>6, <1>7, <1>8, <1>9 DEF Next

\* The inductive invariant holds in every state: what a request in flight relies on is
\* still so when it comes to write, and what was answered or audited is what is stored.
THEOREM Invariant == Spec => []IInv
  BY InvariantInit, InvariantNext, PTL DEF Spec

\* Documents, requests and histories keep their types.
THEOREM TypeCorrect == Spec => []TypeOK
  <1>1. IInv => TypeOK
    BY DEF IInv
  <1> QED
    BY <1>1, Invariant, PTL

\* Of any number of requests that exchange one code, one holder is answered, and with the
\* credential that the stored offer and an audit event name.
THEOREM OneHolderIsAnswered == Spec => []HandedOnce
  <1>1. IInv => HandedOnce
    <2> SUFFICES ASSUME IInv, NEW a \in handed
                 PROVE  /\ \A b \in handed : a.offer = b.offer => a = b
                        /\ offer[a.offer].status = "CLAIMED"
                        /\ offer[a.offer].by = a.holder /\ offer[a.offer].credential = a.credential
                        /\ a.credential \in Known /\ issued[a.credential].holder = a.holder
                        /\ [on |-> a.offer, credential |-> a.credential, accepted |-> TRUE] \in audit
      BY DEF HandedOnce
    <2>1. ASSUME NEW b \in handed, a.offer = b.offer PROVE a = b
      <3>1. a \in ClaimResponse /\ b \in ClaimResponse
        BY DEF IInv, TypeOK
      <3>2. a.holder = b.holder /\ a.credential = b.credential
        BY <2>1 DEF IInv, HandedOK, ClaimedAs
      <3> QED
        BY <2>1, <3>1, <3>2 DEF ClaimResponse
    <2> QED
      BY <2>1 DEF IInv, HandedOK, ClaimedAs
  <1> QED
    BY <1>1, Invariant, PTL

\* A credential that was revoked when the wallet posted it never makes a session VERIFIED.
THEOREM RevokedStaysOut == Spec => []RevokedNeverVerifies
  <1>1. IInv => RevokedNeverVerifies
    BY DEF IInv
  <1> QED
    BY <1>1, Invariant, PTL

\* A verdict that was told is the stored one, whatever other posts are in flight, and no
\* audit event contradicts it.
THEOREM VerdictsAreStored == Spec => []ToldIsStored
  <1>1. IInv => ToldIsStored
    <2> SUFFICES ASSUME IInv, NEW v \in verdicts
                 PROVE  /\ session[v.session].status = (IF v.accepted THEN "VERIFIED" ELSE "REJECTED")
                        /\ \A e \in audit : e.on = v.session => e.accepted = v.accepted
                        /\ ~v.polled => \E e \in audit : e.on = v.session
      BY DEF ToldIsStored
    <2>1. v.session \in Sessions /\ v.accepted \in BOOLEAN
      BY DEF IInv, TypeOK, VerdictResponse
    <2>2. DecidedAs(v.session, v.accepted) /\ (~v.polled => \E e \in audit : e.on = v.session)
      BY DEF IInv, VerdictsOK
    <2>3. ASSUME NEW e \in audit, e.on = v.session PROVE e.accepted = v.accepted
      <3>1. e.accepted \in BOOLEAN
        BY DEF IInv, TypeOK, StoredEvents, Event
      <3>2. DecidedAs(v.session, e.accepted)
        BY <2>1, <2>3 DEF IInv, AuditOK
      <3> QED
        BY <2>1, <2>2, <3>1, <3>2 DEF DecidedAs
    <2> QED
      BY <2>2, <2>3 DEF DecidedAs
  <1> QED
    BY <1>1, Invariant, PTL
=============================================================================
