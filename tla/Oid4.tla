------------------------------- MODULE Oid4 -------------------------------
\* The OpenID endpoints of the identity service: credential offers that a holder
\* exchanges for a credential (OID4VCI), and verification sessions to which a wallet
\* posts a presentation (OID4VP).
\*
\* Requests run concurrently. Each access to the database is a step, and a request in
\* flight is a record that says which access comes next. The issuance of a credential
\* is one step here; module Credentials has its inside.
EXTENDS Integers, Sequences, FiniteSets

CONSTANTS
    Offers,         \* identifiers of offers, each with its pre-authorized code
    Guarded,        \* offers with a user PIN
    Sessions,       \* identifiers of verification sessions, each with its nonce
    Holders,        \* DIDs that claim offers
    Clients,        \* concurrent requests
    MaxIssued       \* bound on the credentials issued

VARIABLES
    offer,          \* collection credential_offers
    session,        \* collection verification_sessions
    issued,         \* credentials issued through offers, in order of insertion
    late,           \* offers and sessions past their expiry
    audit,          \* audit events of both services
    call,           \* request in flight, per client
    handed,         \* history: credentials answered to holders
    verdicts        \* history: verdicts answered to wallets, and to polling verifiers

vars == <<offer, session, issued, late, audit, call, handed, verdicts>>

None == "none"
Foreign == 0        \* a credential that this service did not issue
Known == 1 .. Len(issued)

ASSUME Oid4Assumptions ==
    /\ Offers \cap Sessions = {} /\ None \notin Holders /\ Guarded \subseteq Offers
    /\ MaxIssued \in Nat

\* The other statuses of the two enumerations are never written. "revoked" is history: if
\* the presented credential was revoked before the request that decided the session.
Offer ==
    [status : {"ABSENT", "PENDING", "CLAIMED"}, by : Holders \cup {None},
     credential : Nat, version : Nat]
Session ==
    [status : {"ABSENT", "PENDING", "VERIFIED", "REJECTED"}, credential : Nat,
     revoked : BOOLEAN, version : Nat]
Credential == [holder : Holders, status : {"ACTIVE", "REVOKED"}]

Steps == {"idle", "sign", "claim", "auditClaim", "status", "decide", "auditVerdict"}
Call ==
    [step : Steps, on : Offers \cup Sessions \cup {None}, holder : Holders \cup {None},
     credential : Nat, version : Nat, passed : BOOLEAN, revoked : BOOLEAN]
Idle ==
    [step |-> "idle", on |-> None, holder |-> None, credential |-> Foreign, version |-> 0,
     passed |-> FALSE, revoked |-> FALSE]

\* An audit event of a claim or of a verdict, and what the two routes answer.
Event == [on : Offers \cup Sessions, credential : Nat, accepted : BOOLEAN]
ClaimResponse == [offer : Offers, holder : Holders, credential : Nat]
VerdictResponse == [session : Sessions, accepted : BOOLEAN, polled : BOOLEAN]

StoredOffers == [Offers -> Offer]
StoredSessions == [Sessions -> Session]
StoredEvents == SUBSET Event

Init ==
    /\ offer = [o \in Offers |-> [status |-> "ABSENT", by |-> None, credential |-> Foreign, version |-> 0]]
    /\ session = [s \in Sessions |->
        [status |-> "ABSENT", credential |-> Foreign, revoked |-> FALSE, version |-> 0]]
    /\ issued = <<>>
    /\ late = {}
    /\ audit = {}
    /\ call = [x \in Clients |-> Idle]
    /\ handed = {}
    /\ verdicts = {}

Update(x, c) == call' = [call EXCEPT ![x] = c]
Ends(x) == Update(x, Idle)

-----------------------------------------------------------------------------
\* OID4VCI

\* add: the unique index admits an identifier once.
NewOffer(o) == offer[o].status = "ABSENT"
NewSession(s) == session[s].status = "ABSENT"

\* create_offer
CreateOffer(o) ==
    /\ NewOffer(o)
    /\ offer' = [offer EXCEPT ![o].status = "PENDING", ![o].version = 1]
    /\ UNCHANGED <<session, issued, late, audit, call, handed, verdicts>>

\* claim_offer_and_issue: the offer is read by its code; it must be pending and in time.
Open(o) == offer[o].status = "PENDING" /\ o \notin late

\* A wrong PIN, like an offer that is not open, ends the request with no effect.
OpenClaim(x, o, h, pin) ==
    /\ call[x] = Idle
    /\ Open(o)
    /\ o \in Guarded => pin
    /\ Update(x, [Idle EXCEPT !.step = "sign", !.on = o, !.holder = h, !.version = offer[o].version])
    /\ UNCHANGED <<offer, session, issued, late, audit, handed, verdicts>>

\* sign_credential: the credential is issued, whether or not the offer is still open.
Sign(x) ==
    /\ call[x].step = "sign"
    /\ Len(issued) < MaxIssued
    /\ issued' = Append(issued, [holder |-> call[x].holder, status |-> "ACTIVE"])
    /\ Update(x, [call[x] EXCEPT !.step = "claim", !.credential = Len(issued) + 1])
    /\ UNCHANGED <<offer, session, late, audit, handed, verdicts>>

\* Variant: the offer is not compared with what was read.
ClaimableAnyway(o, v) == offer[o].status # "ABSENT"

\* mark_claimed: the version that was read, and still pending.
Claimable(o, v) == offer[o].version = v /\ offer[o].status = "PENDING"

ClaimedBy(c) ==
    [status |-> "CLAIMED", by |-> c.holder, credential |-> c.credential, version |-> c.version + 1]

\* mark_claimed. A request that finds the offer claimed leaves its credential behind.
MarkClaimed(x) ==
    /\ call[x].step = "claim"
    /\ LET c == call[x] IN
       \/ /\ Claimable(c.on, c.version)
          /\ offer' = [offer EXCEPT ![c.on] = ClaimedBy(c)]
          /\ Update(x, [c EXCEPT !.step = "auditClaim"])
       \/ /\ ~Claimable(c.on, c.version)
          /\ Ends(x)
          /\ UNCHANGED offer
    /\ UNCHANGED <<session, issued, late, audit, handed, verdicts>>

\* The audit event is the last step; then the holder is answered.
AuditClaim(x) ==
    /\ call[x].step = "auditClaim"
    /\ LET c == call[x] IN
       /\ audit' = audit \cup {[on |-> c.on, credential |-> c.credential, accepted |-> TRUE]}
       /\ handed' = handed \cup {[offer |-> c.on, holder |-> c.holder, credential |-> c.credential]}
    /\ Ends(x)
    /\ UNCHANGED <<offer, session, issued, late, verdicts>>

-----------------------------------------------------------------------------
\* OID4VP

\* create_session
CreateSession(s) ==
    /\ NewSession(s)
    /\ session' = [session EXCEPT ![s].status = "PENDING", ![s].version = 1]
    /\ UNCHANGED <<offer, issued, late, audit, call, handed, verdicts>>

\* A presentation: the first credential that it names, if its form is right (issuer, proof,
\* subject and risk score), the end of validity that it states, and the nonce of its proof.
\* Credentials after the first are never looked at (vcs[0]); they are left out.
Token ==
    [credential : Known \cup {Foreign}, formed : BOOLEAN,
     until : {"future", "past", "unreadable"}, nonce : {"own", "other", "absent"}]

Revoked(k) == k \in Known /\ issued[k].status = "REVOKED"

\* expiry_valid: an end of validity that is absent or cannot be read is no end.
ExpiryValid(t) == t.until # "past"

\* challenge_valid: a proof without a nonce is taken to have the session's.
ChallengeValid(t) == t.nonce # "other"

\* The checks before the credential's status is read.
Passes(t) == t.formed /\ ExpiryValid(t) /\ ChallengeValid(t)

\* get_session, process_direct_post: only a pending session in time is evaluated.
Readable(s) == session[s].status = "PENDING" /\ s \notin late

\* process_direct_post.
Post(x, s, t) ==
    /\ call[x] = Idle
    /\ Readable(s)
    /\ Update(x, [Idle EXCEPT !.step = "status", !.on = s, !.credential = t.credential,
                              !.version = session[s].version, !.passed = Passes(t),
                              !.revoked = Revoked(t.credential)])
    /\ UNCHANGED <<offer, session, issued, late, audit, handed, verdicts>>

\* Variant: every credential counts as unknown.
ClearAsUnknown(k) == TRUE

\* revocation_status_clear: an unknown credential counts as clear.
Clear(k) == ~Revoked(k)

CheckStatus(x) ==
    /\ call[x].step = "status"
    /\ Update(x, [call[x] EXCEPT !.step = "decide", !.passed = @ /\ Clear(call[x].credential)])
    /\ UNCHANGED <<offer, session, issued, late, audit, handed, verdicts>>

\* Variant: the verdict replaces what is there.
DecidableAnyway(s, v) == session[s].status # "ABSENT"

\* update_result: the version that was read, and still pending.
Decidable(s, v) == session[s].version = v /\ session[s].status = "PENDING"

\* Variant: the policy's word is stored.
VerdictAsPolicy(c) == IF c.passed THEN "ACCEPTED" ELSE "REJECTED"

Verdict(c) == IF c.passed THEN "VERIFIED" ELSE "REJECTED"

Decide(x) ==
    /\ call[x].step = "decide"
    /\ LET c == call[x] IN
       \/ /\ Decidable(c.on, c.version)
          /\ session' = [session EXCEPT ![c.on] =
                [status |-> Verdict(c), credential |-> c.credential,
                 revoked |-> c.revoked, version |-> @.version + 1]]
          /\ Update(x, [c EXCEPT !.step = "auditVerdict"])
       \/ /\ ~Decidable(c.on, c.version)
          /\ Ends(x)
          /\ UNCHANGED session
    /\ UNCHANGED <<offer, issued, late, audit, handed, verdicts>>

AuditVerdict(x) ==
    /\ call[x].step = "auditVerdict"
    /\ LET c == call[x] IN
       /\ audit' = audit \cup {[on |-> c.on, credential |-> c.credential, accepted |-> c.passed]}
       /\ verdicts' = verdicts \cup {[session |-> c.on, accepted |-> c.passed, polled |-> FALSE]}
    /\ Ends(x)
    /\ UNCHANGED <<offer, session, issued, late, handed>>

\* get_session for a verifier that waits for the verdict, before or after the audit event.
Poll(s) ==
    /\ session[s].status \in {"VERIFIED", "REJECTED"}
    /\ verdicts' = verdicts \cup
            {[session |-> s, accepted |-> session[s].status = "VERIFIED", polled |-> TRUE]}
    /\ UNCHANGED <<offer, session, issued, late, audit, call, handed>>

-----------------------------------------------------------------------------
\* Around the two services

\* Time passes: an offer or a session expires.
Expire(d) ==
    /\ d \notin late
    /\ IF d \in Offers THEN offer[d].status = "PENDING" ELSE session[d].status = "PENDING"
    /\ late' = late \cup {d}
    /\ UNCHANGED <<offer, session, issued, audit, call, handed, verdicts>>

\* Module Credentials: a credential is revoked.
RevokeCredential(k) ==
    /\ issued[k].status = "ACTIVE"
    /\ issued' = [issued EXCEPT ![k].status = "REVOKED"]
    /\ UNCHANGED <<offer, session, late, audit, call, handed, verdicts>>

\* A database call or the signing fails, or the process dies: the request ends, after
\* its last access or before it.
Fail(x) ==
    /\ call[x] # Idle
    /\ Ends(x)
    /\ UNCHANGED <<offer, session, issued, late, audit, handed, verdicts>>

\* The routes.
OfferRequest(o) == CreateOffer(o)
SessionRequest(s) == CreateSession(s)
PollRequest(s) == Poll(s)
ClaimRequest(x) == \E o \in Offers, h \in Holders, pin \in BOOLEAN : OpenClaim(x, o, h, pin)
DirectPost(x) == \E s \in Sessions, t \in Token : Post(x, s, t)
Next ==
    \/ \E o \in Offers : OfferRequest(o)
    \/ \E s \in Sessions : SessionRequest(s) \/ PollRequest(s)
    \/ \E x \in Clients :
        \/ ClaimRequest(x) \/ Sign(x) \/ MarkClaimed(x) \/ AuditClaim(x)
        \/ DirectPost(x) \/ CheckStatus(x) \/ Decide(x) \/ AuditVerdict(x)
        \/ Fail(x)
    \/ \E d \in Offers \cup Sessions : Expire(d)
    \/ \E k \in Known : RevokeCredential(k)

Spec == Init /\ [][Next]_vars

-----------------------------------------------------------------------------
\* Properties

\* Documents, requests and histories keep their types.
TypeOK ==
    /\ offer \in StoredOffers
    /\ session \in StoredSessions
    /\ issued \in Seq(Credential) /\ Len(issued) <= MaxIssued
    /\ late \subseteq Offers \cup Sessions
    /\ audit \in StoredEvents
    /\ call \in [Clients -> Call]
    /\ handed \subseteq ClaimResponse
    /\ verdicts \subseteq VerdictResponse

\* However many requests exchange one code at once, one holder is answered, with a
\* credential made out to him, and the stored offer and an audit event say the same
\* (claim_offer_and_issue: issuing, claiming, auditing are three separate writes).
HandedOnce ==
    \A a \in handed :
        /\ \A b \in handed : a.offer = b.offer => a = b
        /\ offer[a.offer].status = "CLAIMED"
        /\ offer[a.offer].by = a.holder /\ offer[a.offer].credential = a.credential
        /\ a.credential \in Known /\ issued[a.credential].holder = a.holder
        /\ [on |-> a.offer, credential |-> a.credential, accepted |-> TRUE] \in audit

\* A credential that was revoked when the wallet posted it never makes a session
\* VERIFIED, although its status is read after and the verdict stored later still
\* (process_direct_post).
RevokedNeverVerifies == \A s \in Sessions : session[s].status = "VERIFIED" => ~session[s].revoked

\* A verdict that a wallet or a polling verifier was told is the stored one and stays so,
\* whatever other posts of that session are in flight; no audit event contradicts it, and
\* a wallet is told only after there is one (Decide and AuditVerdict are two writes).
ToldIsStored ==
    \A v \in verdicts :
        /\ session[v.session].status = (IF v.accepted THEN "VERIFIED" ELSE "REJECTED")
        /\ \A e \in audit : e.on = v.session => e.accepted = v.accepted
        /\ ~v.polled => \E e \in audit : e.on = v.session

=============================================================================
