----------------------------- MODULE RemoteKms -----------------------------
(***************************************************************************)
(* GenericRemoteKmsAdapter: the calls of several threads to a key service, *)
(* their bounded retries and the circuit breaker they share.  The lock     *)
(* protects each access to the breaker, not a call: between two accesses   *)
(* of a call those of any other happen.                                    *)
(*                                                                         *)
(* The time since the breaker opened is counted up to the reset time, and  *)
(* the failures up to the threshold: the code compares no further.  The    *)
(* wait between two attempts is the freedom of every other step to come    *)
(* first.  What the service does with a request is ManagedKeys' matter.    *)
(***************************************************************************)
EXTENDS Integers, FiniteSets

CONSTANTS
    Callers,           \* threads that call the adapter
    RetryCount,        \* retry_count
    FailureThreshold,  \* circuit_failure_threshold
    ResetTime          \* circuit_reset_seconds, in ticks

ASSUME SettingsAssumption ==
    /\ IsFiniteSet(Callers) /\ Callers # {}
    /\ RetryCount \in Nat
    /\ FailureThreshold \in Nat \ {0}
    /\ ResetTime \in Nat \ {0}

VARIABLES
    failures,  \* _consecutive_failures, up to FailureThreshold
    openFor,   \* time since _circuit_opened_at, Closed when it is None
    call,      \* what each caller's _json_request is doing
    up,        \* whether the service answers
    sent       \* requests sent since the circuit opened (kept for SentWhileOpen)

vars == <<failures, openFor, call, up, sent>>

Closed == -1
IsOpen == openFor # Closed

Outcomes == {"success", "unavailable", "error"}
Idle == [step |-> "idle", attempt |-> 0, outcome |-> "success"]
Call == [step : {"idle", "send", "sent"}, attempt : 0 .. RetryCount,
         outcome : Outcomes]

Init ==
    /\ failures = 0
    /\ openFor = Closed
    /\ call = [c \in Callers |-> Idle]
    /\ up \in BOOLEAN
    /\ sent = 0

-----------------------------------------------------------------------------
(* The circuit breaker *)

\* Variant: the reset time is never compared.
MayPassClosed == ~IsOpen

\* A circuit whose reset time has come is closed by the next call, and forgets.
MayPass == openFor \in {Closed, ResetTime}

\* Variant: the circuit lets a call through without forgetting the failures.
PassCircuitOnProbation ==
    /\ MayPass
    /\ openFor' = Closed
    /\ UNCHANGED <<failures, sent>>

PassCircuit ==
    /\ MayPass
    /\ IF IsOpen THEN openFor' = Closed /\ failures' = 0 /\ sent' = 0
                 ELSE UNCHANGED <<openFor, failures, sent>>

RecordSuccess ==
    /\ failures' = 0
    /\ openFor' = Closed
    /\ sent' = 0

\* The failure that reaches the threshold opens the circuit; a later one opens it anew.
Opens(n) == n >= FailureThreshold

RecordFailure ==
    LET n == IF failures < FailureThreshold THEN failures + 1 ELSE failures IN
    /\ failures' = n
    /\ openFor' = IF Opens(n) THEN 0 ELSE openFor
    /\ UNCHANGED sent

-----------------------------------------------------------------------------
(* Calls: every operation of the provider is one _json_request *)

Enter(c) ==
    /\ call[c].step = "idle"
    /\ PassCircuit
    /\ call' = [call EXCEPT ![c] = [Idle EXCEPT !.step = "send"]]
    /\ UNCHANGED up

\* The secret of the authentication is looked up once the circuit has let the call
\* through; without it nothing is sent.
EnterUnauthenticated(c) ==
    /\ call[c].step = "idle"
    /\ IsOpen
    /\ PassCircuit
    /\ UNCHANGED <<call, up>>

\* One attempt.  A service that does not answer leaves the call unavailable, whether
\* it did the work or not; one that does may also refuse, which is an error.
Send(c) ==
    /\ call[c].step = "send"
    /\ \E o \in IF up THEN {"success", "error"} ELSE {"unavailable"} :
          call' = [call EXCEPT ![c].step = "sent", ![c].outcome = o]
    /\ sent' = IF IsOpen THEN sent + 1 ELSE sent
    /\ UNCHANGED <<failures, openFor, up>>

Succeed(c) ==
    /\ call[c].step = "sent"
    /\ call[c].outcome = "success"
    /\ RecordSuccess
    /\ call' = [call EXCEPT ![c] = Idle]
    /\ UNCHANGED up

\* An error is raised at once and tells the circuit nothing.
Raise(c) ==
    /\ call[c].step = "sent"
    /\ call[c].outcome = "error"
    /\ call' = [call EXCEPT ![c] = Idle]
    /\ UNCHANGED <<failures, openFor, up, sent>>

\* Variant: the attempts are not counted.
AfterFailureUncounted(c) == [call[c] EXCEPT !.step = "send"]

\* What follows a failed attempt: the next one, although the circuit may be open.
AfterFailure(c) ==
    IF call[c].attempt < RetryCount
      THEN [call[c] EXCEPT !.step = "send", !.attempt = @ + 1]
      ELSE Idle

Fail(c) ==
    /\ call[c].step = "sent"
    /\ call[c].outcome = "unavailable"
    /\ RecordFailure
    /\ call' = [call EXCEPT ![c] = AfterFailure(c)]
    /\ UNCHANGED up

Tick ==
    /\ IsOpen /\ openFor < ResetTime
    /\ openFor' = openFor + 1
    /\ UNCHANGED <<failures, call, up, sent>>

\* The service fails and recovers.
Toggle ==
    /\ up' = ~up
    /\ UNCHANGED <<failures, openFor, call, sent>>

Step(c) == Send(c) \/ Succeed(c) \/ Raise(c) \/ Fail(c)

Next ==
    \/ \E c \in Callers : Enter(c) \/ EnterUnauthenticated(c) \/ Step(c)
    \/ Tick
    \/ Toggle

Spec == Init /\ [][Next]_vars

\* Requests time out and threads run on; time passes.  Nobody has to call.
FairSpec == Spec /\ WF_vars(Tick) /\ \A c \in Callers : WF_vars(Step(c))

-----------------------------------------------------------------------------
\* The adapter's state holds values of the declared types.
TypeOK ==
    /\ failures \in 0 .. FailureThreshold
    /\ openFor \in {Closed} \cup 0 .. ResetTime
    /\ call \in [Callers -> Call]
    /\ up \in BOOLEAN
    /\ sent \in Nat

\* The circuit is open exactly when as many failures as the threshold have followed
\* each other: no interleaving of a late success, a late failure and a reset leaves a
\* closed circuit that the next failure opens, or an open one without its failures.
CircuitIsEarned == IsOpen <=> failures = FailureThreshold

\* An open circuit lets through no more than what the calls that had begun before
\* still had to try (docs/external-kms-key-lifecycle.md: "bounded exponential retry").
SentWhileOpen == sent < Cardinality(Callers) * (RetryCount + 1)

\* Once the service stays up, the circuit does not stay in the way: from some time on
\* the next call is let through, whatever was in flight when the service came back.
ServedAgain == <>[]up => <>[]MayPass

=============================================================================
