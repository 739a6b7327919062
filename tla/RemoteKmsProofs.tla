-------------------------- MODULE RemoteKmsProofs --------------------------
(***************************************************************************)
(* Machine-checked proofs about RemoteKms, for every value of its          *)
(* constants.                                                              *)
(***************************************************************************)
EXTENDS RemoteKms, FiniteSetTheorems, TLAPS

USE SettingsAssumption

\* TypeOK without the calls, for the steps that only touch the circuit.
LEMMA CircuitTypes ==
    ASSUME TypeOK, PassCircuit \/ RecordSuccess \/ RecordFailure
    PROVE  failures' \in 0 .. FailureThreshold
           /\ openFor' \in {Closed} \cup 0 .. ResetTime /\ sent' \in Nat
    BY DEF TypeOK, PassCircuit, RecordSuccess, RecordFailure, Opens, Closed

LEMMA CallTypes ==
    ASSUME TypeOK, NEW c \in Callers
    PROVE  /\ Idle \in Call /\ [Idle EXCEPT !.step = "send"] \in Call
           /\ AfterFailure(c) \in Call
           /\ \A o \in Outcomes :
                 [call[c] EXCEPT !.step = "sent", !.outcome = o] \in Call
<1>1. call[c] \in Call
    BY DEF TypeOK
<1>2. Idle \in Call /\ [Idle EXCEPT !.step = "send"] \in Call
    BY DEF Idle, Call, Outcomes
<1>3. \A o \in Outcomes : [call[c] EXCEPT !.step = "sent", !.outcome = o] \in Call
    BY <1>1 DEF Call
<1>4. CASE call[c].attempt < RetryCount
  <2>1. call[c].attempt + 1 \in 0 .. RetryCount
      BY <1>1, <1>4 DEF Call
  <2>2. [call[c] EXCEPT !.step = "send", !.attempt = call[c].attempt + 1] \in Call
      BY <1>1, <2>1 DEF Call
  <2>. QED  BY <1>2, <1>3, <1>4, <2>2 DEF AfterFailure
<1>5. CASE ~(call[c].attempt < RetryCount)
    BY <1>2, <1>3, <1>5 DEF AfterFailure
<1>. QED  BY <1>4, <1>5

LEMMA NextTypeOK ==
    ASSUME TypeOK, [Next]_vars
    PROVE  TypeOK'
<1>1. ASSUME NEW c \in Callers, Enter(c) \/ Succeed(c) \/ Fail(c)
      PROVE  TypeOK'
    BY <1>1, CircuitTypes, CallTypes DEF TypeOK, Enter, Succeed, Fail
<1>2. ASSUME NEW c \in Callers, EnterUnauthenticated(c)
      PROVE  TypeOK'
    BY <1>2, CircuitTypes DEF TypeOK, EnterUnauthenticated
<1>3. ASSUME NEW c \in Callers, Send(c)
      PROVE  TypeOK'
  <2>1. PICK o \in Outcomes :
          call' = [call EXCEPT ![c].step = "sent", ![c].outcome = o]
      BY <1>3 DEF Send, Outcomes
  <2>2. call' = [call EXCEPT ![c] = [call[c] EXCEPT !.step = "sent", !.outcome = o]]
      BY <2>1 DEF TypeOK
  <2>3. call' \in [Callers -> Call]
      BY <2>2, CallTypes DEF TypeOK
  <2>. QED  BY <1>3, <2>3 DEF TypeOK, Send
<1>4. ASSUME NEW c \in Callers, Raise(c)
      PROVE  TypeOK'
    BY <1>4, CallTypes DEF TypeOK, Raise
<1>5. CASE Tick
    BY <1>5 DEF TypeOK, Tick, IsOpen, Closed
<1>6. CASE Toggle \/ UNCHANGED vars
    BY <1>6 DEF TypeOK, Toggle, vars
<1>. QED  BY <1>1, <1>2, <1>3, <1>4, <1>5, <1>6 DEF Next, Step

\* The adapter's state holds values of the declared types.
THEOREM TypeCorrect == Spec => []TypeOK
<1>1. Init => TypeOK
    BY DEF Init, TypeOK, Call, Idle, Outcomes, Closed
<1>. QED  BY <1>1, NextTypeOK, PTL DEF Spec

\* The circuit is open exactly when as many failures as the threshold have followed
\* each other, whatever the threads do between their accesses to it.
THEOREM AlwaysEarned == Spec => []CircuitIsEarned
<1>1. Init => CircuitIsEarned
    BY DEF Init, CircuitIsEarned, IsOpen, Closed
<1>2. TypeOK /\ CircuitIsEarned /\ [Next]_vars => CircuitIsEarned'
  <2> SUFFICES ASSUME TypeOK, CircuitIsEarned, [Next]_vars
               PROVE  CircuitIsEarned'
      OBVIOUS
  <2>1. CASE PassCircuit \/ RecordSuccess
      BY <2>1 DEF PassCircuit, MayPass, RecordSuccess, CircuitIsEarned, IsOpen, Closed
  <2>2. CASE RecordFailure
      BY <2>2 DEF RecordFailure, Opens, CircuitIsEarned, IsOpen, Closed, TypeOK
  <2>3. CASE Tick
      BY <2>3 DEF Tick, CircuitIsEarned, IsOpen, Closed, TypeOK
  <2>4. CASE UNCHANGED <<failures, openFor>>
      BY <2>4 DEF CircuitIsEarned, IsOpen
  <2>. QED
      BY <2>1, <2>2, <2>3, <2>4
      DEF Next, Step, Enter, EnterUnauthenticated, Send, Succeed, Raise, Fail, Toggle, vars
<1>. QED  BY <1>1, <1>2, TypeCorrect, PTL DEF Spec

-----------------------------------------------------------------------------
(* What an open circuit lets through.  An attempt is a caller with the     *)
(* number of the attempt; those that the calls in flight have left only    *)
(* become fewer while the circuit is open, and each request sent is one of *)
(* them.  The failure that opened the circuit was one, too.                *)

Attempts == Callers \X (0 .. RetryCount)

IsLeft(c, n) ==
    \/ call[c].step = "send" /\ n >= call[c].attempt
    \/ call[c].step = "sent" /\ n > call[c].attempt

Left == {s \in Attempts : IsLeft(s[1], s[2])}

Drains ==
    /\ ~IsOpen => sent = 0
    /\ IsOpen => sent + Cardinality(Left) < Cardinality(Attempts)

LEMMA AttemptsCount ==
    /\ IsFiniteSet(Attempts)
    /\ Cardinality(Attempts) = Cardinality(Callers) * (RetryCount + 1)
    /\ Cardinality(Attempts) \in Nat
<1>1. IsFiniteSet(0 .. RetryCount) /\ Cardinality(0 .. RetryCount) = RetryCount + 1
    BY FS_Interval
<1>2. IsFiniteSet(Callers)
    OBVIOUS
<1>. QED  BY <1>1, <1>2, FS_Product, FS_CardinalityType DEF Attempts

\* Fewer attempts are left when those of one call are, and the others go on as before.
LEMMA FewerLeft ==
    ASSUME NEW c \in Callers, \A n \in 0 .. RetryCount : IsLeft(c, n)' => IsLeft(c, n),
           \A d \in Callers \ {c} : call'[d] = call[d]
    PROVE  /\ Left' \subseteq Left
           /\ Cardinality(Left') <= Cardinality(Left)
           /\ Cardinality(Left) \in Nat /\ Cardinality(Left') \in Nat
           /\ \A n \in 0 .. RetryCount : IsLeft(c, n) /\ ~IsLeft(c, n)' =>
                 Cardinality(Left') + 1 <= Cardinality(Left)
<1>1. \A d \in Callers, n \in 0 .. RetryCount : IsLeft(d, n)' => IsLeft(d, n)
    BY DEF IsLeft
<1>2. Left' \subseteq Left
    BY <1>1 DEF Left, Attempts
<1>3. Left \subseteq Attempts
    BY DEF Left
<1>4. IsFiniteSet(Left) /\ Cardinality(Left) \in Nat
    BY <1>3, AttemptsCount, FS_Subset, FS_CardinalityType
<1>5. Cardinality(Left') <= Cardinality(Left) /\ IsFiniteSet(Left')
    BY <1>2, <1>4, FS_Subset
<1>6. Cardinality(Left') \in Nat
    BY <1>5, FS_CardinalityType
<1>7. ASSUME NEW n \in 0 .. RetryCount, IsLeft(c, n), ~IsLeft(c, n)'
      PROVE  Cardinality(Left') + 1 <= Cardinality(Left)
  <2>1. <<c, n>> \in Left /\ <<c, n>> \notin Left'
      BY <1>7 DEF Left, Attempts
  <2>2. Cardinality(Left') # Cardinality(Left)
      BY <1>2, <1>4, <2>1, FS_Subset
  <2>. QED  BY <1>4, <1>5, <1>6, <2>2
<1>. QED  BY <1>2, <1>4, <1>5, <1>6, <1>7

LEMMA DrainsNext ==
    ASSUME TypeOK, Drains, [Next]_vars
    PROVE  Drains'
<1>1. call \in [Callers -> Call] /\ sent \in Nat /\ openFor \in {Closed} \cup 0 .. ResetTime
    BY DEF TypeOK
<1>2. \A c \in Callers : call[c].attempt \in 0 .. RetryCount
    BY <1>1 DEF Call
<1>3. ASSUME PassCircuit \/ RecordSuccess
      PROVE  Drains'
    BY <1>3 DEF PassCircuit, MayPass, RecordSuccess, Drains, IsOpen, Closed
<1>4. ASSUME NEW c \in Callers, Send(c)
      PROVE  Drains'
  <2>1. PICK a \in 0 .. RetryCount : a = call[c].attempt
      BY <1>2
  <2>2. /\ call'[c].step = "sent" /\ call'[c].attempt = a
        /\ \A d \in Callers \ {c} : call'[d] = call[d]
        /\ call[c].step = "send" /\ openFor' = openFor
        /\ sent' = IF IsOpen THEN sent + 1 ELSE sent
      BY <1>1, <1>4, <2>1 DEF Send, Call
  <2>3. \A n \in 0 .. RetryCount : IsLeft(c, n)' => IsLeft(c, n)
      BY <2>1, <2>2 DEF IsLeft
  <2>4. IsLeft(c, a) /\ ~IsLeft(c, a)'
      BY <2>1, <2>2 DEF IsLeft
  <2>5. /\ Cardinality(Left') + 1 <= Cardinality(Left)
        /\ Cardinality(Left) \in Nat /\ Cardinality(Left') \in Nat
      BY <2>2, <2>3, <2>4, FewerLeft
  <2>. QED  BY <1>1, <2>2, <2>5, AttemptsCount DEF Drains, IsOpen, Attempts
<1>5. ASSUME NEW c \in Callers, Raise(c)
      PROVE  Drains'
  <2>1. /\ call'[c].step = "idle" /\ \A d \in Callers \ {c} : call'[d] = call[d]
        /\ openFor' = openFor /\ sent' = sent
      BY <1>1, <1>5 DEF Raise, Idle
  <2>2. \A n \in 0 .. RetryCount : IsLeft(c, n)' => IsLeft(c, n)
      BY <2>1 DEF IsLeft
  <2>3. /\ Cardinality(Left') <= Cardinality(Left)
        /\ Cardinality(Left) \in Nat /\ Cardinality(Left') \in Nat
      BY <2>1, <2>2, FewerLeft
  <2>. QED  BY <1>1, <2>1, <2>3, AttemptsCount DEF Drains, IsOpen, Attempts
<1>6. ASSUME NEW c \in Callers, Fail(c)
      PROVE  Drains'
  <2>1. PICK a \in 0 .. RetryCount : a = call[c].attempt
      BY <1>2
  <2>2. /\ \A d \in Callers \ {c} : call'[d] = call[d]
        /\ call[c].step = "sent" /\ sent' = sent /\ openFor' \in {0, openFor}
        /\ \/ call'[c].step = "send" /\ call'[c].attempt = a + 1
           \/ call'[c].step = "idle"
    <3>1. call'[c] = AfterFailure(c) /\ \A d \in Callers \ {c} : call'[d] = call[d]
        BY <1>1, <1>6 DEF Fail
    <3>2. \/ AfterFailure(c).step = "send" /\ AfterFailure(c).attempt = a + 1
          \/ AfterFailure(c).step = "idle"
        BY <1>1, <2>1 DEF AfterFailure, Idle, Call
    <3>. QED  BY <1>6, <3>1, <3>2 DEF Fail, RecordFailure
  <2>3. \A n \in 0 .. RetryCount : IsLeft(c, n)' => IsLeft(c, n)
      BY <2>1, <2>2 DEF IsLeft
  <2>4. /\ Cardinality(Left') <= Cardinality(Left)
        /\ Cardinality(Left) \in Nat /\ Cardinality(Left') \in Nat
      BY <2>2, <2>3, FewerLeft
  <2>5. CASE IsOpen
      BY <1>1, <2>2, <2>4, <2>5, AttemptsCount DEF Drains, IsOpen, Closed, Attempts
  <2>6. CASE ~IsOpen
    <3>1. sent' = 0
        BY <2>2, <2>6 DEF Drains
    <3>2. <<c, 0>> \in Attempts /\ <<c, 0>> \notin Left /\ Left \subseteq Attempts
        BY <2>1, <2>2 DEF Left, Attempts, IsLeft
    <3>3. Cardinality(Left) < Cardinality(Attempts)
      <4>1. Cardinality(Left) <= Cardinality(Attempts)
            /\ Cardinality(Left) # Cardinality(Attempts)
          BY <3>2, AttemptsCount, FS_Subset
      <4>. QED  BY <2>4, <4>1, AttemptsCount
    <3>. QED  BY <2>4, <3>1, <3>3, AttemptsCount DEF Drains, Attempts
  <2>. QED  BY <2>5, <2>6
<1>7. ASSUME UNCHANGED <<call, sent>>, IsOpen' <=> IsOpen
      PROVE  Drains'
    BY <1>7 DEF Drains, Left, IsLeft, Attempts
<1>8. CASE Tick
    BY <1>1, <1>7, <1>8 DEF Tick, IsOpen, Closed
<1>9. CASE Toggle \/ UNCHANGED vars
    BY <1>7, <1>9 DEF Toggle, vars, IsOpen
<1>. QED  BY <1>3, <1>4, <1>5, <1>6, <1>8, <1>9
          DEF Next, Step, Enter, EnterUnauthenticated, Succeed

\* While the circuit is open, all calls together send less than one call's attempts for
\* each thread, however often late failures open it anew.
THEOREM RetriesAreBounded == Spec => []SentWhileOpen
<1>1. Init => Drains
    BY DEF Init, Drains, IsOpen, Closed
<1>2. TypeOK /\ Drains => SentWhileOpen
  <2> SUFFICES ASSUME TypeOK, Drains PROVE SentWhileOpen
      OBVIOUS
  <2>1. IsFiniteSet(Left)
      BY AttemptsCount, FS_Subset DEF Left
  <2>2. Cardinality(Left) \in Nat /\ sent \in Nat
      BY <2>1, FS_CardinalityType DEF TypeOK
  <2>3. CASE IsOpen
      BY <2>2, <2>3, AttemptsCount DEF Drains, SentWhileOpen
  <2>4. CASE ~IsOpen
    <3>1. sent = 0
        BY <2>4 DEF Drains
    <3>2. PICK n \in Nat \ {0} : n = Cardinality(Callers)
        BY FS_CardinalityType, FS_EmptySet
    <3>3. 0 < n * (RetryCount + 1)
        BY <3>2
    <3>. QED  BY <3>1, <3>2, <3>3 DEF SentWhileOpen
  <2>. QED  BY <2>3, <2>4
<1>. QED  BY <1>1, <1>2, DrainsNext, TypeCorrect, PTL DEF Spec
=============================================================================
