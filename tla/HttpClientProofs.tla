--------------------------- MODULE HttpClientProofs ---------------------------
(***************************************************************************)
(* Proofs of the safety properties of HttpClient for any number of         *)
(* services and request threads and all settings.                          *)
(***************************************************************************)
EXTENDS HttpClient, FiniteSetTheorems, TLAPS

-------------------------------------------------------------------------------
(* Arithmetic. *)

\* The smaller and the larger of two numbers.
LEMMA MinMax ==
  ASSUME NEW a \in Int, NEW b \in Int
  PROVE  /\ Min({a, b}) = IF a <= b THEN a ELSE b
         /\ Max({a, b}) = IF a >= b THEN a ELSE b
  <1>1. \E x \in {a, b} : \A y \in {a, b} : x =< y
    OBVIOUS
  <1>2. Min({a, b}) \in {a, b} /\ \A y \in {a, b} : Min({a, b}) =< y
    BY <1>1 DEF Min
  <1>3. \E x \in {a, b} : \A y \in {a, b} : x >= y
    OBVIOUS
  <1>4. Max({a, b}) \in {a, b} /\ \A y \in {a, b} : Max({a, b}) >= y
    BY <1>3 DEF Max
  <1>5. QED
    BY <1>2, <1>4

-------------------------------------------------------------------------------
(* The inductive invariants. *)

\* Pool threads at work.
Busy == {c \in Calls : call[c].at # "none"}

\* A slot is taken for each of them.
SlotInv == IsFiniteSet(Busy) /\ slots + Cardinality(Busy) = MaxOutstanding

\* How often a call was sent, by where its pool thread is.
SentAt(k, n) ==
  /\ k.at \in {"none", "start"} => n = 0 /\ k.attempt = 0
  /\ k.at = "try" => n = k.attempt /\ k.attempt < Attempts(k.method)
  /\ k.at = "await" => n = k.attempt + 1 /\ k.attempt < Attempts(k.method)
  /\ k.at = "sleep" => n = k.attempt + 1 /\ k.attempt + 1 < Attempts(k.method)
  /\ k.at = "exit" => n <= Attempts(k.method)

\* A pool thread at work has a service and a method, and sent its call as often as
\* its attempts say.
CallInv ==
  \A c \in Calls :
    /\ call[c].at # "none" => call[c].service \in Services /\ call[c].method \in Method
    /\ SentAt(call[c], sent[c])

\* A breaker that is half open has not had all the successes it waits for.
Trying(b) == b.state = "half_open" => b.successes < HalfOpenMax

HalfOpenInv == \A s \in Services : Trying(breaker[s])

\* The breaker of a service knows when it failed last and has counted at least the
\* failures in a row; after FailureThreshold of them it is open, or the service has
\* had its rest.
Informed(s) ==
  /\ quiet[s] = breaker[s].since
  /\ streak[s] <= breaker[s].failures
  /\ streak[s] = FailureThreshold =>
       breaker[s].state = "open" \/ breaker[s].since = RecoveryTimeout

BreakerInv == \A s \in Services : Informed(s)

-------------------------------------------------------------------------------
(* Calls and breakers, one at a time. *)

CallType == [at : At, service : Services \cup {Null}, method : Method \cup {Null},
             left : 0..TotalTimeout, attempt : 0..MaxRetries, sleep : 0..TotalTimeout]

BreakerType == [state : State, failures : 0..FailureThreshold,
                since : 0..RecoveryTimeout, successes : 0..HalfOpenMax]

\* The settings, one by one.
LEMMA Settings ==
  /\ MaxOutstanding \in Nat \ {0} /\ FailureThreshold \in Nat \ {0} /\ HalfOpenMax \in Nat \ {0}
  /\ TotalTimeout \in Nat /\ MaxRetries \in Nat /\ Backoff \in Nat /\ RecoveryTimeout \in Nat
  BY SettingsAssumption

\* A call that begins.
NewCall(s, m) ==
  [NoCall EXCEPT !.at = "start", !.service = s, !.method = m, !.left = TotalTimeout]

\* No call, and a new one.
LEMMA NewCalls ==
  /\ NoCall \in CallType /\ NoCall.at = "none" /\ NoCall.attempt = 0
  /\ \A s \in Services, m \in Method :
       /\ NewCall(s, m) \in CallType /\ NewCall(s, m).at = "start"
       /\ NewCall(s, m).service = s /\ NewCall(s, m).method = m /\ NewCall(s, m).attempt = 0
<1>1. /\ NoCall \in CallType /\ NoCall.at = "none" /\ NoCall.attempt = 0
  BY Settings DEF NoCall, CallType, At
<1>2. ASSUME NEW s \in Services, NEW m \in Method
      PROVE  /\ NewCall(s, m) \in CallType /\ NewCall(s, m).at = "start"
             /\ NewCall(s, m).service = s /\ NewCall(s, m).method = m
             /\ NewCall(s, m).attempt = 0
  <2> DEFINE k1 == [NoCall EXCEPT !.at = "start"]
             k2 == [k1 EXCEPT !.service = s]
             k3 == [k2 EXCEPT !.method = m]
             k4 == [k3 EXCEPT !.left = TotalTimeout]
  <2>1. k1 \in CallType /\ k1.at = "start" /\ k1.attempt = 0
    BY <1>1 DEF CallType, At
  <2> HIDE DEF k1
  <2>2. k2 \in CallType /\ k2.at = "start" /\ k2.attempt = 0 /\ k2.service = s
    BY <2>1 DEF CallType
  <2> HIDE DEF k2
  <2>3. k3 \in CallType /\ k3.at = "start" /\ k3.attempt = 0 /\ k3.service = s /\ k3.method = m
    BY <2>2 DEF CallType
  <2> HIDE DEF k3
  <2>4. /\ k4 \in CallType /\ k4.at = "start" /\ k4.attempt = 0 /\ k4.service = s
        /\ k4.method = m
    BY <2>3, Settings DEF CallType
  <2>5. k4 = NewCall(s, m)
    BY DEF k1, k2, k3, NewCall
  <2> HIDE DEF k4
  <2>6. QED
    BY <2>4, <2>5
<1>3. QED
  BY <1>1, <1>2

\* Moving on changes the place only.
LEMMA GoToOK ==
  ASSUME call \in [Calls -> CallType], NEW c \in Calls, NEW at \in At, GoTo(c, at)
  PROVE  /\ call' \in [Calls -> CallType]
         /\ call'[c].at = at /\ call'[c].service = call[c].service
         /\ call'[c].method = call[c].method /\ call'[c].attempt = call[c].attempt
         /\ \A d \in Calls \ {c} : call'[d] = call[d]
<1> DEFINE k == [call[c] EXCEPT !.at = at]
<1>1. call[c] \in CallType
  OBVIOUS
<1>2. /\ k \in CallType /\ k.at = at /\ k.service = call[c].service
      /\ k.method = call[c].method /\ k.attempt = call[c].attempt
  BY <1>1 DEF CallType
<1>3. call' = [call EXCEPT ![c] = k]
  BY DEF GoTo
<1> HIDE DEF k
<1>4. QED
  BY <1>2, <1>3

\* A breaker stays a breaker when it lets a request through.
LEMMA AdmitOK ==
  ASSUME NEW b \in BreakerType, Trying(b)
  PROVE  /\ Admit(b) \in BreakerType /\ Trying(Admit(b))
         /\ Admit(b).since = b.since /\ Admit(b).failures = b.failures
         /\ b.state # "open" => Admit(b) = b
<1> DEFINE b1 == [b EXCEPT !.state = "half_open"]
           b2 == [b1 EXCEPT !.successes = 0]
<1>1. /\ b1 \in BreakerType /\ b1.state = "half_open"
      /\ b1.since = b.since /\ b1.failures = b.failures
  BY DEF BreakerType, State
<1> HIDE DEF b1
<1>2. /\ b2 \in BreakerType /\ b2.state = "half_open" /\ b2.successes = 0
      /\ b2.since = b.since /\ b2.failures = b.failures
  BY <1>1, Settings DEF BreakerType
<1>3. Admit(b) = IF b.state = "open" THEN b2 ELSE b
  BY DEF Admit, b1
<1> HIDE DEF b2
<1>4. QED
  BY <1>2, <1>3, Settings DEF Trying

\* A breaker stays a breaker when it counts a success, and remembers when the last
\* failure was.
LEMMA SuccessOK ==
  ASSUME NEW b \in BreakerType, Trying(b)
  PROVE  /\ on_success(b) \in BreakerType /\ Trying(on_success(b))
         /\ on_success(b).since = b.since
<1> DEFINE b0 == [b EXCEPT !.failures = 0]
           b1 == [b EXCEPT !.successes = @ + 1]
           c1 == [b EXCEPT !.state = "closed"]
           c2 == [c1 EXCEPT !.failures = 0]
           c3 == [c2 EXCEPT !.successes = @ + 1]
<1>1. b.successes \in 0..HalfOpenMax
  BY DEF BreakerType
<1>2. CASE b.state # "half_open"
  <2>1. b0 \in BreakerType /\ b0.state = b.state /\ b0.since = b.since
    BY Settings DEF BreakerType
  <2>2. on_success(b) = b0
    BY <1>2 DEF on_success
  <2> HIDE DEF b0
  <2>3. QED
    BY <1>2, <2>1, <2>2 DEF Trying
<1>3. CASE b.state = "half_open" /\ b.successes + 1 < HalfOpenMax
  <2>1. /\ b1 \in BreakerType /\ b1.since = b.since /\ b1.successes = b.successes + 1
    BY <1>1, <1>3, Settings DEF BreakerType
  <2>2. on_success(b) = b1
    BY <1>1, <1>3, Settings DEF on_success
  <2> HIDE DEF b1
  <2>3. QED
    BY <1>3, <2>1, <2>2 DEF Trying
<1>4. CASE b.state = "half_open" /\ b.successes + 1 >= HalfOpenMax
  <2>1. /\ c1 \in BreakerType /\ c1.state = "closed" /\ c1.since = b.since
        /\ c1.successes = b.successes
    BY DEF BreakerType, State
  <2> HIDE DEF c1
  <2>2. /\ c2 \in BreakerType /\ c2.state = "closed" /\ c2.since = b.since
        /\ c2.successes = b.successes
    BY <2>1, Settings DEF BreakerType
  <2> HIDE DEF c2
  <2>3. /\ c3 \in BreakerType /\ c3.state = "closed" /\ c3.since = b.since
    BY <1>1, <1>4, <2>2, Settings DEF BreakerType, Trying
  <2>4. on_success(b) = c3
    BY <1>4, <2>2 DEF on_success, c1, c2
  <2> HIDE DEF c3
  <2>5. QED
    BY <2>3, <2>4 DEF Trying
<1>5. QED
  BY <1>1, <1>2, <1>3, <1>4, Settings

\* A breaker stays a breaker when it counts a failure; at the threshold it opens.
LEMMA FailureOK ==
  ASSUME NEW b \in BreakerType, Trying(b)
  PROVE  /\ on_failure(b) \in BreakerType /\ Trying(on_failure(b))
         /\ on_failure(b).since = 0
         /\ on_failure(b).failures = Min({b.failures + 1, FailureThreshold})
         /\ on_failure(b).failures = FailureThreshold => on_failure(b).state = "open"
<1> DEFINE n == Min({b.failures + 1, FailureThreshold})
           st == IF n >= FailureThreshold THEN "open" ELSE b.state
           b1 == [b EXCEPT !.failures = n]
           b2 == [b1 EXCEPT !.since = 0]
           b3 == [b2 EXCEPT !.state = st]
<1>1. b.failures \in 0..FailureThreshold /\ b.state \in State
  BY DEF BreakerType
<1>2. n \in 0..FailureThreshold /\ st \in State
  BY <1>1, Settings, MinMax DEF State
<1>3. (n = FailureThreshold => st = "open") /\ st \in {"open", b.state}
  BY <1>2, Settings
<1>4. on_failure(b) = b3
  BY DEF on_failure
<1> HIDE DEF n, st
<1>5. b1 \in BreakerType /\ b1.failures = n /\ b1.successes = b.successes
  BY <1>2 DEF BreakerType
<1> HIDE DEF b1
<1>6. b2 \in BreakerType /\ b2.failures = n /\ b2.since = 0 /\ b2.successes = b.successes
  BY <1>5, Settings DEF BreakerType
<1> HIDE DEF b2
<1>7. /\ b3 \in BreakerType /\ b3.failures = n /\ b3.since = 0 /\ b3.state = st
      /\ b3.successes = b.successes
  BY <1>2, <1>6 DEF BreakerType
<1> HIDE DEF b3
<1>8. on_failure(b).failures = Min({b.failures + 1, FailureThreshold})
  BY <1>4, <1>7 DEF n
<1>9. QED
  BY <1>3, <1>4, <1>7, <1>8 DEF Trying

-------------------------------------------------------------------------------
(* Types, slots and attempts, which are one induction. *)

\* The parts of TypeOK.
CallsOK == waiting \subseteq Calls /\ call \in [Calls -> CallType]
CountsOK ==
  /\ streak \in [Services -> 0..FailureThreshold] /\ quiet \in [Services -> 0..RecoveryTimeout]
BreakersOK == breaker \in [Services -> BreakerType]
SentOK == sent \in [Calls -> 0..(MaxRetries + 1)]

\* Together they are TypeOK.
LEMMA TypeParts ==
  TypeOK <=> slots \in 0..MaxOutstanding /\ BreakersOK /\ CallsOK /\ CountsOK /\ SentOK
  BY DEF TypeOK, BreakersOK, CallsOK, CountsOK, SentOK, CallType, BreakerType

\* As long as no pool thread starts or ends, the slots are right.
LEMMA SlotsKept ==
  ASSUME SlotInv, UNCHANGED slots,
         \A d \in Calls : call'[d].at = "none" <=> call[d].at = "none"
  PROVE  SlotInv'
<1>1. Busy' = Busy
  BY DEF Busy
<1>2. QED
  BY <1>1 DEF SlotInv

\* The attempts a method has are one at least, and no more than the settings say.
LEMMA AttemptsBound ==
  \A m : Attempts(m) \in 1..(MaxRetries + 1)
  BY Settings DEF Attempts

\* All calls but c's are as they were.
LEMMA CallKept ==
  ASSUME CallInv, NEW c \in Calls,
         \A d \in Calls \ {c} : call'[d] = call[d] /\ sent'[d] = sent[d],
         call'[c].at # "none" => call'[c].service \in Services /\ call'[c].method \in Method,
         SentAt(call'[c], sent'[c])
  PROVE  CallInv'
  BY DEF CallInv

\* A result is counted with the service's breaker.
LEMMA ResultOK ==
  ASSUME BreakersOK, CountsOK, HalfOpenInv, NEW s \in Services, Succeeded(s) \/ Failed(s)
  PROVE  BreakersOK' /\ CountsOK' /\ HalfOpenInv'
<1>1. breaker[s] \in BreakerType /\ Trying(breaker[s])
  BY DEF BreakersOK, HalfOpenInv
<1>2. streak[s] \in 0..FailureThreshold
  BY DEF CountsOK
<1>3. Min({streak[s] + 1, FailureThreshold}) \in 0..FailureThreshold
  BY <1>2, Settings, MinMax
<1>4. CASE Succeeded(s)
  <2>1. BreakersOK' /\ HalfOpenInv'
    BY <1>1, <1>4, SuccessOK DEF Succeeded, BreakersOK, HalfOpenInv
  <2>2. CountsOK'
    BY <1>4, Settings DEF Succeeded, CountsOK
  <2>3. QED
    BY <2>1, <2>2
<1>5. CASE Failed(s)
  <2>1. BreakersOK' /\ HalfOpenInv'
    BY <1>1, <1>5, FailureOK DEF Failed, BreakersOK, HalfOpenInv
  <2>2. CountsOK'
    BY <1>3, <1>5, Settings DEF Failed, CountsOK
  <2>3. QED
    BY <2>1, <2>2
<1>6. QED
  BY <1>4, <1>5

IInv ==
  /\ slots \in 0..MaxOutstanding /\ BreakersOK /\ CallsOK /\ CountsOK /\ SentOK
  /\ SlotInv /\ CallInv /\ HalfOpenInv

\* A request thread takes a slot and a pool thread, or is done with its wait.
LEMMA RequestStep ==
  ASSUME IInv, NEW c \in Calls,
         \/ \E s \in Services, m \in Method : call_service(c, s, m)
         \/ Return(c) \/ GiveUp(c)
  PROVE  IInv'
<1> USE DEF IInv
<1>1. ASSUME NEW s \in Services, NEW m \in Method, call_service(c, s, m) PROVE IInv'
  <2> DEFINE k == NewCall(s, m)
  <2>1. k \in CallType /\ k.at = "start" /\ k.service = s /\ k.method = m /\ k.attempt = 0
    BY NewCalls
  <2>2. /\ call[c].at = "none" /\ slots > 0 /\ slots' = slots - 1
        /\ waiting' = waiting \cup {c} /\ call' = [call EXCEPT ![c] = k]
        /\ UNCHANGED <<breaker, streak, quiet, sent>>
    BY <1>1 DEF call_service, NewCall
  <2> HIDE DEF k
  <2>3. CallsOK'
    <3>1. waiting' \subseteq Calls
      BY <2>2 DEF CallsOK
    <3>2. call' \in [Calls -> CallType]
      BY <2>1, <2>2 DEF CallsOK
    <3>3. QED
      BY <3>1, <3>2 DEF CallsOK
  <2>4. SlotInv'
    <3>1. Busy' = Busy \cup {c} /\ c \notin Busy
      BY <2>1, <2>2 DEF Busy, CallsOK
    <3>2. IsFiniteSet(Busy') /\ Cardinality(Busy') = Cardinality(Busy) + 1
      BY <3>1, FS_AddElement DEF SlotInv
    <3>3. Cardinality(Busy) \in Nat /\ slots \in Int
      BY FS_CardinalityType DEF SlotInv
    <3>4. QED
      BY <2>2, <3>2, <3>3, Settings DEF SlotInv
  <2>5. CallInv'
    <3>1. \A d \in Calls \ {c} : call'[d] = call[d] /\ sent'[d] = sent[d]
      BY <2>2 DEF CallsOK
    <3>2. call'[c] = k /\ sent'[c] = 0
      BY <2>2 DEF CallsOK, CallInv, SentAt
    <3>3. SentAt(call'[c], sent'[c])
      BY <2>1, <3>2 DEF SentAt
    <3>4. QED
      BY <2>1, <3>1, <3>2, <3>3, CallKept
  <2>6. slots' \in 0..MaxOutstanding
    BY <2>2, Settings
  <2>7. BreakersOK' /\ CountsOK' /\ SentOK' /\ HalfOpenInv'
    BY <2>2 DEF BreakersOK, CountsOK, SentOK, HalfOpenInv
  <2>8. QED
    BY <2>3, <2>4, <2>5, <2>6, <2>7
<1>2. CASE Return(c) \/ GiveUp(c)
  <2>1. waiting' \subseteq waiting /\ UNCHANGED <<slots, breaker, call, streak, quiet, sent>>
    BY <1>2 DEF Return, GiveUp
  <2>2. CallsOK' /\ BreakersOK' /\ CountsOK' /\ SentOK' /\ HalfOpenInv'
    BY <2>1 DEF CallsOK, BreakersOK, CountsOK, SentOK, HalfOpenInv
  <2>3. SlotInv' /\ CallInv'
    BY <2>1 DEF SlotInv, Busy, CallInv
  <2>4. QED
    BY <2>1, <2>2, <2>3
<1>3. QED
  BY <1>1, <1>2

\* A pool thread that moves on without sending keeps the invariant, if the place it
\* goes to suits what it has sent.
LEMMA MoveStep ==
  ASSUME IInv, NEW c \in Calls, call[c].at # "none", NEW at \in At \ {"none"}, GoTo(c, at),
         UNCHANGED <<slots, waiting, sent>>, BreakersOK', CountsOK', HalfOpenInv',
         SentAt([call[c] EXCEPT !.at = at], sent[c])
  PROVE  IInv'
<1> USE DEF IInv
<1>1. /\ call' \in [Calls -> CallType]
      /\ call'[c].at = at /\ call'[c].service = call[c].service
      /\ call'[c].method = call[c].method /\ call'[c].attempt = call[c].attempt
      /\ \A d \in Calls \ {c} : call'[d] = call[d]
  BY GoToOK DEF CallsOK
<1>2. CallsOK' /\ SentOK'
  BY <1>1 DEF CallsOK, SentOK
<1>3. SlotInv'
  BY <1>1, SlotsKept
<1>4. call'[c] = [call[c] EXCEPT !.at = at]
  BY DEF GoTo, CallsOK
<1>5. CallInv'
  <2>1. call[c].service \in Services /\ call[c].method \in Method
    BY DEF CallInv
  <2>2. QED
    BY <1>1, <1>4, <2>1, CallKept
<1>6. QED
  BY <1>2, <1>3, <1>5

\* What a thread that ends its attempts has sent suits its exit.
LEMMA ExitSuits ==
  ASSUME IInv, NEW c \in Calls, call[c].at # "none"
  PROVE  SentAt([call[c] EXCEPT !.at = "exit"], sent[c])
<1> USE DEF IInv
<1> DEFINE k == [call[c] EXCEPT !.at = "exit"]
<1>1. call[c] \in CallType /\ sent[c] \in 0..(MaxRetries + 1)
  BY DEF CallsOK, SentOK
<1>2. k.at = "exit" /\ k.method = call[c].method
  BY <1>1 DEF CallType
<1>3. call[c].attempt \in 0..MaxRetries /\ call[c].at \in At
  BY <1>1 DEF CallType
<1>4. Attempts(call[c].method) \in 1..(MaxRetries + 1)
  BY AttemptsBound
<1>5. SentAt(call[c], sent[c])
  BY DEF CallInv
<1>6. sent[c] <= Attempts(call[c].method)
  BY <1>1, <1>3, <1>4, <1>5, Settings DEF SentAt, At
<1> HIDE DEF k
<1>7. SentAt(k, sent[c])
  BY <1>2, <1>6 DEF SentAt
<1>8. QED
  BY <1>7 DEF k

\* A pool thread starts, is refused, sends, is answered or gives up.
LEMMA PoolStep ==
  ASSUME IInv, NEW c \in Calls,
         \/ run_service_call(c) \/ NoAttempt(c) \/ Attempt(c)
         \/ Answered(c) \/ Unusable(c) \/ Cancel(c)
  PROVE  IInv'
<1> USE DEF IInv
<1>1. ASSUME call[c].at # "none", GoTo(c, "exit"), UNCHANGED <<slots, waiting, sent>>,
             BreakersOK', CountsOK', HalfOpenInv'
      PROVE  IInv'
  BY <1>1, MoveStep, ExitSuits DEF At
<1>2. ASSUME UNCHANGED <<breaker, streak, quiet>> PROVE BreakersOK' /\ CountsOK' /\ HalfOpenInv'
  BY <1>2 DEF BreakersOK, CountsOK, HalfOpenInv
<1>3. CASE run_service_call(c)
  <2>1. call[c].at = "start" /\ UNCHANGED <<slots, breaker, waiting, streak, quiet, sent>>
    BY <1>3 DEF run_service_call
  <2>2. CASE GoTo(c, "exit")
    BY <1>1, <1>2, <2>1, <2>2
  <2>3. CASE GoTo(c, "try")
    <3> DEFINE k == [call[c] EXCEPT !.at = "try"]
    <3>1. call[c] \in CallType
      BY DEF CallsOK
    <3>2. k.at = "try" /\ k.method = call[c].method /\ k.attempt = call[c].attempt
      BY <3>1 DEF CallType
    <3>3. call[c].attempt = 0 /\ sent[c] = 0
      BY <2>1 DEF CallInv, SentAt
    <3> HIDE DEF k
    <3>4. SentAt(k, sent[c])
      BY <3>2, <3>3, AttemptsBound, Settings DEF SentAt
    <3>5. QED
      BY <1>2, <2>1, <2>3, <3>4, MoveStep DEF k, At
  <2>4. QED
    BY <1>3, <2>2, <2>3 DEF run_service_call
<1>4. CASE NoAttempt(c)
  BY <1>1, <1>2, <1>4 DEF NoAttempt
<1>5. ASSUME call[c].at = "await", GoTo(c, "exit"), UNCHANGED <<slots, waiting, sent>>,
             Succeeded(call[c].service) \/ Failed(call[c].service)
      PROVE  IInv'
  <2>1. call[c].service \in Services
    BY <1>5 DEF CallInv
  <2>2. BreakersOK' /\ CountsOK' /\ HalfOpenInv'
    BY <1>5, <2>1, ResultOK
  <2>3. QED
    BY <1>1, <1>5, <2>2
<1>6. CASE Answered(c) \/ Unusable(c)
  BY <1>5, <1>6 DEF Answered, Unusable
<1>7. CASE Cancel(c)
  BY <1>1, <1>2, <1>5, <1>7 DEF Cancel
<1>8. CASE Attempt(c)
  <2>1. /\ call[c].at = "try" /\ GoTo(c, "await") /\ sent' = [sent EXCEPT ![c] = @ + 1]
        /\ breaker' = [breaker EXCEPT ![call[c].service] = Admit(@)]
        /\ UNCHANGED <<slots, waiting, streak, quiet>>
    BY <1>8 DEF Attempt
  <2>2. call[c].service \in Services /\ call[c].method \in Method
    BY <2>1 DEF CallInv
  <2>3. BreakersOK' /\ HalfOpenInv'
    <3>1. breaker[call[c].service] \in BreakerType /\ Trying(breaker[call[c].service])
      BY <2>2 DEF BreakersOK, HalfOpenInv
    <3>2. QED
      BY <2>1, <2>2, <3>1, AdmitOK DEF BreakersOK, HalfOpenInv
  <2>4. /\ call' \in [Calls -> CallType]
        /\ call'[c].at = "await" /\ call'[c].service = call[c].service
        /\ call'[c].method = call[c].method /\ call'[c].attempt = call[c].attempt
        /\ \A d \in Calls \ {c} : call'[d] = call[d]
    BY <2>1, GoToOK DEF CallsOK, At
  <2>5. /\ sent[c] = call[c].attempt /\ call[c].attempt < Attempts(call[c].method)
        /\ call[c].attempt \in 0..MaxRetries
    BY <2>1 DEF CallInv, SentAt, CallsOK, CallType
  <2>6. sent'[c] = call[c].attempt + 1 /\ \A d \in Calls \ {c} : sent'[d] = sent[d]
    BY <2>1, <2>5 DEF SentOK
  <2>7. SentOK' /\ CallsOK' /\ CountsOK'
    <3>1. sent[c] + 1 \in 0..(MaxRetries + 1)
      BY <2>5, Settings
    <3>2. SentOK'
      BY <2>1, <3>1 DEF SentOK
    <3>3. CallsOK' /\ CountsOK'
      BY <2>1, <2>4 DEF CallsOK, CountsOK
    <3>4. QED
      BY <3>2, <3>3
  <2>8. SlotInv'
    BY <2>1, <2>4, SlotsKept
  <2>9. SentAt(call'[c], sent'[c])
    BY <2>4, <2>5, <2>6 DEF SentAt
  <2>10. CallInv'
    BY <2>2, <2>4, <2>6, <2>9, CallKept
  <2>11. QED
    BY <2>1, <2>3, <2>7, <2>8, <2>10
<1>9. QED
  BY <1>3, <1>4, <1>6, <1>7, <1>8

\* A failed attempt is followed by a pause, which ends before the deadline, or by
\* the end of the call.
LEMMA TransientStep ==
  ASSUME IInv, NEW c \in Calls, Transient(c)
  PROVE  IInv'
<1> USE DEF IInv
<1> DEFINE delay == Backoff * 2 ^ call[c].attempt
           more == call[c].attempt + 1 < Attempts(call[c].method) /\ delay < call[c].left
           k1 == [call[c] EXCEPT !.at = "sleep"]
           k == [k1 EXCEPT !.sleep = delay]
<1>1. /\ call[c].at = "await" /\ Failed(call[c].service)
      /\ UNCHANGED <<slots, waiting, sent>>
      /\ call' = [call EXCEPT ![c] = IF more THEN [call[c] EXCEPT !.at = "sleep", !.sleep = delay]
                                     ELSE [call[c] EXCEPT !.at = "exit"]]
  BY DEF Transient
<1>2. call[c].service \in Services /\ call[c].method \in Method
  BY <1>1 DEF CallInv
<1>3. BreakersOK' /\ CountsOK' /\ HalfOpenInv'
  BY <1>1, <1>2, ResultOK
<1>4. CASE ~more
  <2>1. GoTo(c, "exit")
    BY <1>1, <1>4 DEF GoTo
  <2>2. QED
    BY <1>1, <1>3, <2>1, MoveStep, ExitSuits DEF At
<1>5. CASE more
  <2>1. call[c] \in CallType /\ sent[c] \in 0..(MaxRetries + 1)
    BY DEF CallsOK, SentOK
  <2>2. call[c].attempt \in 0..MaxRetries /\ call[c].left \in 0..TotalTimeout
    BY <2>1 DEF CallType
  <2>3. delay \in Nat
    BY <2>2, BackoffAssumption
  <2>4. call' = [call EXCEPT ![c] = k] /\ delay < call[c].left
    BY <1>1, <1>5
  <2>5. call[c].attempt + 1 < Attempts(call[c].method)
    BY <1>5
  <2> HIDE DEF delay
  <2>6. delay \in 0..TotalTimeout
    BY <2>2, <2>3, <2>4, Settings
  <2>7. /\ k1 \in CallType /\ k1.at = "sleep" /\ k1.service = call[c].service
        /\ k1.method = call[c].method /\ k1.attempt = call[c].attempt
    BY <2>1 DEF CallType, At
  <2> HIDE DEF k1
  <2>8. /\ k \in CallType /\ k.at = "sleep" /\ k.service = call[c].service
        /\ k.method = call[c].method /\ k.attempt = call[c].attempt
    BY <2>6, <2>7 DEF CallType
  <2> HIDE DEF k
  <2>9. call' \in [Calls -> CallType] /\ call'[c] = k /\ \A d \in Calls \ {c} : call'[d] = call[d]
    BY <2>4, <2>8 DEF CallsOK
  <2>10. CallsOK' /\ SentOK'
    BY <1>1, <2>9 DEF CallsOK, SentOK
  <2>11. SlotInv'
    BY <1>1, <2>8, <2>9, SlotsKept
  <2>12. sent'[c] = call[c].attempt + 1
    BY <1>1 DEF CallInv, SentAt
  <2>13. SentAt(call'[c], sent'[c])
    BY <2>5, <2>8, <2>9, <2>12 DEF SentAt
  <2>14. CallInv'
    BY <1>1, <1>2, <2>8, <2>9, <2>13, CallKept
  <2>15. QED
    BY <1>1, <1>3, <2>10, <2>11, <2>14
<1>6. QED
  BY <1>4, <1>5

\* A pool thread wakes for its next attempt.
LEMMA RetryStep ==
  ASSUME IInv, NEW c \in Calls, Retry(c)
  PROVE  IInv'
<1> USE DEF IInv
<1> DEFINE k1 == [call[c] EXCEPT !.at = "try"]
           k == [k1 EXCEPT !.attempt = call[c].attempt + 1]
<1>1. /\ call[c].at = "sleep" /\ call' = [call EXCEPT ![c] = k]
      /\ UNCHANGED <<slots, breaker, waiting, streak, quiet, sent>>
  BY DEF Retry, CallsOK
<1>2. call[c] \in CallType
  BY DEF CallsOK
<1>3. /\ call[c].attempt \in 0..MaxRetries
      /\ call[c].service \in Services /\ call[c].method \in Method
      /\ sent[c] = call[c].attempt + 1 /\ call[c].attempt + 1 < Attempts(call[c].method)
  BY <1>1, <1>2 DEF CallType, CallInv, SentAt
<1>4. call[c].attempt + 1 \in 0..MaxRetries
  BY <1>3, AttemptsBound, Settings
<1>5. /\ k1 \in CallType /\ k1.at = "try" /\ k1.service = call[c].service
      /\ k1.method = call[c].method
  BY <1>2 DEF CallType, At
<1> HIDE DEF k1
<1>6. /\ k \in CallType /\ k.at = "try" /\ k.service = call[c].service
      /\ k.method = call[c].method /\ k.attempt = call[c].attempt + 1
  BY <1>4, <1>5 DEF CallType
<1> HIDE DEF k
<1>7. call' \in [Calls -> CallType] /\ call'[c] = k /\ \A d \in Calls \ {c} : call'[d] = call[d]
  BY <1>1, <1>6 DEF CallsOK
<1>8. CallsOK' /\ SentOK' /\ BreakersOK' /\ CountsOK' /\ HalfOpenInv'
  BY <1>1, <1>7 DEF CallsOK, SentOK, BreakersOK, CountsOK, HalfOpenInv
<1>9. SlotInv'
  BY <1>1, <1>6, <1>7, SlotsKept
<1>10. SentAt(call'[c], sent'[c])
  BY <1>1, <1>3, <1>6, <1>7 DEF SentAt
<1>11. CallInv'
  BY <1>1, <1>3, <1>6, <1>7, <1>10, CallKept
<1>12. QED
  BY <1>1, <1>8, <1>9, <1>11

\* A pool thread ends and gives its slot back.
LEMMA ReleaseStep ==
  ASSUME IInv, NEW c \in Calls, Release(c)
  PROVE  IInv'
<1> USE DEF IInv
<1>1. /\ call[c].at = "exit" /\ call' = [call EXCEPT ![c] = NoCall] /\ slots' = slots + 1
      /\ sent' = [sent EXCEPT ![c] = 0] /\ UNCHANGED <<breaker, waiting, streak, quiet>>
  BY DEF Release
<1>2. call' \in [Calls -> CallType] /\ call'[c] = NoCall /\ \A d \in Calls \ {c} : call'[d] = call[d]
  BY <1>1, NewCalls DEF CallsOK
<1>3. sent'[c] = 0 /\ \A d \in Calls \ {c} : sent'[d] = sent[d]
  BY <1>1 DEF SentOK
<1>4. SentOK'
  BY <1>1, Settings DEF SentOK
<1>5. CallsOK' /\ BreakersOK' /\ CountsOK' /\ HalfOpenInv'
  BY <1>1, <1>2 DEF CallsOK, BreakersOK, CountsOK, HalfOpenInv
<1>6. SlotInv' /\ slots' \in 0..MaxOutstanding
  <2>1. Busy' = Busy \ {c} /\ c \in Busy
    BY <1>1, <1>2, NewCalls DEF Busy
  <2>2. IsFiniteSet(Busy') /\ Cardinality(Busy') = Cardinality(Busy) - 1
    BY <2>1, FS_RemoveElement DEF SlotInv
  <2>3. Cardinality(Busy) \in Nat /\ Cardinality(Busy') \in Nat /\ slots \in Nat
    BY <2>2, FS_CardinalityType DEF SlotInv
  <2>4. slots + Cardinality(Busy) = MaxOutstanding
    BY DEF SlotInv
  <2>5. slots' + Cardinality(Busy') = MaxOutstanding
    BY <1>1, <2>2, <2>3, <2>4
  <2>6. slots' \in 0..MaxOutstanding
    BY <1>1, <2>3, <2>5, Settings
  <2>7. QED
    BY <2>2, <2>5, <2>6 DEF SlotInv
<1>7. SentAt(call'[c], sent'[c])
  BY <1>2, <1>3, NewCalls DEF SentAt
<1>8. CallInv'
  BY <1>2, <1>3, <1>7, NewCalls, CallKept
<1>9. QED
  BY <1>4, <1>5, <1>6, <1>8

\* A call after a tick: it has less time left, and is otherwise what it was.
LEMMA TickCall ==
  ASSUME NEW k \in CallType
  PROVE  LET t == [k EXCEPT !.left = Max({@ - 1, 0}), !.sleep = Max({@ - 1, 0})] IN
         /\ t \in CallType /\ t.at = k.at /\ t.service = k.service /\ t.method = k.method
         /\ t.attempt = k.attempt
<1> DEFINE l == Max({k.left - 1, 0})
           s == Max({k.sleep - 1, 0})
           k1 == [k EXCEPT !.left = l]
           k2 == [k1 EXCEPT !.sleep = s]
<1>1. k.left \in 0..TotalTimeout /\ k.sleep \in 0..TotalTimeout
  BY DEF CallType
<1>2. l \in 0..TotalTimeout /\ s \in 0..TotalTimeout
  <2>1. k.left - 1 \in Int /\ k.sleep - 1 \in Int /\ 0 \in Int
    BY <1>1, Settings
  <2>2. l = IF k.left - 1 >= 0 THEN k.left - 1 ELSE 0
    BY <2>1, MinMax
  <2>3. s = IF k.sleep - 1 >= 0 THEN k.sleep - 1 ELSE 0
    BY <2>1, MinMax
  <2> HIDE DEF l, s
  <2>4. QED
    BY <1>1, <2>2, <2>3, Settings
<1> HIDE DEF l, s
<1>3. /\ k1 \in CallType /\ k1.at = k.at /\ k1.service = k.service /\ k1.method = k.method
      /\ k1.attempt = k.attempt /\ k1.sleep = k.sleep
  BY <1>2 DEF CallType
<1>4. [k EXCEPT !.left = Max({@ - 1, 0}), !.sleep = Max({@ - 1, 0})]
        = [k1 EXCEPT !.sleep = Max({k1.sleep - 1, 0})]
  BY DEF l
<1> HIDE DEF k1
<1>5. [k1 EXCEPT !.sleep = Max({k1.sleep - 1, 0})] = k2
  BY <1>3 DEF s
<1>6. /\ k2 \in CallType /\ k2.at = k.at /\ k2.service = k.service /\ k2.method = k.method
      /\ k2.attempt = k.attempt
  BY <1>2, <1>3 DEF CallType
<1> HIDE DEF k2
<1>7. QED
  BY <1>4, <1>5, <1>6

\* A breaker after a tick.
LEMMA TickBreaker ==
  ASSUME NEW b \in BreakerType
  PROVE  LET t == [b EXCEPT !.since = Min({@ + 1, RecoveryTimeout})] IN
         /\ t \in BreakerType /\ t.state = b.state /\ t.failures = b.failures
         /\ t.successes = b.successes /\ t.since = Min({b.since + 1, RecoveryTimeout})
<1> DEFINE n == Min({b.since + 1, RecoveryTimeout})
<1>1. b.since \in 0..RecoveryTimeout
  BY DEF BreakerType
<1>2. n \in 0..RecoveryTimeout
  BY <1>1, MinMax, Settings
<1> HIDE DEF n
<1>3. LET t == [b EXCEPT !.since = n] IN
      /\ t \in BreakerType /\ t.state = b.state /\ t.failures = b.failures
      /\ t.successes = b.successes /\ t.since = n
  BY <1>2 DEF BreakerType
<1>4. QED
  BY <1>3 DEF n

\* Time passes.
LEMMA TickStep ==
  ASSUME IInv, Tick
  PROVE  IInv'
<1> USE DEF IInv
<1> DEFINE TC(k) == [k EXCEPT !.left = Max({@ - 1, 0}), !.sleep = Max({@ - 1, 0})]
           TB(b) == [b EXCEPT !.since = Min({@ + 1, RecoveryTimeout})]
<1>1. /\ call' = [c \in Calls |-> TC(call[c])]
      /\ breaker' = [s \in Services |-> TB(breaker[s])]
      /\ quiet' = [s \in Services |-> Min({quiet[s] + 1, RecoveryTimeout})]
      /\ UNCHANGED <<slots, waiting, streak, sent>>
  BY DEF Tick
<1>2. \A k \in CallType :
        /\ TC(k) \in CallType /\ TC(k).at = k.at /\ TC(k).service = k.service
        /\ TC(k).method = k.method /\ TC(k).attempt = k.attempt
  BY TickCall
<1>3. \A b \in BreakerType :
        TB(b) \in BreakerType /\ TB(b).state = b.state /\ TB(b).successes = b.successes
  BY TickBreaker
<1> HIDE DEF TC, TB
<1>4. CallsOK' /\ SentOK'
  BY <1>1, <1>2 DEF CallsOK, SentOK
<1>5. BreakersOK' /\ HalfOpenInv'
  BY <1>1, <1>3 DEF BreakersOK, HalfOpenInv, Trying
<1>6. CountsOK'
  <2>1. \A s \in Services : quiet[s] \in 0..RecoveryTimeout
    BY DEF CountsOK
  <2>2. \A s \in Services : Min({quiet[s] + 1, RecoveryTimeout}) \in 0..RecoveryTimeout
    BY <2>1, MinMax, Settings
  <2>3. QED
    BY <1>1, <2>2 DEF CountsOK
<1>7. \A c \in Calls :
        /\ call'[c].at = call[c].at /\ call'[c].service = call[c].service
        /\ call'[c].method = call[c].method /\ call'[c].attempt = call[c].attempt
  BY <1>1, <1>2 DEF CallsOK
<1>8. SlotInv'
  BY <1>1, <1>7, SlotsKept
<1>9. CallInv'
  BY <1>1, <1>7 DEF CallInv, SentAt
<1>10. QED
  BY <1>1, <1>4, <1>5, <1>6, <1>8, <1>9

\* The invariant holds in every reachable state.
THEOREM Invariance == Spec => []IInv
<1>1. Init => IInv
  <2> SUFFICES ASSUME Init PROVE IInv
    OBVIOUS
  <2> USE DEF Init
  <2>1. NewBreaker \in BreakerType /\ Trying(NewBreaker)
    BY Settings DEF NewBreaker, BreakerType, State, Trying
  <2>2. BreakersOK /\ HalfOpenInv
    BY <2>1 DEF BreakersOK, HalfOpenInv
  <2>3. CallsOK
    BY NewCalls DEF CallsOK
  <2>4. CountsOK /\ SentOK /\ slots \in 0..MaxOutstanding
    BY Settings DEF CountsOK, SentOK
  <2>5. SlotInv
    <3>1. Busy = {}
      BY NewCalls DEF Busy
    <3>2. QED
      BY <3>1, FS_EmptySet, Settings DEF SlotInv
  <2>6. CallInv
    BY NewCalls DEF CallInv, SentAt
  <2>7. QED
    BY <2>2, <2>3, <2>4, <2>5, <2>6 DEF IInv
<1>2. IInv /\ [Next]_vars => IInv'
  <2> SUFFICES ASSUME IInv, [Next]_vars PROVE IInv'
    OBVIOUS
  <2>1. CASE Next
    BY <2>1, TickStep, RequestStep, PoolStep, TransientStep, RetryStep, ReleaseStep DEF Next
  <2>2. CASE UNCHANGED vars
    <3> USE <2>2 DEF IInv, vars
    <3>1. (CallsOK /\ SentOK /\ BreakersOK /\ CountsOK)'
      BY DEF CallsOK, SentOK, BreakersOK, CountsOK
    <3>2. (SlotInv /\ CallInv /\ HalfOpenInv)'
      BY DEF SlotInv, Busy, CallInv, HalfOpenInv
    <3>3. QED
      BY <3>1, <3>2
  <2>3. QED
    BY <2>1, <2>2
<1>3. QED
  BY <1>1, <1>2, PTL DEF Spec

\* Counters, breakers and calls hold what the code can store in them.
THEOREM TypeCorrect == Spec => []TypeOK
<1>1. IInv => TypeOK
  BY TypeParts DEF IInv
<1>2. QED
  BY <1>1, Invariance, PTL

\* A slot of _http_slots is taken exactly as long as a pool thread works.
THEOREM SlotsSafe == Spec => []OutstandingBounded
<1>1. IInv => OutstandingBounded
  BY DEF IInv, SlotInv, Busy, OutstandingBounded
<1>2. QED
  BY <1>1, Invariance, PTL

\* No write is sent twice, no read more often than MAX_RETRIES allows.
THEOREM SendsSafe == Spec => []WritesSentOnce
<1>1. IInv => WritesSentOnce
  <2> SUFFICES ASSUME IInv, NEW c \in Calls PROVE sent[c] <= Attempts(call[c].method)
    BY DEF WritesSentOnce
  <2>1. call[c] \in CallType /\ SentAt(call[c], sent[c])
    BY DEF IInv, CallsOK, CallInv
  <2>2. call[c].attempt \in 0..MaxRetries /\ call[c].at \in At
    BY <2>1 DEF CallType
  <2>3. Attempts(call[c].method) \in 1..(MaxRetries + 1)
    BY AttemptsBound
  <2>4. QED
    BY <2>1, <2>2, <2>3, Settings DEF SentAt, At
<1>2. QED
  BY <1>1, Invariance, PTL

-------------------------------------------------------------------------------
(* The rest of a failing service. *)

\* A call that came back keeps the breaker informed.
LEMMA ResultInforms ==
  ASSUME IInv, BreakerInv, NEW r \in Services, Succeeded(r) \/ Failed(r)
  PROVE  BreakerInv'
<1> SUFFICES ASSUME NEW s \in Services PROVE Informed(s)'
  BY DEF BreakerInv
<1>1. Informed(s) /\ breaker[s] \in BreakerType /\ Trying(breaker[s])
  BY DEF BreakerInv, Informed, IInv, BreakersOK, HalfOpenInv
<1>2. /\ breaker \in [Services -> BreakerType] /\ streak \in [Services -> 0..FailureThreshold]
      /\ quiet \in [Services -> 0..RecoveryTimeout]
  BY DEF IInv, BreakersOK, CountsOK
<1>3. CASE s # r
  <2>1. breaker'[s] = breaker[s] /\ streak'[s] = streak[s] /\ quiet'[s] = quiet[s]
    BY <1>2, <1>3 DEF Succeeded, Failed
  <2>2. QED
    BY <1>1, <2>1 DEF Informed
<1>4. CASE s = r /\ Succeeded(r)
  <2>1. breaker'[s] = on_success(breaker[s]) /\ streak'[s] = 0 /\ quiet'[s] = quiet[s]
    BY <1>2, <1>4 DEF Succeeded
  <2>2. on_success(breaker[s]) \in BreakerType /\ on_success(breaker[s]).since = breaker[s].since
    BY <1>1, SuccessOK
  <2>3. on_success(breaker[s]).failures \in Nat
    BY <2>2, Settings DEF BreakerType
  <2>4. QED
    BY <1>1, <2>1, <2>2, <2>3, Settings DEF Informed
<1>5. CASE s = r /\ Failed(r)
  <2>1. /\ breaker'[s] = on_failure(breaker[s]) /\ quiet'[s] = 0
        /\ streak'[s] = Min({streak[s] + 1, FailureThreshold})
    BY <1>2, <1>5 DEF Failed
  <2>2. /\ on_failure(breaker[s]).since = 0
        /\ on_failure(breaker[s]).failures = Min({breaker[s].failures + 1, FailureThreshold})
        /\ on_failure(breaker[s]).failures = FailureThreshold =>
             on_failure(breaker[s]).state = "open"
    BY <1>1, FailureOK
  <2>3. streak[s] \in 0..FailureThreshold /\ breaker[s].failures \in 0..FailureThreshold
    BY <1>1, <1>2 DEF BreakerType
  <2>4. /\ Min({streak[s] + 1, FailureThreshold})
             = IF streak[s] + 1 <= FailureThreshold THEN streak[s] + 1 ELSE FailureThreshold
        /\ Min({breaker[s].failures + 1, FailureThreshold})
             = IF breaker[s].failures + 1 <= FailureThreshold THEN breaker[s].failures + 1
               ELSE FailureThreshold
    BY <2>3, MinMax, Settings
  <2>5. streak[s] <= breaker[s].failures
    BY <1>1 DEF Informed
  <2>6. /\ streak'[s] <= breaker'[s].failures
        /\ streak'[s] = FailureThreshold => breaker'[s].failures = FailureThreshold
    BY <2>1, <2>2, <2>3, <2>4, <2>5, Settings
  <2>7. QED
    BY <2>1, <2>2, <2>6 DEF Informed
<1>6. QED
  BY <1>3, <1>4, <1>5

\* A request that goes out keeps the breaker informed: an open one has waited.
LEMMA AttemptInforms ==
  ASSUME IInv, BreakerInv, NEW c \in Calls, Attempt(c)
  PROVE  BreakerInv'
<1> DEFINE r == call[c].service
<1> SUFFICES ASSUME NEW s \in Services PROVE Informed(s)'
  BY DEF BreakerInv
<1>1. /\ Informed(s) /\ breaker[s] \in BreakerType /\ Trying(breaker[s])
      /\ breaker \in [Services -> BreakerType]
  BY DEF BreakerInv, Informed, IInv, BreakersOK, HalfOpenInv
<1>2. /\ ~Refuses(breaker[r]) /\ breaker' = [breaker EXCEPT ![r] = Admit(@)]
      /\ UNCHANGED <<streak, quiet>>
  BY DEF Attempt
<1> HIDE DEF r
<1>3. CASE s # r
  BY <1>1, <1>2, <1>3 DEF Informed
<1>4. CASE s = r
  <2>1. breaker'[s] = Admit(breaker[s])
    BY <1>1, <1>2, <1>4
  <2>2. /\ Admit(breaker[s]).since = breaker[s].since
        /\ Admit(breaker[s]).failures = breaker[s].failures
        /\ breaker[s].state # "open" => Admit(breaker[s]) = breaker[s]
    BY <1>1, AdmitOK
  <2>3. breaker[s].since \in 0..RecoveryTimeout
    BY <1>1 DEF BreakerType
  <2>4. breaker[s].state = "open" => breaker[s].since = RecoveryTimeout
    BY <1>2, <1>4, <2>3, Settings DEF Refuses, should_attempt_reset
  <2>5. QED
    BY <1>1, <1>2, <2>1, <2>2, <2>4 DEF Informed
<1>5. QED
  BY <1>3, <1>4

\* Time passes for the breaker and for the history alike.
LEMMA TickInforms ==
  ASSUME IInv, BreakerInv, Tick
  PROVE  BreakerInv'
<1> SUFFICES ASSUME NEW s \in Services PROVE Informed(s)'
  BY DEF BreakerInv
<1>1. Informed(s) /\ breaker[s] \in BreakerType
  BY DEF BreakerInv, Informed, IInv, BreakersOK
<1> DEFINE b == [breaker[s] EXCEPT !.since = Min({@ + 1, RecoveryTimeout})]
<1>2. /\ breaker'[s] = b /\ quiet'[s] = Min({quiet[s] + 1, RecoveryTimeout})
      /\ UNCHANGED streak
  BY DEF Tick
<1>3. /\ b.state = breaker[s].state /\ b.failures = breaker[s].failures
      /\ b.since = Min({breaker[s].since + 1, RecoveryTimeout})
  BY <1>1, TickBreaker
<1>4. breaker[s].since \in 0..RecoveryTimeout
  BY <1>1 DEF BreakerType
<1> HIDE DEF b
<1>5. breaker[s].since = RecoveryTimeout => b.since = RecoveryTimeout
  BY <1>3, <1>4, MinMax, Settings
<1>6. QED
  BY <1>1, <1>2, <1>3, <1>5 DEF Informed

\* Every breaker knows what befell its service.
THEOREM BreakersInformed == Spec => []BreakerInv
<1>1. Init => BreakerInv
  BY Settings DEF Init, BreakerInv, Informed, NewBreaker
<1>2. IInv /\ BreakerInv /\ [Next]_vars => BreakerInv'
  <2> SUFFICES ASSUME IInv, BreakerInv, [Next]_vars PROVE BreakerInv'
    OBVIOUS
  <2>1. ASSUME UNCHANGED <<breaker, streak, quiet>> PROVE BreakerInv'
    BY <2>1 DEF BreakerInv, Informed
  <2>2. CASE UNCHANGED vars
    BY <2>1, <2>2 DEF vars
  <2>3. CASE Tick
    BY <2>3, TickInforms
  <2>4. ASSUME NEW c \in Calls,
               \/ \E s \in Services, m \in Method : call_service(c, s, m)
               \/ Return(c) \/ GiveUp(c) \/ run_service_call(c) \/ NoAttempt(c)
               \/ Retry(c) \/ Release(c)
        PROVE  BreakerInv'
    BY <2>1, <2>4 DEF call_service, Return, GiveUp, run_service_call, NoAttempt, Retry, Release
  <2>5. ASSUME NEW c \in Calls, Attempt(c) PROVE BreakerInv'
    BY <2>5, AttemptInforms
  <2>6. ASSUME NEW c \in Calls, Answered(c) \/ Unusable(c) \/ Transient(c) \/ Cancel(c)
        PROVE  BreakerInv'
    <3>1. call[c].at # "none"
      BY <2>6 DEF Answered, Unusable, Transient, Cancel
    <3>2. call[c].service \in Services
      BY <3>1 DEF IInv, CallInv
    <3>3. \/ Succeeded(call[c].service) \/ Failed(call[c].service)
          \/ UNCHANGED <<breaker, streak, quiet>>
      BY <2>6 DEF Answered, Unusable, Transient, Cancel
    <3>4. QED
      BY <2>1, <3>2, <3>3, ResultInforms
  <2>7. QED
    BY <2>2, <2>3, <2>4, <2>5, <2>6 DEF Next
<1>3. QED
  BY <1>1, <1>2, Invariance, PTL DEF Spec

\* A service that failed FailureThreshold times in a row is sent nothing before
\* RecoveryTimeout has passed since the last failure.
THEOREM RestSafe == Spec => FailingServiceRests
<1>1. IInv /\ BreakerInv /\ [Next]_vars => [SendsWhenRested]_vars
  <2> SUFFICES ASSUME IInv, BreakerInv, Next, NEW c \in Calls, sent'[c] > sent[c]
               PROVE  LET s == call[c].service IN
                      streak[s] < FailureThreshold \/ quiet[s] >= RecoveryTimeout
    BY DEF SendsWhenRested
  <2>1. sent \in [Calls -> 0..(MaxRetries + 1)]
    BY DEF IInv, SentOK
  <2>2. sent[c] \in Nat /\ ~(sent[c] > sent[c])
    BY <2>1, Settings
  <2>3. sent' # sent
    BY <2>2
  <2>4. PICK d \in Calls : Attempt(d) \/ Release(d)
    BY <2>3 DEF Next, Tick, call_service, Return, GiveUp, run_service_call, NoAttempt, Answered,
                Unusable, Transient, Retry, Cancel
  <2>5. ~Release(d)
    BY <2>1, <2>2 DEF Release
  <2>6. Attempt(d) /\ d = c
    BY <2>1, <2>2, <2>4, <2>5 DEF Attempt
  <2>7. /\ call[c].at = "try" /\ ~Refuses(breaker[call[c].service])
    BY <2>6 DEF Attempt
  <2>8. call[c].service \in Services
    BY <2>7 DEF IInv, CallInv
  <2> DEFINE s == call[c].service
  <2>9. Informed(s) /\ breaker[s] \in BreakerType /\ streak[s] \in 0..FailureThreshold
    BY <2>8 DEF BreakerInv, Informed, IInv, BreakersOK, CountsOK
  <2>10. breaker[s].since \in 0..RecoveryTimeout
    BY <2>9 DEF BreakerType
  <2>11. streak[s] < FailureThreshold \/ quiet[s] >= RecoveryTimeout
    BY <2>7, <2>9, <2>10, Settings DEF Informed, Refuses, should_attempt_reset
  <2>12. QED
    BY <2>11
<1>2. QED
  BY <1>1, Invariance, BreakersInformed, PTL DEF Spec, FailingServiceRests
===============================================================================
