------------------------------ MODULE HttpClient ------------------------------
(***************************************************************************)
(* orchestrators/ticket-purchase-orchestrator/service_client.py: the HTTP  *)
(* client of the purchase saga.  A request thread hands its call to a pool *)
(* thread, waits for it no longer than the call's budget and may leave the *)
(* pool thread behind; four slots bound the calls that are under way; each *)
(* downstream service has a circuit breaker; only reads are sent again.    *)
(*                                                                         *)
(* A step ends where a lock is given back or another party is waited for.  *)
(* Time is counted in ticks and kept as the time still left, so it has no  *)
(* bound.  Nothing makes a pool thread move: client set-up, name           *)
(* resolution and clean-up may block for any time, as the code's own       *)
(* comment says.  What PurchaseSaga assumes of a call, that an error tells *)
(* nothing about the write and that the write may happen later, is what a  *)
(* caller that gave up sees here.                                          *)
(***************************************************************************)
EXTENDS Integers, FiniteSets, FiniteSetsExt

CONSTANTS Services,          \* scheme, host and port of a downstream service
          Calls,             \* request threads of the orchestrator
          MaxOutstanding,    \* MAX_OUTSTANDING_CALLS
          TotalTimeout,      \* TOTAL_TIMEOUT, in ticks
          MaxRetries,        \* MAX_RETRIES
          Backoff,           \* RETRY_BACKOFF_FACTOR, in ticks
          FailureThreshold,  \* CIRCUIT_BREAKER_FAILURE_THRESHOLD
          RecoveryTimeout,   \* CIRCUIT_BREAKER_RECOVERY_SECONDS, in ticks
          HalfOpenMax,       \* CIRCUIT_BREAKER_HALF_OPEN_MAX_REQUESTS
          Null

ASSUME SettingsAssumption ==
  /\ {MaxOutstanding, FailureThreshold, HalfOpenMax} \subseteq Nat \ {0}
  /\ {TotalTimeout, MaxRetries, Backoff, RecoveryTimeout} \subseteq Nat

\* Arithmetic the provers do not know: no pause is negative.
ASSUME BackoffAssumption == \A n \in 0..MaxRetries : Backoff * 2 ^ n \in Nat
ASSUME NullAssumption == Null \notin Services

VARIABLES slots,      \* free slots of _http_slots
          breaker,    \* breaker[s]: the CircuitBreaker of service s
          waiting,    \* callers that wait for their future
          call,       \* call[c]: the call of request thread c and its pool thread
          \* History.
          streak,     \* streak[s]: failed calls of s in a row, up to FailureThreshold
          quiet,      \* quiet[s]: time since the last of them, up to RecoveryTimeout
          sent        \* sent[c]: times the call under way of c was sent

vars == <<slots, breaker, waiting, call, streak, quiet, sent>>

-------------------------------------------------------------------------------
State == {"closed", "open", "half_open"}
Method == {"read", "write"}

\* attempts of _call_service: RETRY_METHODS may be sent MAX_RETRIES more times.
Attempts(m) == IF m = "read" THEN MaxRetries + 1 ELSE 1

\* Where a pool thread is: not there, before asyncio.run, at the top of the loop,
\* waiting for the service, sleeping before a retry, done but for the clean-up.
At == {"none", "start", "try", "await", "sleep", "exit"}

\* Counters, breakers and calls hold what the code can store in them.
TypeOK ==
  /\ slots \in 0..MaxOutstanding
  /\ breaker \in [Services -> [state : State, failures : 0..FailureThreshold,
                               since : 0..RecoveryTimeout, successes : 0..HalfOpenMax]]
  /\ waiting \subseteq Calls
  /\ call \in [Calls -> [at : At, service : Services \cup {Null}, method : Method \cup {Null},
                         left : 0..TotalTimeout, attempt : 0..MaxRetries,
                         sleep : 0..TotalTimeout]]
  /\ streak \in [Services -> 0..FailureThreshold] /\ quiet \in [Services -> 0..RecoveryTimeout]
  /\ sent \in [Calls -> 0..(MaxRetries + 1)]

NoCall == [at |-> "none", service |-> Null, method |-> Null, left |-> 0, attempt |-> 0,
           sleep |-> 0]

\* CircuitBreaker.__init__.  since is the time since last_failure_time, up to
\* recovery_timeout; before the first failure any reset is in order.
NewBreaker == [state |-> "closed", failures |-> 0, since |-> RecoveryTimeout, successes |-> 0]

Init ==
  /\ slots = MaxOutstanding
  /\ breaker = [s \in Services |-> NewBreaker]
  /\ waiting = {} /\ call = [c \in Calls |-> NoCall]
  /\ streak = [s \in Services |-> 0] /\ quiet = [s \in Services |-> RecoveryTimeout]
  /\ sent = [c \in Calls |-> 0]

-------------------------------------------------------------------------------
(* CircuitBreaker.  Each of these runs under the breaker's lock. *)

should_attempt_reset(b) == b.since >= RecoveryTimeout

\* The first half of call: what the breaker is when the request goes out, or
\* that it does not go out.
Refuses(b) == b.state = "open" /\ ~should_attempt_reset(b)
Admit(b) == IF b.state = "open" THEN [b EXCEPT !.state = "half_open", !.successes = 0] ELSE b

\* A success counted while the breaker is open clears the failures and no more.
on_success(b) ==
  IF b.state = "half_open"
    THEN IF b.successes + 1 >= HalfOpenMax
           THEN [b EXCEPT !.state = "closed", !.failures = 0, !.successes = @ + 1]
           ELSE [b EXCEPT !.successes = @ + 1]
    ELSE [b EXCEPT !.failures = 0]

\* Mutant: a failure counts only towards opening a closed breaker.
on_failure_when_closed(b) ==
  IF b.state # "closed" THEN b
  ELSE LET n == Min({b.failures + 1, FailureThreshold}) IN
       [b EXCEPT !.failures = n, !.since = 0,
                 !.state = IF n >= FailureThreshold THEN "open" ELSE @]

\* failure_count is only compared with the threshold: it is kept up to that.
on_failure(b) ==
  LET n == Min({b.failures + 1, FailureThreshold}) IN
  [b EXCEPT !.failures = n, !.since = 0, !.state = IF n >= FailureThreshold THEN "open" ELSE @]

\* The second half of call, for a call that came back well or badly.
Succeeded(s) ==
  /\ breaker' = [breaker EXCEPT ![s] = on_success(@)]
  /\ streak' = [streak EXCEPT ![s] = 0] /\ UNCHANGED quiet
Failed(s) ==
  /\ breaker' = [breaker EXCEPT ![s] = on_failure(@)]
  /\ streak' = [streak EXCEPT ![s] = Min({@ + 1, FailureThreshold})]
  /\ quiet' = [quiet EXCEPT ![s] = 0]

-------------------------------------------------------------------------------
(* The request thread. *)

\* Mutant: the semaphore is not asked.
call_service_unbounded(c, s, m) ==
  /\ c \notin waiting /\ call[c].at = "none" /\ TotalTimeout > 0
  /\ slots' = slots - 1 /\ waiting' = waiting \cup {c}
  /\ call' = [call EXCEPT ![c] = [NoCall EXCEPT !.at = "start", !.service = s, !.method = m,
                                                !.left = TotalTimeout]]
  /\ UNCHANGED <<breaker, streak, quiet, sent>>

\* call_service: with no slot free the answer is an error, at once; else the
\* call goes to the pool, which has a thread for every slot.
call_service(c, s, m) ==
  /\ c \notin waiting /\ call[c].at = "none" /\ TotalTimeout > 0 /\ slots > 0
  /\ slots' = slots - 1 /\ waiting' = waiting \cup {c}
  /\ call' = [call EXCEPT ![c] = [NoCall EXCEPT !.at = "start", !.service = s, !.method = m,
                                                !.left = TotalTimeout]]
  /\ UNCHANGED <<breaker, streak, quiet, sent>>

\* The future has a result.
Return(c) ==
  /\ c \in waiting /\ call[c].at = "none"
  /\ waiting' = waiting \ {c}
  /\ UNCHANGED <<slots, breaker, call, streak, quiet, sent>>

\* Mutant: the caller that gives up also gives the slot back.
GiveUpSlot(c) ==
  /\ c \in waiting /\ call[c].at # "none" /\ call[c].left = 0
  /\ waiting' = waiting \ {c} /\ slots' = slots + 1
  /\ UNCHANGED <<breaker, call, streak, quiet, sent>>

\* Mutant: the caller waits for the pool thread without a limit.
GiveUpAfterExit(c) ==
  /\ c \in waiting /\ call[c].at = "exit" /\ call[c].left = 0
  /\ waiting' = waiting \ {c}
  /\ UNCHANGED <<slots, breaker, call, streak, quiet, sent>>

\* FutureTimeoutError: the caller is answered, the pool thread keeps its slot.
GiveUp(c) ==
  /\ c \in waiting /\ call[c].at # "none" /\ call[c].left = 0
  /\ waiting' = waiting \ {c}
  /\ UNCHANGED <<slots, breaker, call, streak, quiet, sent>>

-------------------------------------------------------------------------------
(* The pool thread.  A request thread that gave up can make no other call
   under the same name before its pool thread has ended. *)

GoTo(c, at) == call' = [call EXCEPT ![c].at = at]

\* _run_service_call up to the event loop.
run_service_call(c) ==
  /\ call[c].at = "start"
  /\ GoTo(c, IF call[c].left = 0 THEN "exit" ELSE "try")
  /\ UNCHANGED <<slots, breaker, waiting, streak, quiet, sent>>

\* An attempt that the deadline or the breaker stops.
NoAttempt(c) ==
  /\ call[c].at = "try" /\ (call[c].left = 0 \/ Refuses(breaker[call[c].service]))
  /\ GoTo(c, "exit")
  /\ UNCHANGED <<slots, breaker, waiting, streak, quiet, sent>>

\* An attempt that is sent.
Attempt(c) ==
  /\ call[c].at = "try" /\ call[c].left > 0 /\ ~Refuses(breaker[call[c].service])
  /\ breaker' = [breaker EXCEPT ![call[c].service] = Admit(@)]
  /\ GoTo(c, "await") /\ sent' = [sent EXCEPT ![c] = @ + 1]
  /\ UNCHANGED <<slots, waiting, streak, quiet>>

\* A response, or an error status below 500: both show that the service is there.
Answered(c) ==
  /\ call[c].at = "await" /\ GoTo(c, "exit") /\ Succeeded(call[c].service)
  /\ UNCHANGED <<slots, waiting, sent>>

\* A body that is too long or no JSON, or a status over 500 that is not retried.
Unusable(c) ==
  /\ call[c].at = "await" /\ GoTo(c, "exit") /\ Failed(call[c].service)
  /\ UNCHANGED <<slots, waiting, sent>>

\* Mutant: writes are retried too.
TransientAnyMethod(c) ==
  LET delay == Backoff * 2 ^ call[c].attempt IN
  /\ call[c].at = "await" /\ Failed(call[c].service)
  /\ call' = [call EXCEPT ![c] =
       IF @.attempt < MaxRetries /\ delay < @.left
         THEN [@ EXCEPT !.at = "sleep", !.sleep = delay]
         ELSE [@ EXCEPT !.at = "exit"]]
  /\ UNCHANGED <<slots, waiting, sent>>

\* A network error or a status of RETRY_STATUS_CODES: sent again after a pause,
\* if the method allows and the pause ends before the deadline.
Transient(c) ==
  LET delay == Backoff * 2 ^ call[c].attempt IN
  /\ call[c].at = "await" /\ Failed(call[c].service)
  /\ call' = [call EXCEPT ![c] =
       IF @.attempt + 1 < Attempts(@.method) /\ delay < @.left
         THEN [@ EXCEPT !.at = "sleep", !.sleep = delay]
         ELSE [@ EXCEPT !.at = "exit"]]
  /\ UNCHANGED <<slots, waiting, sent>>

\* The pause is over.
Retry(c) ==
  /\ call[c].at = "sleep" /\ call[c].sleep = 0
  /\ call' = [call EXCEPT ![c].at = "try", ![c].attempt = @ + 1]
  /\ UNCHANGED <<slots, breaker, waiting, streak, quiet, sent>>

\* asyncio.timeout ends the wait for the service, which counts as a failure, or
\* the pause, which does not.
Cancel(c) ==
  /\ call[c].at \in {"await", "sleep"} /\ call[c].left = 0 /\ GoTo(c, "exit")
  /\ IF call[c].at = "await" THEN Failed(call[c].service) ELSE UNCHANGED <<breaker, streak, quiet>>
  /\ UNCHANGED <<slots, waiting, sent>>

\* The finally of _run_service_call.
Release(c) ==
  /\ call[c].at = "exit"
  /\ call' = [call EXCEPT ![c] = NoCall] /\ slots' = slots + 1
  /\ sent' = [sent EXCEPT ![c] = 0]
  /\ UNCHANGED <<breaker, waiting, streak, quiet>>

\* time.monotonic().
Tick ==
  /\ call' = [c \in Calls |-> [call[c] EXCEPT !.left = Max({@ - 1, 0}),
                                              !.sleep = Max({@ - 1, 0})]]
  /\ breaker' = [s \in Services |-> [breaker[s] EXCEPT !.since = Min({@ + 1, RecoveryTimeout})]]
  /\ quiet' = [s \in Services |-> Min({quiet[s] + 1, RecoveryTimeout})]
  /\ UNCHANGED <<slots, waiting, streak, sent>>

-------------------------------------------------------------------------------
Next ==
  \/ Tick
  \/ \E c \in Calls :
       \/ \E s \in Services, m \in Method : call_service(c, s, m)
       \/ Return(c) \/ GiveUp(c) \/ run_service_call(c) \/ NoAttempt(c) \/ Attempt(c)
       \/ Answered(c) \/ Unusable(c) \/ Transient(c) \/ Retry(c) \/ Cancel(c) \/ Release(c)

\* Time passes and a request thread that may go on does; pool threads need not.
Fairness ==
  /\ WF_vars(Tick)
  /\ \A c \in Calls : WF_vars(Return(c)) /\ WF_vars(GiveUp(c))

Spec == Init /\ [][Next]_vars /\ Fairness

-------------------------------------------------------------------------------
\* A slot is taken exactly as long as a pool thread works, whoever still waits for
\* it: callers that gave up cannot pile up background calls, and no slot is lost
\* on any way out of a call.
OutstandingBounded ==
  slots + Cardinality({c \in Calls : call[c].at # "none"}) = MaxOutstanding

\* A write is never sent twice, however the first answer was lost, and a read not
\* more often than the settings say, over all retries, pauses and timeouts.
WritesSentOnce ==
  \A c \in Calls : sent[c] <= Attempts(call[c].method)

\* A request goes out only to a service that has not just failed FailureThreshold
\* times in a row, or had its rest since.
SendsWhenRested ==
  \A c \in Calls : sent'[c] > sent[c] =>
    LET s == call[c].service IN
    streak[s] < FailureThreshold \/ quiet[s] >= RecoveryTimeout

\* A service that failed FailureThreshold times in a row, for whichever callers, is
\* sent nothing until RecoveryTimeout after the last failure: also when results of
\* calls from before the breaker opened come in late, and by no retry.
FailingServiceRests == [][SendsWhenRested]_vars

\* Every call_service returns to its caller, also when its pool thread never ends.
CallersAnswered == \A c \in Calls : c \in waiting ~> c \notin waiting
===============================================================================
