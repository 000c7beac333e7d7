-------------------------------- MODULE TopUp --------------------------------
(***************************************************************************)
(* Buying credits: orchestrators/credit-orchestrator credits a payment     *)
(* when the user's app confirms it and when Stripe reports it, through      *)
(* services/stripe-wrapper, with the balance in OutSystems and the record  *)
(* of what was credited in services/credit-transaction-service.            *)
(*                                                                         *)
(* A step is one call to another service.  A call that changes something   *)
(* may report an error whether or not it was applied, and a process may be *)
(* killed; MaxMishaps bounds how often.  Stripe may deliver an event any   *)
(* number of times, and need not: whether it ever arrives is up to Stripe  *)
(* and to the gateway, whose configuration sends it elsewhere.             *)
(***************************************************************************)
EXTENDS Integers

CONSTANTS Users, Intents,    \* users, and ids of Stripe PaymentIntents
          Calls,             \* request threads of the credit orchestrator
          Amount,            \* credits every payment is for
          MaxMishaps,        \* bound: calls that fail, processes that are killed
          MaxSpent,          \* bound: credits a user spends
          Null

ASSUME AmountAssumption == Amount \in Nat \ {0} /\ MaxMishaps \in Nat /\ MaxSpent \in Nat
ASSUME NullAssumption == Null \notin Users \cup Intents

VARIABLES intents,      \* Stripe: owner and status of each payment
          acked,        \* payments a request was answered 200 for, by the app or Stripe
          balance,      \* OutSystems: creditBalance of each user
          rows,         \* credit-transaction-service: referenceIds on record
          mishaps,      \* how many there were
          pc,           \* pc[c]: the step request c is at
          job,          \* job[c]: its route, payment and the balance it read
          \* History.
          credited,     \* credited[p]: balance writes that counted p in
          bought,       \* bought[u]: credits such writes were to add to u's balance
          spent,        \* spent[u]: credits purchases took from u
          raced,        \* users whose balance changed between a read and its write
          overlapped,   \* payments two requests were working on at once
          unsure        \* payments credited or not without a record to tell

vars == <<intents, acked, balance, rows, mishaps, pc, job, credited, bought, spent, raced,
          overlapped, unsure>>
history == <<credited, bought, spent, raced, overlapped, unsure>>

-------------------------------------------------------------------------------
Working == {"reference", "read", "write", "log"}
Route == {"confirm", "webhook"}

\* Tables, requests and history hold what their columns and fields allow.
TypeOK ==
  /\ intents \in [Intents -> [user : Users \cup {Null},
                              status : {"none", "created", "succeeded"}]]
  /\ acked \subseteq Intents /\ balance \in [Users -> Nat]
  /\ rows \subseteq {"pi", "evt"} \X Intents
  /\ mishaps \in 0..MaxMishaps
  /\ pc \in [Calls -> Working \cup {"idle"}]
  /\ job \in [Calls -> [route : Route \cup {Null}, intent : Intents \cup {Null},
                        balance : Nat]]
  /\ credited \in [Intents -> Nat] /\ bought \in [Users -> Nat] /\ spent \in [Users -> Nat]
  /\ raced \subseteq Users /\ overlapped \subseteq Intents /\ unsure \subseteq Intents

NoJob == [route |-> Null, intent |-> Null, balance |-> 0]

Init ==
  /\ intents = [p \in Intents |-> [user |-> Null, status |-> "none"]]
  /\ acked = {} /\ balance = [u \in Users |-> 0] /\ rows = {} /\ mishaps = 0
  /\ pc = [c \in Calls |-> "idle"] /\ job = [c \in Calls |-> NoJob]
  /\ credited = [p \in Intents |-> 0]
  /\ bought = [u \in Users |-> 0] /\ spent = [u \in Users |-> 0]
  /\ raced = {} /\ overlapped = {} /\ unsure = {}

-------------------------------------------------------------------------------
(* The payment itself. *)

\* The wrapper's POST /stripe/create-payment-intent: a payment in the user's name.
create_payment_intent(u, p) ==
  intents' = [intents EXCEPT ![p] = [user |-> u, status |-> "created"]]

\* The wrapper's POST /stripe/retrieve-payment-intent: whose it is, once it is paid.
retrieve_payment_intent(p) ==
  IF intents[p].status = "succeeded" THEN intents[p].user ELSE Null

\* The wrapper's POST /stripe/webhook: a signed event says that p was paid.  Events
\* of other types are answered with 200 and change nothing.
webhook_event(p) == intents[p].status = "succeeded"

\* POST /credits/topup/initiate.
initiate_topup(u, p) ==
  /\ intents[p].status = "none"
  /\ create_payment_intent(u, p)
  /\ UNCHANGED <<acked, balance, rows, mishaps, pc, job, history>>

\* The user pays, in Stripe's own form.
Pay(p) ==
  /\ intents[p].status = "created"
  /\ intents' = [intents EXCEPT ![p].status = "succeeded"]
  /\ UNCHANGED <<acked, balance, rows, mishaps, pc, job, history>>

\* A purchase takes a credit (see PurchaseSaga).
Spend(u) ==
  /\ balance[u] > 0 /\ spent[u] < MaxSpent /\ balance' = [balance EXCEPT ![u] = @ - 1]
  /\ spent' = [spent EXCEPT ![u] = @ + 1]
  /\ raced' = IF \E c \in Calls : pc[c] = "write" /\ intents[job[c].intent].user = u
                THEN raced \cup {u} ELSE raced
  /\ UNCHANGED <<intents, acked, rows, mishaps, pc, job, credited, bought, overlapped, unsure>>

-------------------------------------------------------------------------------
Mishap == mishaps < MaxMishaps /\ mishaps' = mishaps + 1
Answered == UNCHANGED mishaps

\* Mutant: the webhook records the payment under the id of Stripe's event.
ReferenceByEvent(route, p) == <<IF route = "webhook" THEN "evt" ELSE "pi", p>>

\* referenceId.  The webhook would take the id of the event, but the wrapper
\* never passes one on, so both routes take the PaymentIntent's.
Reference(route, p) == <<"pi", p>>

Begin(c, route, p) ==
  /\ pc[c] = "idle" /\ pc' = [pc EXCEPT ![c] = "reference"]
  /\ job' = [job EXCEPT ![c] = [NoJob EXCEPT !.route = route, !.intent = p]]
  /\ overlapped' = IF \E d \in Calls \ {c} : job[d].intent = p
                     THEN overlapped \cup {p} ELSE overlapped
  /\ UNCHANGED <<intents, acked, balance, rows, mishaps, credited, bought, spent, raced, unsure>>

\* POST /credits/topup/confirm: a payment that succeeded, by its owner.
confirm_topup(c, u, p) == retrieve_payment_intent(p) = u /\ Begin(c, "confirm", p)

\* POST /credits/topup/webhook: the wrapper vouches for the event.
stripe_webhook(c, p) == webhook_event(p) /\ Begin(c, "webhook", p)

Goto(c, step) == pc' = [pc EXCEPT ![c] = step] /\ UNCHANGED <<job, acked>>

End(c) == pc' = [pc EXCEPT ![c] = "idle"] /\ job' = [job EXCEPT ![c] = NoJob]

\* An answer of 200: the payment is settled, nobody need report it again.
Ok(c) == End(c) /\ acked' = acked \cup {job[c].intent}

\* Mutant: errors are answered with 200, too.
FailOk(c) == Ok(c)

\* An answer of 503.
Fail(c) == End(c) /\ UNCHANGED acked

\* credit-transaction-service: GET /credit-transactions/reference/{id} finds a row,
\* and POST /credit-transactions adds one, whether or not there is one already.
get_credit_transaction_by_reference(ref) == ref \in rows

create_credit_transaction(ref) == rows' = rows \cup {ref}

\* The record says whether the payment was credited; no answer counts as no.
CheckReference(c) ==
  /\ pc[c] = "reference"
  /\ LET p == job[c].intent IN
     \/ /\ get_credit_transaction_by_reference(Reference(job[c].route, p))
        /\ Answered /\ Ok(c) /\ UNCHANGED unsure
     \/ /\ ~ get_credit_transaction_by_reference(Reference(job[c].route, p))
        /\ Answered /\ Goto(c, "read") /\ UNCHANGED unsure
     \/ Mishap /\ Goto(c, "read") /\ unsure' = unsure \cup {p}
  /\ UNCHANGED <<intents, balance, rows, credited, bought, spent, raced, overlapped>>

SetBalance(c, b) ==
  job' = [job EXCEPT ![c].balance = b] /\ pc' = [pc EXCEPT ![c] = "write"] /\ UNCHANGED acked

\* Mutant: a balance that cannot be read counts as zero.
ReadBalanceOrZero(c) ==
  /\ pc[c] = "read"
  /\ \/ Answered /\ SetBalance(c, balance[intents[job[c].intent].user])
     \/ Mishap /\ SetBalance(c, 0)
  /\ UNCHANGED <<intents, balance, rows, history>>

\* Mutant: the error of the read is not looked at.
ReadBalanceUnchecked(c) ==
  /\ pc[c] = "read"
  /\ \/ Answered /\ SetBalance(c, balance[intents[job[c].intent].user])
     \/ Mishap /\ SetBalance(c, Null)
  /\ UNCHANGED <<intents, balance, rows, history>>

ReadBalance(c) ==
  /\ pc[c] = "read"
  /\ \/ Answered /\ SetBalance(c, balance[intents[job[c].intent].user])
     \/ Mishap /\ Fail(c)
  /\ UNCHANGED <<intents, balance, rows, history>>

\* The balance read, plus the payment, is written as the new balance.
WriteBalance(c) ==
  LET p == job[c].intent
      u == intents[p].user
      applied == /\ balance' = [balance EXCEPT ![u] = job[c].balance + Amount]
                 /\ credited' = [credited EXCEPT ![p] = @ + 1]
                 /\ bought' = [bought EXCEPT ![u] = @ + Amount]
                 /\ raced' = IF \E d \in Calls \ {c} :
                                  pc[d] = "write" /\ intents[job[d].intent].user = u
                               THEN raced \cup {u} ELSE raced
      dropped == UNCHANGED <<balance, credited, bought, raced>>
  IN /\ pc[c] = "write"
     /\ \/ Answered /\ applied /\ Goto(c, "log") /\ UNCHANGED unsure
        \/ Mishap /\ Fail(c) /\ \/ applied /\ unsure' = unsure \cup {p}
                                \/ dropped /\ UNCHANGED unsure
     /\ UNCHANGED <<intents, rows, spent, overlapped>>

\* POST of the record, its result not looked at; a row can be there twice.
LogTransaction(c) ==
  /\ pc[c] = "log" /\ Ok(c)
  /\ LET p == job[c].intent IN
     \/ Answered /\ create_credit_transaction(Reference(job[c].route, p)) /\ UNCHANGED unsure
     \/ Mishap /\ UNCHANGED rows /\ unsure' = unsure \cup {p}
  /\ UNCHANGED <<intents, balance, credited, bought, spent, raced, overlapped>>

\* The process is killed, or Stripe stops waiting for it.
Kill(c) ==
  /\ pc[c] \in Working /\ Mishap /\ Fail(c)
  /\ unsure' = IF pc[c] = "log" THEN unsure \cup {job[c].intent} ELSE unsure
  /\ UNCHANGED <<intents, balance, rows, credited, bought, spent, raced, overlapped>>

-------------------------------------------------------------------------------
Step(c) == CheckReference(c) \/ ReadBalance(c) \/ WriteBalance(c) \/ LogTransaction(c)

Next ==
  \/ \E u \in Users, p \in Intents : initiate_topup(u, p)
  \/ \E p \in Intents : Pay(p)
  \/ \E u \in Users : Spend(u)
  \/ \E c \in Calls, p \in Intents :
       stripe_webhook(c, p) \/ \E u \in Users : confirm_topup(c, u, p)
  \/ \E c \in Calls : Step(c) \/ Kill(c)

Spec == Init /\ [][Next]_vars

-------------------------------------------------------------------------------
\* "Guard against double credit": confirm and webhook, in any order and however
\* often, credit a payment once.  Only two requests at once, or a record that
\* was lost, could not be read or was never made, defeat the guard.
CreditedOnce ==
  \A p \in Intents : credited[p] > 1 => p \in overlapped \cup unsure

\* A balance is what was credited less what was spent, unless it changed between
\* the read and the write of a top-up: no error path loses or invents credits.
TopUpExact ==
  \A u \in Users \ raced : balance[u] = bought[u] - spent[u]

\* A 200 is final: neither the app nor Stripe reports such a payment again, so it has
\* been credited, and is on record so that a report that comes all the same finds
\* it; the record may be missing where one was lost.  Every failing path must leave
\* the payment without a 200.
AckedIsCredited ==
  \A p \in acked : credited[p] > 0 /\ (p \in unsure \/ <<"pi", p>> \in rows)
===============================================================================
