----------------------------- MODULE PurchaseSaga -----------------------------
(***************************************************************************)
(* orchestrators/ticket-purchase-orchestrator: holding a seat, giving it   *)
(* back, buying it, and the consumer that releases holds that ran out.     *)
(* The seat service is its promise (SeatLedger, which SeatInventory        *)
(* implements), the Redis hold cache is CacheAuthentic of SeatInventory,   *)
(* the ticket service and OutSystems credits are their tables.             *)
(*                                                                         *)
(* A step is one call to another service together with what the handler    *)
(* does with the answer.  Any write may report an error although it was    *)
(* applied, and a credit write that timed out may be applied later.  A     *)
(* handler that dies is one that takes no further step.                    *)
(***************************************************************************)
EXTENDS SeatLedger, Integers, FiniteSets

CONSTANTS Calls,           \* request threads of the orchestrator
          TicketIds,       \* ticketIds (uuid4)
          Price,           \* price of the event's tickets
          InitialCredits   \* every user's balance to begin with

ASSUME PriceAssumption == Price \in Nat \ {0} /\ InitialCredits \in Nat
ASSUME NoTicket == Null \notin TicketIds

VARIABLES credits,     \* OutSystems: the balance of each user
          tickets,     \* ticket-service: its rows
          ttl,         \* seat_hold_ttl_queue and, after it, seat_hold_expired_queue
          late,        \* credit writes that timed out and may yet be applied
          refused,     \* seat service: tokens a failed release is remembered under
          pc,          \* pc[c]: the step request c is at
          job,         \* job[c]: what it is about and what it has read
          \* History.
          overwritten, \* seats GetSeatStatus set free although their row had not run out
          givenBack,   \* tokens given back through release_hold
          unwatched,   \* tokens whose expiry message was never queued, or was dropped
          raced,       \* users two of whose balance updates overlapped
          charged,     \* tickets whose price was taken off the balance
          receipts     \* tickets a caller was told (201) are bought

services == <<credits, tickets, late>>
seatService == <<ledger, granted, lapsed, refused>>
history == <<overwritten, givenBack, unwatched, raced, charged, receipts>>
vars == <<ledger, granted, lapsed, refused, credits, tickets, ttl, late, pc, job,
          overwritten, givenBack, unwatched, raced, charged, receipts>>

-------------------------------------------------------------------------------
Pc == {"idle", "publish", "check", "balance", "sell", "ticket", "undo_ticket",
       "pay", "undo_pay", "log"}

ALLOWED_STATUS_VALUES == {"active", "listed", "used", "pending_transfer"}

Ticket == [id : TicketIds, seat : Seats, owner : Users, status : ALLOWED_STATUS_VALUES]

Job == [user : Users \cup {Null}, seat : Seats \cup {Null}, token : Tokens \cup {Null},
        balance : Nat, ticket : TicketIds \cup {Null}]

CreditWrite == [user : Users, balance : Nat, ticket : TicketIds]

\* A busy request has a user and a seat, and once past a step, what that step
\* found: a balance that covers the price, a ticket.
JobsOK ==
  /\ pc \in [Calls -> Pc] /\ job \in [Calls -> Job]
  /\ \A c \in Calls :
       /\ pc[c] # "idle" => job[c].user \in Users /\ job[c].seat \in Seats
       /\ pc[c] = "publish" => job[c].token \in Tokens
       /\ pc[c] \in {"sell", "ticket", "pay"} => job[c].balance >= Price
       /\ pc[c] \in {"pay", "undo_pay", "log"} => job[c].ticket \in TicketIds

LedgerOK == ledger \in [Seats -> Row] /\ granted \subseteq Hold
            /\ lapsed \subseteq Tokens /\ refused \subseteq Tokens

ServicesOK ==
  /\ credits \in [Users -> Nat] /\ tickets \subseteq Ticket
  /\ ttl \subseteq Hold /\ late \subseteq CreditWrite

HistoryOK ==
  /\ overwritten \subseteq Seats
  /\ givenBack \subseteq Tokens /\ unwatched \subseteq Tokens
  /\ raced \subseteq Users
  /\ charged \subseteq TicketIds /\ receipts \subseteq TicketIds

\* Balances never go below zero, and no saga step leaves the vocabulary of the
\* tables it writes to.
TypeOK == LedgerOK /\ ServicesOK /\ JobsOK /\ HistoryOK

-------------------------------------------------------------------------------
NoJob == [user |-> Null, seat |-> Null, token |-> Null, balance |-> 0, ticket |-> Null]

Work(s, u, t, b, k) == [user |-> u, seat |-> s, token |-> t, balance |-> b, ticket |-> k]

Accept(c, step, s, u, t) ==
  /\ pc[c] = "idle"
  /\ pc' = [pc EXCEPT ![c] = step]
  /\ job' = [job EXCEPT ![c] = Work(s, u, t, 0, Null)]

Goto(c, step) == pc' = [pc EXCEPT ![c] = step] /\ UNCHANGED job

Answer(c) == pc' = [pc EXCEPT ![c] = "idle"] /\ job' = [job EXCEPT ![c] = NoJob]

\* The tokens that clients know of.  Nothing ties a token to the user who sends it:
\* a client may still have the one it was given under another account.
KnownTokens == {h.token : h \in granted}

\* The token is the row's own, the user is somebody else.
Misdirected(s, u, t) ==
  \E h \in granted : h.seat = s /\ h.token = t /\ h.user # u /\ HeldBy(s, h.user, t)

\* Mutant: what is remembered of a release is kept by seat, not by seat and token.
ReleaseSeatBySeat(s, u, t) ==
  /\ \/ /\ ledger' = [ledger EXCEPT ![s] = IF HeldBy(s, u, t) THEN Bare("available") ELSE @]
        /\ refused' \in IF Misdirected(s, u, t) THEN {refused, refused \cup {t}} ELSE {refused}
     \/ /\ \E h \in granted : h.seat = s /\ h.token \in refused
        /\ UNCHANGED <<ledger, refused>>
  /\ UNCHANGED <<granted, lapsed>>

\* The ReleaseSeat RPC.  The row is freed if it is this very hold; if not, the call
\* fails, and the failure is stored under the token.  A later call with that token is
\* answered with the stored failure and does not look at the row, unless Redis is
\* away.  Only failures for a token still in its row are kept here: any other token
\* never comes back into one, so looking at the row changes nothing either.
ReleaseSeat(s, u, t) ==
  /\ \/ /\ ledger' = [ledger EXCEPT ![s] = IF HeldBy(s, u, t) THEN Bare("available") ELSE @]
        /\ refused' \in IF Misdirected(s, u, t) THEN {refused, refused \cup {t}} ELSE {refused}
     \/ t \in refused /\ UNCHANGED <<ledger, refused>>
  /\ UNCHANGED <<granted, lapsed>>

\* Mutant: the new status is not checked.
update_ticket_any(k, status) ==
  tickets' = {IF x.id = k THEN [id |-> k, seat |-> x.seat, owner |-> x.owner, status |-> status]
                ELSE x : x \in tickets}

\* PATCH /tickets/{id} with a status: any other word than those allowed is a 400.
update_ticket(k, status) ==
  tickets' = {IF x.id = k /\ status \in ALLOWED_STATUS_VALUES
                THEN [id |-> k, seat |-> x.seat, owner |-> x.owner, status |-> status]
                ELSE x : x \in tickets}

\* POST /tickets: nothing asks whether the seat has a ticket already.
create_ticket(k, s, u) ==
  /\ \A x \in tickets : x.id # k
  /\ tickets' = tickets \cup {[id |-> k, seat |-> s, owner |-> u, status |-> "active"]}

-------------------------------------------------------------------------------
Init ==
  /\ LedgerInit
  /\ credits = [u \in Users |-> InitialCredits]
  /\ tickets = {} /\ ttl = {} /\ late = {} /\ refused = {}
  /\ pc = [c \in Calls |-> "idle"]
  /\ job = [c \in Calls |-> NoJob]
  /\ overwritten = {} /\ givenBack = {} /\ unwatched = {} /\ raced = {}
  /\ charged = {} /\ receipts = {}

\* An administrator creates an event (event-orchestrator) and its venue's seats
\* are put on sale in one batch.  The event's own row is not part of this state:
\* a failure before the batch leaves an event with no seats to sell, no step here.
OpenSeats(S) ==
  /\ S # {} /\ AddSeats(S)
  /\ UNCHANGED <<refused, services, ttl, pc, job, history>>

\* Time passes until the holds in T run out.
TimePasses(T) ==
  /\ Lapse(T) /\ T \cap lapsed = {}
  /\ UNCHANGED <<refused, services, ttl, pc, job, history>>

-------------------------------------------------------------------------------
\* POST /purchase/hold.  If the answer of the HoldSeat RPC is lost the seat is
\* held, but nothing is queued to release it.
hold_seat(c, s, u, t) ==
  /\ Grant(s, u, t)
  /\ \/ Accept(c, "publish", s, u, t) /\ UNCHANGED unwatched
     \/ pc[c] = "idle" /\ unwatched' = unwatched \cup {t} /\ UNCHANGED <<pc, job>>
  /\ UNCHANGED <<refused, services, ttl, overwritten, givenBack, raced, charged, receipts>>

\* _publish_hold_ttl gives up silently after its third attempt.
publish_hold_ttl(c) ==
  /\ pc[c] = "publish"
  /\ \/ ttl' = ttl \cup {[seat |-> job[c].seat, user |-> job[c].user, token |-> job[c].token]}
        /\ UNCHANGED unwatched
     \/ unwatched' = unwatched \cup {job[c].token} /\ UNCHANGED ttl
  /\ Answer(c)
  /\ UNCHANGED <<seatService, services, overwritten, givenBack, raced, charged, receipts>>

\* DELETE /purchase/hold: the caller's own id with any token.
release_hold(s, u, t) ==
  /\ t \in KnownTokens
  /\ ReleaseSeat(s, u, t)
  /\ givenBack' = IF ledger' # ledger THEN givenBack \cup {t} ELSE givenBack
  /\ UNCHANGED <<services, ttl, pc, job, overwritten, unwatched, raced, charged, receipts>>

\* Mutant: the queue's time to live is shorter than the hold.
on_expired_early(m) ==
  /\ m \in ttl
  /\ ReleaseSeat(m.seat, m.user, m.token)
  /\ ttl' = ttl \ {m}
  /\ UNCHANGED <<services, pc, job, history>>

\* The dead-letter consumer.  The queue's time to live is the hold's duration and
\* starts after it, so a message arrives only once the hold has run out.  The
\* answer is not looked at.  Without an acknowledgement the message comes again;
\* after an error it is dropped, whether or not the seat was released.
on_expired(m) ==
  /\ m \in ttl /\ m.token \in lapsed
  /\ \/ ReleaseSeat(m.seat, m.user, m.token) /\ ttl' \in {ttl, ttl \ {m}} /\ UNCHANGED unwatched
     \/ /\ ttl' = ttl \ {m} /\ unwatched' = unwatched \cup {m.token}
        /\ UNCHANGED seatService
  /\ UNCHANGED <<services, pc, job, overwritten, givenBack, raced, charged, receipts>>

-------------------------------------------------------------------------------
\* POST /purchase/confirm, with some token or none.
confirm_purchase(c, s, u, t) ==
  /\ t \in KnownTokens \cup {Null}
  /\ Accept(c, "check", s, u, t)
  /\ UNCHANGED <<seatService, services, ttl, history>>

\* A hold seen as held passes unless its heldUntil is over.
validate_hold_state(status, token) == status = "held" /\ token \notin lapsed

\* The hold in the cache, stale or not, is the caller's and has not run out.  (A
\* request without a token is not compared with the cached one.)
CachedHold(c) ==
  \E h \in granted : /\ h.seat = job[c].seat /\ h.user = job[c].user
                     /\ job[c].token # Null => h.token = job[c].token
                     /\ validate_hold_state("held", h.token)

\* Step 1, the hold is checked, against the cache or, on a miss, with
\* GetSeatStatus: its caller is not compared, and it may set the seat free.  Here
\* and below, a failed check or an unavailable service ends the request.
CheckHold(c) ==
  LET s == job[c].seat IN
  /\ pc[c] = "check"
  /\ \/ /\ CachedHold(c) \/ validate_hold_state(ledger[s].status, ledger[s].holdToken)
        /\ Goto(c, "balance")
        /\ UNCHANGED <<ledgerVars, overwritten>>
     \/ /\ Clear(s)
        /\ overwritten' = IF ledger[s].status = "available" \/ ledger[s].holdToken \in lapsed
                            THEN overwritten ELSE overwritten \cup {s}
        /\ Answer(c)
     \/ Answer(c) /\ UNCHANGED <<ledgerVars, overwritten>>
  /\ UNCHANGED <<refused, services, ttl, givenBack, unwatched, raced, charged, receipts>>

\* Another request of u stands between reading and writing u's balance, or a
\* write of it that timed out is still under way.
BalanceInUse(u) ==
  \/ \E d \in Calls : job[d].user = u /\ pc[d] \in {"sell", "ticket", "pay"}
  \/ \E e \in late : e.user = u

\* Step 2, after the event was read: 402 unless the balance covers the price.
CheckBalance(c) ==
  LET u == job[c].user IN
  /\ pc[c] = "balance"
  /\ \/ /\ credits[u] >= Price
        /\ pc' = [pc EXCEPT ![c] = "sell"]
        /\ job' = [job EXCEPT ![c] = Work(job[c].seat, u, job[c].token, credits[u], Null)]
        /\ raced' = IF BalanceInUse(u) THEN raced \cup {u} ELSE raced
     \/ Answer(c) /\ UNCHANGED raced
  /\ UNCHANGED <<seatService, services, ttl, overwritten, givenBack, unwatched, charged, receipts>>

\* Mutant: sell_resp.success is not looked at.
SellSeatUnchecked(c) ==
  LET s == job[c].seat IN
  /\ pc[c] = "sell"
  /\ ledger' = [ledger EXCEPT ![s] = IF HeldBy(s, job[c].user, job[c].token) THEN Bare("sold") ELSE @]
  /\ Goto(c, "ticket")
  /\ UNCHANGED <<granted, lapsed, refused, services, ttl, history>>

\* Step 3.  A lost answer (503) leaves the seat sold to nobody.
SellSeat(c) ==
  /\ pc[c] = "sell"
  /\ \/ Sell(job[c].seat, job[c].user, job[c].token) /\ (Goto(c, "ticket") \/ Answer(c))
     \/ Answer(c) /\ UNCHANGED ledgerVars
  /\ UNCHANGED <<refused, services, ttl, history>>

\* Step 4.  After an error the ticket may exist all the same.
PostTicket(c) ==
  /\ pc[c] = "ticket"
  /\ \/ \E k \in TicketIds :
          /\ create_ticket(k, job[c].seat, job[c].user)
          /\ \/ /\ pc' = [pc EXCEPT ![c] = "pay"]
                /\ job' = [job EXCEPT ![c] = Work(job[c].seat, job[c].user, job[c].token, job[c].balance, k)]
             \/ Goto(c, "undo_ticket")
     \/ Goto(c, "undo_ticket") /\ UNCHANGED tickets
  /\ UNCHANGED <<seatService, credits, late, ttl, history>>

\* "Compensate: release seat back", an error of which is ignored.
UndoTicket(c) ==
  /\ pc[c] = "undo_ticket"
  /\ ReleaseSeat(job[c].seat, job[c].user, job[c].token)
  /\ Answer(c)
  /\ UNCHANGED <<services, ttl, history>>

\* Mutant: an error is taken for success.
PatchCreditsOptimistic(c) ==
  LET u == job[c].user
      left == job[c].balance - Price IN
  /\ pc[c] = "pay"
  /\ \/ /\ credits' = [credits EXCEPT ![u] = left]
        /\ charged' = charged \cup {job[c].ticket}
     \/ UNCHANGED <<credits, charged>>
  /\ Goto(c, "log")
  /\ UNCHANGED <<seatService, tickets, late, ttl, overwritten, givenBack, unwatched, raced, receipts>>

\* Mutant: the price is not subtracted.
PatchCreditsUnchanged(c) ==
  /\ pc[c] = "pay"
  /\ credits' = [credits EXCEPT ![job[c].user] = job[c].balance]
  /\ charged' = charged \cup {job[c].ticket}
  /\ Goto(c, "log")
  /\ UNCHANGED <<seatService, tickets, late, ttl, overwritten, givenBack, unwatched, raced, receipts>>

\* Step 5: the balance becomes what was READ at step 2 less the price.  After an
\* error the write may not happen, or happen now or at any later time.
PatchCredits(c) ==
  LET u == job[c].user
      left == job[c].balance - Price IN
  /\ pc[c] = "pay"
  /\ \/ /\ credits' = [credits EXCEPT ![u] = left]
        /\ charged' = charged \cup {job[c].ticket}
        /\ Goto(c, "log")
        /\ UNCHANGED late
     \/ /\ late' \in {late, late \cup {[user |-> u, balance |-> left, ticket |-> job[c].ticket]}}
        /\ Goto(c, "undo_pay")
        /\ UNCHANGED <<credits, charged>>
  /\ UNCHANGED <<seatService, tickets, ttl, overwritten, givenBack, unwatched, raced, receipts>>

\* A credit write that the orchestrator gave up on reaches OutSystems.
LateCredit(e) ==
  /\ e \in late
  /\ credits' = [credits EXCEPT ![e.user] = e.balance]
  /\ charged' = charged \cup {e.ticket}
  /\ late' = late \ {e}
  /\ UNCHANGED <<seatService, tickets, ttl, pc, job, overwritten, givenBack, unwatched, raced, receipts>>

\* After a failed payment: mark the ticket, release the seat, and report what went
\* wrong to a queue nobody declares, where RabbitMQ drops it.
UndoPay(c) ==
  /\ pc[c] = "undo_pay"
  /\ update_ticket(job[c].ticket, "payment_failed")
  /\ ReleaseSeat(job[c].seat, job[c].user, job[c].token)
  /\ Answer(c)
  /\ UNCHANGED <<credits, late, ttl, history>>

\* Step 6 writes the audit record, an error of which is ignored, and answers 201.
LogPurchase(c) ==
  /\ pc[c] = "log"
  /\ receipts' = receipts \cup {job[c].ticket}
  /\ Answer(c)
  /\ UNCHANGED <<seatService, services, ttl, overwritten, givenBack, unwatched, raced, charged>>

-------------------------------------------------------------------------------
Step(c) == \/ publish_hold_ttl(c) \/ CheckHold(c) \/ CheckBalance(c) \/ SellSeat(c)
           \/ PostTicket(c) \/ UndoTicket(c) \/ PatchCredits(c) \/ UndoPay(c) \/ LogPurchase(c)

Next ==
  \/ \E S \in SUBSET Seats : OpenSeats(S)
  \/ \E T \in SUBSET Tokens : T # {} /\ TimePasses(T)
  \/ \E s \in Seats, u \in Users, t \in Tokens : release_hold(s, u, t)
  \/ \E c \in Calls, s \in Seats, u \in Users :
       \/ \E t \in Tokens : hold_seat(c, s, u, t)
       \/ \E t \in Tokens \cup {Null} : confirm_purchase(c, s, u, t)
  \/ \E c \in Calls : Step(c)
  \/ \E m \in ttl : on_expired(m)
  \/ \E e \in late : LateCredit(e)

Spec == Init /\ [][Next]_vars

\* Fairness: request threads run, RabbitMQ keeps delivering to the consumer, and
\* every hold's time is over at some point.  That the seat service answers at all is
\* CallsAreAnswered of SeatInventory; an answer it fails to give drops the message.
Fairness ==
  /\ \A c \in Calls : WF_vars(Step(c))
  /\ \A m \in Hold : WF_vars(on_expired(m))
  /\ \A t \in Tokens : WF_vars(TimePasses({t}))

FairSpec == Spec /\ Fairness

-------------------------------------------------------------------------------
\* However many confirms, expiries and releases race for a seat, it gets at most
\* one ticket, only once it is sold, and only for the user it was held for.  The
\* ticket service does not check; SellSeat's answer is the only safeguard.
OneTicketPerSeat ==
  \A x \in tickets : x.seat \notin overwritten =>
     /\ ledger[x.seat].status = "sold"
     /\ \A y \in tickets : y.seat = x.seat => y = x
     /\ \E h \in granted : h.seat = x.seat /\ h.user = x.owner

\* The tickets of u among those with an id in K.
TicketsOf(u, K) == {x \in tickets : x.owner = u /\ x.id \in K}

\* Whoever is told "bought" (201) has that ticket and is poorer by its price, for
\* each of them, whatever call failed on the way or took effect late: except a user
\* two of whose balance updates overlapped, who may get two tickets for one price.
ReceiptsArePaid ==
  /\ \A k \in receipts : \E x \in tickets : x.id = k
  /\ \A u \in Users \ raced :
        credits[u] <= InitialCredits - Price * Cardinality(TicketsOf(u, receipts))

\* Balances are right for every user whose balance updates did not overlap: each
\* charged ticket has cost exactly its price.
BalanceExact ==
  \A u \in Users \ raced : credits[u] = InitialCredits - Price * Cardinality(TicketsOf(u, charged))

\* A step leaves every hold in time alone, unless it is the hold's own sale or
\* release, or GetSeatStatus overwriting the row.
KeepsHolds ==
  \A h \in granted :
     HeldBy(h.seat, h.user, h.token) /\ h.token \notin lapsed =>
        \/ ledger'[h.seat] = ledger[h.seat]
        \/ ledger'[h.seat].status = "sold"
        \/ h.token \in givenBack'
        \/ h.seat \in overwritten'

\* No expiry message, compensation or other user's call takes a hold away before
\* its time.
BuyerKeepsHold == [][KeepsHolds]_vars

\* Every hold ends, by sale, release or expiry, even if its user walks away, unless
\* its expiry message was never queued or was dropped, or a release of this very
\* hold was refused before (its token sent under another account) and the refusal
\* is remembered: the expiry message may then be answered with it.
HoldsEnd ==
  \A h \in Hold :
     h \in granted ~> \/ ~HeldBy(h.seat, h.user, h.token)
                      \/ h.token \in unwatched \cup refused

\* "Compensate: release seat back": when the confirm that failed to create a
\* ticket has answered, its seat is not left sold with no ticket.
CompensationFreesSeat ==
  [][\A c \in Calls : pc[c] = "undo_ticket" /\ pc'[c] = "idle" =>
       \/ ledger'[job[c].seat].status # "sold"
       \/ \E x \in tickets : x.seat = job[c].seat]_vars
===============================================================================
