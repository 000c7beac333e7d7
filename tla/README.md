# Verification of the TicketRemaster backend

TLA+ models of the TicketRemaster backend (`src/`), checked with TLC and, where
marked, proved with TLAPS. The models follow the code as it is, including what it
does wrong; the disagreements met between code and documentation are listed under
*Findings*.

## 1. The system

Flask and gRPC micro-services, each with its own PostgreSQL schema, called by
orchestrators over HTTP/gRPC. Redis holds caches and short locks, RabbitMQ delays
and notifications. Credits live in an external OutSystems service.

| Component | State | Operations that change it | Talks to |
|---|---|---|---|
| seat-inventory service (`services/seat-inventory-service`) | `seat_inventory` rows (status, holder, token, heldUntil), Redis `hold:{id}`, `idempotent:release:{id}:{token}` | gRPC HoldSeat, ReleaseSeat, SellSeat, GetSeatStatus; REST `POST /inventory/batch` | PostgreSQL, Redis |
| ticket-purchase orchestrator | none of its own (a gRPC channel pool, a Redis breaker) | hold, release, confirm; dead-letter consumer | seat inventory, tickets, credits, events, RabbitMQ |
| its HTTP client (`service_client.py`) | circuit breaker per service, 4 slots | `call_service` | every HTTP service |
| ticket-service | `tickets` | create, update status/owner/QR | – |
| credit orchestrator, stripe-wrapper, credit-transaction-service | top-up log | initiate, confirm, Stripe webhook | OutSystems credits |
| marketplace orchestrator and service | `listings` | list, delist | tickets |
| transfer orchestrator and transfer-service | `transfers` | initiate, verify, accept, reject, cancel, time-out | tickets, listings, credits, OTP, RabbitMQ |
| ticket-verification orchestrator, ticket-log-service | Redis scan lock, `ticket_logs` | scan, manual verify | tickets |
| qr orchestrator | – (rotates a ticket's QR hash) | generate | tickets |
| otp-wrapper | Redis attempt counters | send, verify | SMS service |
| auth orchestrator, user-service, `shared/token_blacklist.py` | users, revoked tokens | register, login, logout | Redis |
| event orchestrator, event/venue/seat services | catalogue | CRUD | seat inventory |
| notification service, graceful shutdown, telemetry | – | best effort | – |

What is hard in it: row locks and unlocked reads of the same row; Redis entries
written after the commit they describe; RPCs whose answer is lost; sagas that undo
earlier steps in other services; absolute balance writes; messages delivered late,
twice or never; a release, an expiry and a purchase racing for one seat. PROJECT.json
("hazards") lists each at its line.

What makes the parts right:

- *Seat inventory*: a hold in time belongs to its user; a seat is sold once; stored
  release results stay true; the cache never describes a hold that was not granted;
  no path keeps a row lock.
- *Purchase*: one ticket per seat; a receipt is for a ticket, and its price is off the
  balance; exact balances; expiry never takes a hold early; abandoned holds end;
  failed purchases are undone.
- *HTTP client*: slots are neither lost nor doubled; writes are sent once; a failing
  service is left alone; callers are answered.
- *Resale*: a ticket moves only with the consent of both sides, from the seller, for
  one payment; what fails leaves the balances as they were.
- *Gate*: a ticket is let in once; a ticket that was refused is not spent; locks end.
- *Top-up*: a payment is credited once, an answer of 200 means that it is credited, and
  no error path loses or invents credits.
- *Accounts*: addresses are unique; codes the SMU API rejects with 400 are bounded; a
  revoked token stays revoked; a suspension takes effect.

## 2. Modules

| Module | Models | State ↔ code |
|---|---|---|
| `SeatLedger` | the promise of the seat-inventory service: one row per seat, each RPC one step, time reduced to the set of lapsed holds | `ledger` = the table; `granted`, `lapsed` = holds given out / run out |
| `SeatInventory` | `grpc_server.py` and `create_inventory_batch` thread by thread | `row`, `lock` = PostgreSQL; `cache`, `idempotent` = Redis; `pc`, `req`, `attempt`, `read` = a handler's local state |
| `SeatInventoryProofs` | theorems about `SeatInventory`, its refinement of `SeatLedger` among them | – |
| `PurchaseSaga` | `ticket-purchase-orchestrator/routes.py` and `dlx_consumer.py`, on top of `SeatLedger` | `credits`, `tickets` = OutSystems and ticket-service; `ttl` = the hold expiry queue; `late` = timed-out credit writes; `refused` = release failures remembered in Redis; `pc`, `job` = a request's local state |
| `PurchaseSagaProofs` | theorems about `PurchaseSaga` | – |
| `HttpClient` | the purchase orchestrator's `service_client.py` | `slots` = `_http_slots`; `breaker` = `_circuit_breakers`; `call` = a request and its pool thread; `waiting` = callers blocked on their future |
| `HttpClientProofs` | theorems about `HttpClient` | – |
| `Transfer` | marketplace and transfer orchestrators with their services | `tickets`, `listings`, `transfers`, `credits` = the tables; `timeouts` = `transfer_timeout_queue`; `pc`, `job` = a request's local state |
| `TransferProofs` | theorems about `Transfer` | – |
| `TransferOwnerProofs` | who owns a ticket while it is resold (`TakenFromSeller`) | – |
| `Gate` | ticket-verification and QR orchestrators, ticket log | `status`, `qr`, `log` = one ticket; `lock` = Redis `scan_lock`; `seen`, `guard` = what a request read and how it is protected |
| `GateProofs` | theorems about `Gate` | – |
| `TopUp` | credit orchestrator, Stripe wrapper, credit-transaction service | `intents`, `acked` = payments, and those a report of which was answered with 200; `rows` = recorded references; `balance` = OutSystems |
| `TopUpProofs` | theorems about `TopUp` | – |
| `Accounts` | auth orchestrator, user-service, OTP wrapper, token blacklist | `email`, `flaggedAt` = user-service; `pending`, `attempts`, `locked`, `blacklist` = Redis; `tokens` = JWTs handed out |
| `AccountsProofs` | theorems about `Accounts` | – |
| `MC…` | the modules as TLC runs them, with their symmetry sets | – |

`PurchaseSaga` is composed with `SeatLedger` (EXTENDS), which `SeatInventory`
implements (`ImplementsLedger`). The others meet at tables they share: ticket status
(`Transfer`, `Gate`) and balances (`PurchaseSaga`, `Transfer`, `TopUp`). Each contains
the foreign writes that can hurt it as actions of its own: the marketplace's
`list_ticket`, `MarkListed`, `delist` in `Gate`, spending in `TopUp`.

**SeatInventory.** A handler is cut where another thread can get in: HoldSeat is
`HoldSeat` (time and token are drawn) → `HoldLock` (`SELECT … FOR UPDATE`, lapsed
hold reclaimed) → `HoldUpdate` (update and commit) → `HoldCache`; ReleaseSeat is
`ReleaseSeat` → `ReleaseCheck` (idempotency key) → `ReleaseTxn` → `DeleteCache` →
`ReleaseResult`; SellSeat is `SellSeat` → `SellTxn` → `DeleteCache`; GetSeatStatus is
`GetSeatStatus` (unlocked read) → `GetDecide` → `DeleteCache`. A transaction whose
locked part makes no outside call is a single step that requires the lock to be
free. `DbError` is any database error before a commit, with HoldSeat's deadlock
retry; every Redis call may fail; `Tick` moves the clock and expires Redis keys.
`NULL` heldUntil is 0. Callers may send any seat and user id with any token that was
ever granted. New rows are "available": the batch route stores the status it is sent, and
its only caller always sends this one.

**PurchaseSaga.** One action per remote call of `confirm_purchase` (check hold, read
balance, SellSeat, POST ticket, PATCH credits, log) and one per compensation, plus
`hold_seat`, `publish_hold_ttl`, `release_hold` and the consumer `on_expired`. Each
write may report an error though it took effect; a credit PATCH that timed out may
be applied at any later time (`late`, `LateCredit`), which matters because it writes
an absolute balance. A process that dies is one that takes no further step; dying
between HoldSeat and the publication is the same as giving up publishing. The seat
service is `SeatLedger`, whose `Clear` lets GetSeatStatus overwrite any row of a seat
one of whose holds has lapsed; the Redis cache is represented by what
`CacheIsAuthentic` proves of it: a hit is some granted hold.

ReleaseSeat needs more than the ledger, which does not say when a release succeeds. The
service stores a failure under seat and token (`_cache_idempotency_result`) and answers
later calls with it, without looking at the row. This matters when the token is still the
row's own and only the user id was wrong: the holder's later release, and the expiry
message, are then answered with the stored failure while the row stays held. `ReleaseSeat`
of this module therefore has `refused`, the tokens with such a failure: a release with the
right token and somebody else's id (`Misdirected`: a client that changed accounts still
has the old token) may put it there, and from then on a release may do nothing. The key
lives for an hour, longer than any hold, so it is never removed. Failures stored for other
tokens are not kept: such a token is in no row again.

`purchase_compensation_dlq` is declared
nowhere, so RabbitMQ discards what `UndoPay` sends there.

**HttpClient.** A call is two threads: the caller (`call_service`, `Return`,
`GiveUp`) and the pool thread (`run_service_call`, `Attempt`, one action per kind of
answer, `Retry`, `Cancel`, `Release`). Time is what is left of a budget, so the clock
needs no bound. Breaker methods are operators on the breaker's record, applied under
its lock. `failure_count` is kept up to the threshold, the only thing it is compared
with; the backoff's random part (under 0.1 s) is dropped. A call refused for want of a
slot changes nothing and is a stuttering step.

**Transfer.** One action per call of each handler: listing (`list_ticket`,
`MarkListed`, `PostListing`, `UnmarkListed`), delisting, `initiate`, `seller_accept`,
`buyer_verify`, `seller_reject`, `cancel_transfer`, `resend_otp`, `seller_verify` and
its saga (`PayBuyer`, `CreditSeller`, `MoveTicket`, `CloseListing`,
`CompleteTransfer`) with one action per compensation, and the timeout consumer.
Handlers decide on the row they read first; what they write is checked against the
row by the services alone (`update_ticket`'s list of statuses, `patch_transfer`'s list
of fields: the consumer's cancellation is refused by the latter, so only the listing
is reopened). A GET of an overdue transfer expires it (`read_transfer`).

**Gate.** One ticket. `scan` reads it before `AcquireLock`; `manual_verify` takes no
lock; then both run the same checks (`CheckTicket`, `DuplicateCheck`), `MarkUsed` and
`LetIn`, of which the last two ignore the answers they get. The lock expires on its
own (`LockExpires`), Redis may be unreachable ("no-lock"), `Kill` skips the `finally`.

**TopUp.** The app's `confirm_topup` and Stripe's `stripe_webhook` both go through
`CheckReference`, `ReadBalance`, `WriteBalance`, `LogTransaction`; any of them may fail
with or without effect. A report of a payment may come any number of times, or never. The
two routes record a payment under the same reference because the wrapper never passes
the event's id on. That a paid amount is credited in the end is not claimed: it would
need Stripe's events to arrive, and the gateway of this repository sends
`/webhooks/stripe` to user-service, which has no such route, and asks for an API key on
`/credits/topup/webhook` (`api-gateway/kong.yml.template:56-62`, `176-189`). Claimed is what
the code can answer for: a report answered with 200, which nobody repeats, has been
credited (`AckedIsCredited`).

**Accounts.** Registration, verification, login, logout, `require_auth`, change of
address and flags. Redis failing lets attempts and tokens through, as in the code. A login
reads `isFlagged` with the user (`login`) and mints the token after the password check
(`CheckPassword`); time may pass, and a flag be set, in between. Of the SMU API's answers
to a code (`SmuAnswers`) only a 400 is counted as a wrong code; one of 200 that does not
verify it is answered `verified: false` and counted nowhere.

History variables (`grants`, `released`, `sales`, `overwritten`, `givenBack`,
`unwatched`, `raced`, `charged`, `receipts`; `confirmed`, `moved`, `settled`, `net`,
`doubled`, `unmarked` …; `exposed`, `lapsed`; `credited`, `overlapped`, `unsure`; `streak`,
`quiet`, `sent`; `rejected`, `reused`, `took` of a token) record what happened and what callers were told; no guard
of an action of the code reads them, except that a client only sends tokens it was
given and `uuid4` never repeats one.

## 3. Runs

| Run | Checks | Instance |
|---|---|---|
| `seat_safety` | `TypeOK`, `HoldHonoured`, `SoldOnce`, `OverwriteNeedsLapse`, `ReleaseAckIsFinal`, `CacheAuthentic` | 1 seat, 2 users, 2 tokens, 2 threads, hold of 1, key of 2, clock to 2, 2 attempts |
| `seat_live` | `CallsAreAnswered`, `ImplementsLedger` (refinement) | 1 seat, 1 user, 2 tokens, 2 threads, clock to 1, 2 attempts |
| `seat_readonly` | `SoldRowIsLeftAlone` is violated | as above, 1 token |
| `purchase_safety` | `TypeOK`, `OneTicketPerSeat`, `ReceiptsArePaid`, `BalanceExact`, `BuyerKeepsHold` | 2 seats, 1 user with 2 credits, 2 tokens, 2 requests |
| `purchase_live` | `HoldsEnd` | 1 seat, 2 users, 2 tokens, 1 ticket, 1 request |
| `purchase_compensation` | `CompensationFreesSeat` is violated | 1 seat, 1 user, 1 request |
| `http` | `TypeOK`, `OutstandingBounded`, `WritesSentOnce`, `FailingServiceRests`, `CallersAnswered` | 1 service, 3 callers, 2 slots, budget 2, 1 retry, threshold 2, recovery 2 |
| `transfer_safety` | `TypeOK`, `ConsentBeforeMove`, `TransferBalancesExact`, `ChargedOnce`, `TakenFromSeller` | 1 ticket, 3 users, 1 listing, 2 transfers, 2 requests, 1 mishap |
| `transfer_compensation` | `CompensationReturnsTicket` is violated | as above, 2 users, 1 transfer, 1 request |
| `gate` | `TypeOK`, `AdmittedOnce`, `LockExcludes`, `UsedMeansAdmitted`, `LockIsFreed` | 2 members of staff, 1 QR hash, any number of failures |
| `topup` | `TypeOK`, `CreditedOnce`, `TopUpExact`, `AckedIsCredited` | 1 user, 2 payments, 2 requests, 1 mishap, 1 credit spent |
| `accounts` | `TypeOK`, `EmailUnique`, `RejectedBounded`, `RevokedIsRefused`, `SuspensionTakesEffect` | 2 users, 1 address, 1 JWT, 2 requests, limit of 2, tokens valid for 2, clock to 3, 1 mishap |

*Bounds.* Seats do not interact inside the inventory service, so one is enough there;
two threads give every pairwise race on it, and two tokens let a hold lapse and be
replaced while calls about the first are still under way. The number of tokens
bounds the holds, `MaxTime` the clock, `MaxDeadlockRetries` the attempts. A clock of
2 with holds of 1 covers before, at and after the expiry, and an idempotency key
that outlives its hold. Requests are reused, so two of them give arbitrarily many
calls, two at a time. `purchase_safety` has one user because all its properties are
proved for any number of them (section 5). `purchase_live` has two, so that a release can
be sent under the wrong one. The second attempt of `seat_live` is HoldSeat's retry after a
deadlock.

In `http`, three callers on two slots fill the slots; two calls under way at once let
results arrive after the breaker opened, and a budget as long as the recovery lets
them arrive after it became half-open. In the other runs a *mishap* is a call that
reports an error (applied or not), a killed process or a transfer that runs out of
time; one of them at any point, with two requests running, reaches each compensation
and each retry once. Two mishaps were out of reach for `Transfer` (one further fault
on top of a fault in the middle of a compensation is therefore not covered). One
listing, two transfers and three users give two transfers of one listing to two different
buyers, open at the same time. A second listing, and with it a resale by the buyer, takes
13 million states and passed outside the run's bounds; `TakenSafe` covers it. In `gate` nothing
is bounded but the admissions counted. One address for two users is what a conflict
needs; with an expiry of 2 and a clock to 3, `accounts` sees a token and its blacklist
key at, before and after their ends, and the end of one whose login took a unit of time.

TLC uses symmetry only in runs without liveness properties.

*Deadlock* is checked wherever the instance has no bound to run into: clients may
always call again. `Transfer` and `Accounts` stop when the ids, the mishaps and the
clock of the instance are used up.

*Fairness.* `SeatInventory!FairSpec` assumes strong fairness of each thread's own
steps: the server's thread pool runs every thread, and PostgreSQL serves the waiters
of a row lock in order, so a waiter is not passed over for ever. Calls, errors and
the clock are not fair. `PurchaseSaga!FairSpec` assumes weak fairness of each
request's steps, of the delivery of a queued message that is due (RabbitMQ redelivers
until acknowledged) and of time passing. A request may end at any step with an
error, so nothing is assumed about services being up. `HttpClient` assumes that time
passes and that a request thread that may go on does (weak fairness), and nothing of
pool threads, which may block for ever. `Gate` assumes only that Redis expires keys.
`Transfer`, `TopUp` and `Accounts` have safety properties only and assume no fairness.

## 4. Findings

1. **GetSeatStatus is not read-only** (`seat_readonly`). It reads the row unlocked and,
   if the hold it read has expired, writes `available` by primary key. A SellSeat
   (which accepts lapsed holds) committing in between is undone. The theorems say how
   far this reaches: only seats of which some hold ran out (`OverwritesNeedLapses`);
   everything else is unaffected (`HoldsAreHonoured`, `SalesAreFinal`).
2. **The saga's compensation never releases the seat** (`purchase_compensation`).
   ReleaseSeat needs a held row with the caller's token; SellSeat has just cleared
   both. A failed ticket creation leaves a sold seat without a ticket.
3. **The transfer's compensation leaves the ticket with the buyer**
   (`transfer_compensation`). It PATCHes the ticket with status "sold", which the ticket
   service does not know; the PATCH is refused as a whole and both balances are
   restored.

Noted while modelling, and built into the models as the code has it:

- *Overlapping balance updates are lost.* Purchases, transfers and top-ups write
  absolute balances read earlier; two confirms of one user that overlap both succeed
  and are charged once. `BalanceExact`, `TransferBalancesExact` and `TopUpExact` name
  the users concerned (`raced`) and show that all others are exact.
- *A payment can be credited twice* when confirmation and webhook overlap, or when the
  record of the first could not be written (`CreditedOnce` names both).
- *A ticket can be let in twice* when `manual_verify`, which takes no lock, or a scan
  that outlived its lock overlaps another (`AdmittedOnce`).
- *The circuit breaker counts late results.* A success that comes in while it is open
  clears the failures; a failed probe then does not reopen it, and a half-open breaker
  lets any number of calls through. `FailingServiceRests` is what is left: a service
  that has only failed is left alone for the recovery time.
- *An expired transfer can be cancelled.* `cancel_transfer` refuses completed, cancelled and
  failed transfers (its docstring: "Transfer already completed or ended"), not expired
  ones, and sets the listing to active whatever has become of it. Cancelling an old
  transfer after the ticket was sold through another puts the sold ticket back on the
  market, and the next buyer can open a transfer of it. What then stands between the first
  buyer and the loss of the ticket is that the old seller has to enter a one-time password
  again; no code looks at the owner. `TakenFromSeller` says just this (`SoldOnceEach`).
- *A failed release is remembered under the token, not the user.* See `refused` above.
- *Wrong codes are bounded only if the SMU API rejects them with 400.* An answer of 200 that
  does not verify the code (`otp-wrapper/routes.py:273-287`, and
  `tests/test_otp_wrapper.py:97-106`) is not counted, so no limit applies to it.
- *A login that is under way when its user is flagged* still gets a token with a full
  lifetime; `SuspensionTakesEffect` allows for the time it took.
- The transfer timeout's cancellation carries fields the transfer service refuses, so
  only the listing is reopened; the transfer itself ends by its own expiry.
- Only the auth orchestrator consults the token blacklist, though its docstring calls it
  shared. The OTP wrapper documents a 429 for sending, for which there is no code.
  `register` speaks of requesting the code again and of credits being initialised on
  first use; nothing does either.
- Password reset, and publishing, cancelling and deleting events, always end in a 500.

## 5. Proofs

**`SeatInventoryProofs`.** For all finite or infinite sets of seats, users, tokens and threads, and all positive
durations and bounds (`NullAssumption`, `TimeAssumption`):

| Theorem | Statement |
|---|---|
| `TypeCorrect` | `Spec => []TypeOK` |
| `HoldsAreHonoured` | `Spec => []HoldHonoured` |
| `SalesAreFinal` | `Spec => []SoldOnce` |
| `OverwritesNeedLapses` | `Spec => []OverwriteNeedsLapse` |
| `ReleaseAnswersAreFinal` | `Spec => []ReleaseAckIsFinal` |
| `CacheIsAuthentic` | `Spec => []CacheAuthentic` |
| `Refinement` | `Spec => ImplementsLedger` |

None of the properties is inductive alone. `IInv` adds, each with a step lemma of its
own: `LockInv` (the row lock belongs to the one thread between lock and commit),
`ClockInv` (a thread's `now` is not in the future), `TokenInv` (tokens are unique over
grants and pending holds), `RowInv` (a held row is a grant, any other row is bare),
`UpdateInv` (a locked row is still free or lapsed when it is written), `ReadInv` (what
GetSeatStatus read was a grant), `CacheInv` (a thread about to fill the cache has
committed) and `ReleaseInv` (a released token is in no row any more). `HoldHonoured`
needs most of them: HoldSeat may only replace a row that is free or lapsed
(`UpdateInv`), a lapsed hold is not live since clocks only grow, and ReleaseSeat and
SellSeat remove exactly the hold their token names (`TokenInv`, `RowInv`). Steps that
leave all other rows alone are handled once, in `HonourFrame`.

`Refinement` maps rows, grants and the clock to the ledger (a hold is lapsed when its end
is not after the clock) and shows that each step is a ledger step or a stutter, one lemma
per kind of step (`HoldMaps`, `ReleaseMaps`, `SellMaps`, `GetMaps`, `BatchMaps`,
`TickMaps`). Only the steps that commit are visible. `HoldMaps` needs `UpdateInv` and
`TokenInv`: what the lock found free or lapsed is so at the commit, by the ledger's account
too, and the token is new. `GetMaps` needs `ReadInv`: what the unlocked read found lapsed
was a grant of this seat, so the late write is the ledger's `Clear`.

**`PurchaseSagaProofs`.** For all sets of seats, users, tokens, requests and ticket
ids, any positive price and any initial balance (`LedgerNull`, `PriceAssumption`,
`NoTicket`):

| Theorem | Statement |
|---|---|
| `SagaTypeCorrect` | `Spec => []TypeOK` (no balance becomes negative) |
| `OneTicket` | `Spec => []OneTicketPerSeat` |
| `ReceiptsPaid` | `Spec => []ReceiptsArePaid` (in money: the balance is down by the price of every receipted ticket) |
| `BalancesAreExact` | `Spec => []BalanceExact` |
| `HoldsAreKept` | `Spec => BuyerKeepsHold` (an action property) |

`SagaSafe` proves the inductive invariant `SagaInv`, one step lemma per part:
`RowInv` and `TokenInv` (as above, of the ledger), `JobInv` (a request only has tokens
of its own user), `SpentInv` (after the sale its token is in no row: this is why a
compensation can take nobody's hold, and also why it releases nothing, finding 2),
`SaleInv` (a sold seat whose ticket is still to be made has no ticket and no second
request making one), `ChargedInv` and `PaidInv` (receipts, charges and payments under way
are for tickets that exist, and a receipt is for a ticket that was charged),
`WindowInv` (a user who has not raced has at most one balance update under way, and
it agrees with the balance) and `UnpaidInv` (it is the owner's, not yet made, and the
only one for its ticket). `BalanceExact` then follows because each payment adds one
charged ticket (`ChargeOne`) and takes one price (`PayOne`); `ReceiptsArePaid` follows from
it, as the receipted tickets are among the charged ones (`ReceiptsInBalance`); it says
nothing of users two of whose updates overlapped, who may be charged once for two tickets.
`HoldsAreKept` is read
off the same invariant, step by step (`KeepStep`).

**`HttpClientProofs`.** For all sets of services and request threads and all settings
(`SettingsAssumption`; `BackoffAssumption` says that each backoff is a number, which
the prover cannot find out about `2 ^ n` by itself; TLC evaluates it):

| Theorem | Statement |
|---|---|
| `TypeCorrect` | `Spec => []TypeOK` |
| `SlotsSafe` | `Spec => []OutstandingBounded` |
| `SendsSafe` | `Spec => []WritesSentOnce` |
| `RestSafe` | `Spec => FailingServiceRests` (an action property) |

`IInv` has `SlotInv` (free slots plus pool threads at work, counted, are the limit:
`Release` comes after every way a pool thread can go), `CallInv` (`SentAt`: how often a
call was sent, by the step its thread is at; a write has one attempt) and `HalfOpenInv`.
`FailingServiceRests` compares the breaker with what truly happened, so it needs
`BreakerInv`: the breaker's failure count is at least the failures in a row, its clock is
the time since the last one, and from the threshold on it is open or has rested. The
count may be higher (a success only resets it in the closed state), never lower.

**`TransferProofs`.** For all sets of users, tickets, listings, transfers and requests,
any positive price and any number of mishaps (`PriceAssumption`, `MishapAssumption`,
`NullAssumption`):

| Theorem | Statement |
|---|---|
| `TypeCorrect` | `Spec => []TypeOK` (no balance becomes negative) |
| `ConsentSafe` | `Spec => []ConsentBeforeMove` |
| `ChargeSafe` | `Spec => []ChargedOnce` |
| `BalancesSafe` | `Spec => []TransferBalancesExact` |

`Basics` proves what the rest stands on: rows that exist are filled in, a transfer is of
somebody else's listing, and every step of a request finds the rows it is about (`Fits`).
`Frames` says which actions write which variable, `TransfersPersist` and
`ListingsPersist` that a row keeps its parties and its confirmations whatever PATCH comes
late, `Moves` how a request can come to a step of the sale. Then three inductive
invariants. `ConsentInv`: the buyer has confirmed whenever `buyerOtpVerified` is set or a
request is past that check, both sides once a sale runs. `ChargeInv`: for a transfer that
is not excepted there is one sale at a time, one that is past the password has
`sellerOtpVerified` set, and a settled transfer has the mark and no sale running, so that
the guard of `seller_verify` keeps every later one out. `BalanceInv`: a balance that is
not excepted is in the hands of at most one sale, which has read what is due
(`InitialCredits + Price * net`), and is off by exactly what the steps so far, and the
compensation so far, make of it.

**`TransferOwnerProofs`** proves `TakenSafe`, `Spec => TakenFromSeller` (an action
property), under the same assumptions. Step 5 of the saga writes the new owner whoever the
old one is, so the property rests on the whole history of the ticket's transfers. It speaks
of tickets no seller of which confirmed two transfers, or one of them twice
(`SoldOnceEach`), so a user who bought a ticket back and sells it again is outside it too;
how many transfers are open beside one another, and what timeouts, late cancels and stale
writes do to them and to the listing, is not restricted. `Requests` first says how a
request can go from step to step; `OwnersSafe` then proves the inductive invariant
`OwnersInv`: beside `ConsentInv` and `ChargeInv`, that the saga of a transfer that has moved
the ticket only goes on to its end, and `sellerOtpVerified` keeps any other out
(`MovedInv`); that a sale is about the ticket of its listing (`TicketInv`); and that whoever
has listed a ticket, or is about to, and has not sold it, owns it (`OwnerInv`). `Takes`
combines them: if the seller of a sale that comes to the move had sold the ticket already,
it would have been by a transfer confirmed by that seller, hence by this one, which by
`MovedInv` is past its move.

**`GateProofs`.** For any number of requests and QR codes (`StaffAssumption`):
`TypeCorrect`, `LockSafe` (`LockExcludes`), `EntrySafe` (`AdmittedOnce`) and `UsedSafe`
(`UsedMeansAdmitted`). `HolderInv`: who acquired the lock and was not outlived by it holds
it, as releasing compares the token. `EntryInv`: unless the log was defeated, an admission
is on record, nobody is past the duplicate check once there is a record, and never two
requests at a time.

**`TopUpProofs`.** For any number of users, payments and requests, any amount
(`AmountAssumption`, `NullAssumption`): `TypeCorrect`, `CreditSafe` (`CreditedOnce`),
`BalanceSafe` (`TopUpExact`) and `AckSafe` (`AckedIsCredited`). `GuardInv`: for a payment that no two requests met at and
whose record can be trusted, a credited payment is on record or about to be put there, and
a request past the look at the record is for one not credited yet. `BalanceInv`: what a
request read is still the balance when it writes. `AckInv`: what is on record, or about to
be put there, has been credited.

**`AccountsProofs`.** For all sets of users, addresses, tokens and any finite set of
requests (`CallsAssumption`: `RejectedBounded` counts them; `TimeAssumption`,
`AttemptsAssumption`, `NullAssumption`):

| Theorem | Statement | Needs |
|---|---|---|
| `TypeCorrect` | `Spec => []TypeOK` | `Typed`: every step finds in its job what it needs |
| `EmailSafe` | `Spec => []EmailUnique` | – |
| `RejectedSafe` | `Spec => []RejectedBounded` | `GuessInv`: codes rejected with 400 are counted, about to be counted or were not for want of Redis; requests still allowed to guess are part of the bound |
| `RevocationSafe` | `Spec => []RevokedIsRefused` | `SessionInv`: the blacklist key of a token outlives it |
| `SuspensionSafe` | `Spec => []SuspensionTakesEffect` | `LoginInv`: a login under way began no later than the flag of its user; `SessionInv`: a login token ends at most a lifetime and the time its login took after the flag |

Every safety invariant, every action property and the refinement that the passing runs
check are thus proved. Only model-checked: liveness under fairness (`CallsAreAnswered`,
`HoldsEnd`, `CallersAnswered`, `LockIsFreed`), which is beyond the prover.

## 6. Not modelled

Payload validation, formatting, logging and authentication (beyond `Accounts`); prices
that change between two requests; credits moved by another saga inside one module's
instance, except where section 2 says so; ticket creation that takes effect only after
its time-out (it is modelled as having taken effect at the time-out, which no property
can tell apart, as the seat is sold in either case). Clocks of different hosts are
taken to agree, and the expiry queue to use the same duration as the holds (the two
read the same environment variable, with different defaults). The Redis breaker and
the gRPC channel pool of the purchase orchestrator are "the cache may miss" and "the
call may fail". One-time passwords are right or wrong, decided outside. The OTP wrapper
is deployed with one synchronous worker; the model allows several requests at once.

Parts without a module: the catalogue (events, venues, seats: rows that are created and
read, of which only the seats put on sale matter elsewhere), favourites, password-reset
tokens (`reset_password` and `verify_reset_token` compare a naive `expiresAt` with an aware
time and always end in a 500, so a token decides nothing), the arrival of Stripe's events,
`POST /transfers/{id}/cancel` (no caller), the notification service (nothing reads what
it does), graceful shutdown, telemetry and secrets (no state of the system), gateway
configuration, manifests, scripts and generated code.

## 7. Plan

1. `SeatLedger`, `SeatInventory`, `PurchaseSaga` and the proofs about them – done.
2. `HttpClient`, `Transfer`, `Gate`, `TopUp`, `Accounts`, model-checked – done.
3. Proofs of the safety properties of `HttpClient`, `Gate`, `TopUp`, `Accounts` and
   `Transfer`, and of the refinement `SeatInventory => SeatLedger` – done.
4. Left: nothing that the prover can reach; the liveness properties stay with TLC.
