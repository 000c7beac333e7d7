------------------------------- MODULE Transfer -------------------------------
(***************************************************************************)
(* Resale of tickets: orchestrators/marketplace-orchestrator puts a ticket *)
(* on the market, orchestrators/transfer-orchestrator moves it to a buyer  *)
(* once both sides confirmed with a one-time password.  The transfer,      *)
(* marketplace, ticket and credit services are their tables.               *)
(*                                                                         *)
(* A step is one call to another service with what the handler does with   *)
(* the answer; every other request may act between two steps.  Any write   *)
(* may report an error, whether or not it was applied; MaxMishaps bounds    *)
(* how often.  Reads that change nothing (users, names, enrichment) and    *)
(* broadcasts are left out, a request that is refused is a stuttering step *)
(* unless its GET lets a transfer expire, and a handler that dies takes no *)
(* further step.                                                           *)
(***************************************************************************)
EXTENDS Integers, FiniteSets, Functions

CONSTANTS Users, Tickets,
          ListingIds, TransferIds,  \* uuid4 of the rows the services create
          Calls,                    \* request threads, the timeout consumer among them
          Price,                    \* asking price of every listing
          InitialCredits,           \* every user's balance to begin with
          MaxMishaps,               \* bound: calls that fail, transfers that run out of time
          Null

ASSUME PriceAssumption == Price \in Nat \ {0} /\ InitialCredits \in Nat
ASSUME MishapAssumption == MaxMishaps \in Nat
ASSUME NullAssumption == Null \notin Users \cup Tickets \cup ListingIds \cup TransferIds

VARIABLES credits,     \* OutSystems: the balance of each user
          tickets,     \* ticket-service: owner and status of each ticket
          listings,    \* marketplace-service: its rows
          transfers,   \* transfer-service: its rows
          overdue,     \* transfers whose expiresAt is over
          timeouts,    \* transfer_timeout_queue
          mishaps,     \* how many of those there were
          pc,          \* pc[c]: the step request c is at
          job,         \* job[c]: what it is about and what it has read
          \* History.
          confirmed,   \* <<t, side>>: this side entered a correct one-time password
          moved,       \* transfers that gave the ticket to their buyer
          settled,     \* settled[t]: sagas of t that ran to their end
          net,         \* net[u]: tickets u sold less tickets u bought, by such sagas
          raced,       \* users whose balance two sagas had in hand at once
          misreported, \* users with a credit write that was reported wrongly
          doubled,     \* transfers with two seller_verify requests at once
          unmarked     \* transfers whose sellerOtpVerified was not written

tables == <<credits, tickets, listings, transfers>>
history == <<confirmed, moved, settled, net, raced, misreported, doubled, unmarked>>
vars == <<credits, tickets, listings, transfers, overdue, timeouts, mishaps, pc, job,
          confirmed, moved, settled, net, raced, misreported, doubled, unmarked>>

-------------------------------------------------------------------------------
ALLOWED_STATUS_VALUES == {"active", "listed", "used", "pending_transfer"}

Ticket == [owner : Users, status : ALLOWED_STATUS_VALUES]

Listing == [ticket : Tickets \cup {Null}, seller : Users \cup {Null},
            status : {"none", "active", "completed", "cancelled"}]

Pending == {"pending_seller_acceptance", "pending_buyer_otp", "pending_seller_otp"}

\* The verification sids are left out: each is written together with the status
\* that asks for it.  "none" stands for a row that does not exist yet.
TransferRow == [listing : ListingIds \cup {Null}, buyer : Users \cup {Null},
                status : Pending \cup {"none", "completed", "cancelled", "failed", "expired"},
                buyerOtpVerified : BOOLEAN, sellerOtpVerified : BOOLEAN]

Job == [user : Users \cup {Null}, ticket : Tickets \cup {Null},
        listing : ListingIds \cup {Null}, transfer : TransferIds \cup {Null},
        buyerBalance : Nat, sellerBalance : Nat]

\* The steps of _execute_saga that follow the two balance reads.
Saga == {"pay", "earn", "move", "close_listing", "complete",
         "undo_listing", "undo_move", "undo_earn", "undo_pay"}

Pc == Saga \cup {"idle", "mark_listed", "post_listing", "unmark_listed", "cancel_listing",
                 "unlist", "post_transfer", "ask_buyer", "check_buyer_otp",
                 "ask_seller", "end_transfer", "reopen_listing", "relist", "check_seller_otp",
                 "buyer_balance", "seller_balance", "mark_failed", "timeout_listing", "accept"}

\* Tables, requests and history hold what their columns and fields allow; in
\* particular no saga drives a balance below zero or invents a ticket status.
TypeOK ==
  /\ credits \in [Users -> Nat]
  /\ tickets \in [Tickets -> Ticket]
  /\ listings \in [ListingIds -> Listing]
  /\ transfers \in [TransferIds -> TransferRow]
  /\ overdue \subseteq TransferIds /\ timeouts \subseteq TransferIds
  /\ mishaps \in 0..MaxMishaps
  /\ pc \in [Calls -> Pc] /\ job \in [Calls -> Job]
  /\ confirmed \subseteq TransferIds \X {"buyer", "seller"}
  /\ moved \subseteq TransferIds /\ settled \in [TransferIds -> Nat]
  /\ net \in [Users -> Int]
  /\ raced \subseteq Users /\ misreported \subseteq Users
  /\ doubled \subseteq TransferIds /\ unmarked \subseteq TransferIds

-------------------------------------------------------------------------------
NoListing == [ticket |-> Null, seller |-> Null, status |-> "none"]

NoTransfer == [listing |-> Null, buyer |-> Null, status |-> "none",
               buyerOtpVerified |-> FALSE, sellerOtpVerified |-> FALSE]

NoJob == [user |-> Null, ticket |-> Null, listing |-> Null, transfer |-> Null,
          buyerBalance |-> 0, sellerBalance |-> 0]

Buyer(t) == transfers[t].buyer
Seller(t) == listings[transfers[t].listing].seller
TicketOf(t) == listings[transfers[t].listing].ticket

Begin(c, step, j) ==
  /\ pc[c] = "idle"
  /\ pc' = [pc EXCEPT ![c] = step]
  /\ job' = [job EXCEPT ![c] = j]

Goto(c, step) == pc' = [pc EXCEPT ![c] = step] /\ UNCHANGED job

Answer(c) == pc' = [pc EXCEPT ![c] = "idle"] /\ job' = [job EXCEPT ![c] = NoJob]

\* call_service returned (None, error), or time has run out.
Mishap == mishaps < MaxMishaps /\ mishaps' = mishaps + 1

\* call_service returned an answer.
Answered == UNCHANGED mishaps

\* Mutant: the new status is not checked.
update_ticket_any(k, owner, status) ==
  tickets' = [tickets EXCEPT ![k] = [owner |-> owner, status |-> status]]

\* ticket-service, PATCH /tickets/{id}: an unknown status is a 400.
update_ticket(k, owner, status) ==
  tickets' = IF status \in ALLOWED_STATUS_VALUES
               THEN [tickets EXCEPT ![k] = [owner |-> owner, status |-> status]] ELSE tickets

\* marketplace-service, PATCH /listings/{id}: any status replaces any other.
update_listing(l, status) == listings' = [listings EXCEPT ![l].status = status]

\* transfer-service: the transfer has run out and its row does not say so yet.
is_transfer_expired(t) ==
  t \in overdue /\ transfers[t].status \notin {"completed", "cancelled", "expired"}

\* GET /transfers/{id}: reading a transfer that has run out ends it.
get_transfer(t) ==
  transfers' = IF is_transfer_expired(t) THEN [transfers EXCEPT ![t].status = "expired"]
                 ELSE transfers

\* PATCH /transfers/{id}: refused (400) once the transfer has run out; otherwise
\* whatever the row holds is replaced.
patch_transfer(t, row) ==
  transfers' = IF is_transfer_expired(t) THEN [transfers EXCEPT ![t].status = "expired"]
                 ELSE [transfers EXCEPT ![t] = row]

SetStatus(t, status) == patch_transfer(t, [transfers[t] EXCEPT !.status = status])

\* A write whose result the handler does not look at.
Attempt(Write, table) == (Write /\ Answered) \/ (Mishap /\ UNCHANGED table)

-------------------------------------------------------------------------------
\* Every ticket starts with the user who bought it.
Init ==
  /\ credits = [u \in Users |-> InitialCredits]
  /\ tickets \in [Tickets -> [owner : Users, status : {"active"}]]
  /\ listings = [l \in ListingIds |-> NoListing]
  /\ transfers = [t \in TransferIds |-> NoTransfer]
  /\ overdue = {} /\ timeouts = {} /\ mishaps = 0
  /\ pc = [c \in Calls |-> "idle"] /\ job = [c \in Calls |-> NoJob]
  /\ confirmed = {} /\ moved = {} /\ settled = [t \in TransferIds |-> 0]
  /\ net = [u \in Users |-> 0]
  /\ raced = {} /\ misreported = {} /\ doubled = {} /\ unmarked = {}

\* A transfer's 24 hours are over.
TimePasses(t) ==
  /\ transfers[t].status # "none" /\ t \notin overdue
  /\ overdue' = overdue \cup {t} /\ Mishap
  /\ UNCHANGED <<tables, timeouts, pc, job, history>>

-------------------------------------------------------------------------------
\* marketplace-orchestrator.

\* GET /tickets/{id} and GET /listings/{id}: the row as it is.
get_ticket(k) == tickets[k]
get_listing(l) == listings[l]

\* POST /marketplace/list: the owner's active ticket.
list_ticket(c, u, k) ==
  /\ get_ticket(k) = [owner |-> u, status |-> "active"]
  /\ NoListing \in Range(listings)  \* bound: an id is left
  /\ Begin(c, "mark_listed", [NoJob EXCEPT !.user = u, !.ticket = k])
  /\ UNCHANGED <<tables, overdue, timeouts, mishaps, history>>

\* The ticket becomes listed; after an error the request ends.
MarkListed(c) ==
  LET k == job[c].ticket IN
  /\ pc[c] = "mark_listed"
  /\ \/ update_ticket(k, tickets[k].owner, "listed") /\ Answered /\ Goto(c, "post_listing")
     \/ /\ Mishap /\ (update_ticket(k, tickets[k].owner, "listed") \/ UNCHANGED tickets)
        /\ Answer(c)
  /\ UNCHANGED <<credits, listings, transfers, overdue, timeouts, history>>

\* POST /listings: one more active listing, whether or not the ticket has one.
create_listing(k, u) ==
  \E l \in ListingIds :
    /\ listings[l] = NoListing
    /\ listings' = [listings EXCEPT ![l] = [ticket |-> k, seller |-> u, status |-> "active"]]

PostListing(c) ==
  /\ pc[c] = "post_listing"
  /\ \/ create_listing(job[c].ticket, job[c].user) /\ Answered /\ Answer(c)
     \/ /\ Mishap /\ (create_listing(job[c].ticket, job[c].user) \/ UNCHANGED listings)
        /\ Goto(c, "unmark_listed")
  /\ UNCHANGED <<credits, tickets, transfers, overdue, timeouts, history>>

\* "Compensate — revert ticket status".
UnmarkListed(c) ==
  LET k == job[c].ticket IN
  /\ pc[c] = "unmark_listed"
  /\ Attempt(update_ticket(k, tickets[k].owner, "active"), tickets)
  /\ Answer(c)
  /\ UNCHANGED <<credits, listings, transfers, overdue, timeouts, history>>

\* DELETE /marketplace/{id}: the seller's active listing; its transfers go on.
delist(c, l) ==
  /\ get_listing(l).status = "active"
  /\ Begin(c, "cancel_listing", [NoJob EXCEPT !.listing = l])
  /\ UNCHANGED <<tables, overdue, timeouts, mishaps, history>>

CancelListing(c) ==
  /\ pc[c] = "cancel_listing"
  /\ \/ update_listing(job[c].listing, "cancelled") /\ Answered /\ Goto(c, "unlist")
     \/ /\ Mishap /\ (update_listing(job[c].listing, "cancelled") \/ UNCHANGED listings)
        /\ Answer(c)
  /\ UNCHANGED <<credits, tickets, transfers, overdue, timeouts, history>>

Unlist(c) ==
  LET k == listings[job[c].listing].ticket IN
  /\ pc[c] = "unlist"
  /\ Attempt(update_ticket(k, tickets[k].owner, "active"), tickets)
  /\ Answer(c)
  /\ UNCHANGED <<credits, listings, transfers, overdue, timeouts, history>>

-------------------------------------------------------------------------------
\* transfer-orchestrator: opening a transfer.

\* POST /transfer/initiate on an active listing of somebody else.
initiate(c, u, l) ==
  /\ get_listing(l).status = "active" /\ get_listing(l).seller # u
  /\ NoTransfer \in Range(transfers)  \* bound: an id is left
  /\ Begin(c, "post_transfer", [NoJob EXCEPT !.user = u, !.listing = l])
  /\ UNCHANGED <<tables, overdue, timeouts, mishaps, history>>

\* POST /transfers.  The listing stays active.
create_transfer(c, t) ==
  /\ transfers[t] = NoTransfer
  /\ transfers' = [transfers EXCEPT ![t] =
       [NoTransfer EXCEPT !.listing = job[c].listing, !.buyer = job[c].user,
                          !.status = "pending_seller_acceptance"]]

\* 402 unless the balance covers the price, then the row is created.
PostTransfer(c) ==
  /\ pc[c] = "post_transfer"
  /\ \/ \E t \in TransferIds :
          /\ credits[job[c].user] >= Price /\ create_transfer(c, t) /\ Answered
          /\ pc' = [pc EXCEPT ![c] = "ask_buyer"]
          /\ job' = [job EXCEPT ![c].transfer = t]
     \/ /\ credits[job[c].user] >= Price /\ Mishap /\ Answer(c)
        /\ \E t \in TransferIds : create_transfer(c, t)
     \/ /\ (credits[job[c].user] < Price /\ Answered) \/ Mishap
        /\ Answer(c) /\ UNCHANGED transfers
  /\ UNCHANGED <<credits, tickets, listings, overdue, timeouts, history>>

\* The message normally is not published: declare_queues has made the queue without
\* the arguments _publish_transfer_timeout asks for.  Had that failed at startup, it
\* would be queued, and consumed at once, the consumer being on this very queue.
publish_transfer_timeout(t) ==
  \/ Answered /\ UNCHANGED timeouts
  \/ Mishap /\ timeouts' = timeouts \cup {t}

\* The buyer is sent a one-time password and the transfer waits for it; without
\* one the request ends and the status stays as it is.
AskBuyer(c) ==
  LET t == job[c].transfer IN
  /\ pc[c] = "ask_buyer"
  /\ \/ SetStatus(t, "pending_buyer_otp") /\ publish_transfer_timeout(t)
     \/ Mishap /\ UNCHANGED <<transfers, timeouts>>
  /\ Answer(c)
  /\ UNCHANGED <<credits, tickets, listings, overdue, history>>

-------------------------------------------------------------------------------
\* A seller_verify of t, up to its answer.
Verifying(t) ==
  \E d \in Calls : /\ job[d].transfer = t
                   /\ pc[d] \in Saga \cup {"check_seller_otp", "buyer_balance", "seller_balance",
                                           "mark_failed"}

\* A request about t starts: is it a seller_verify beside another one of t?
Meets(t, step) ==
  /\ doubled' = IF step = "check_seller_otp" /\ Verifying(t) THEN doubled \cup {t} ELSE doubled
  /\ UNCHANGED <<confirmed, moved, settled, net, raced, misreported, unmarked>>

\* transfer-orchestrator: the two sides confirm.  A handler starts from a GET,
\* which ends a transfer that has run out (read_transfer) and refuses it then.
Starts(c, t, step) ==
  /\ ~is_transfer_expired(t)
  /\ Begin(c, step, [NoJob EXCEPT !.transfer = t])
  /\ Meets(t, step)
  /\ UNCHANGED <<tables, overdue, timeouts, mishaps>>

\* GET /transfer/{id}, and every request that is refused.
read_transfer(t) ==
  /\ is_transfer_expired(t) /\ get_transfer(t)
  /\ UNCHANGED <<credits, tickets, listings, overdue, timeouts, mishaps, pc, job, history>>

\* POST /transfer/{id}/resend-otp replaces a sid, which is not modelled: left is
\* that its PATCH, too, ends a transfer that has run out.
resend_otp(t) ==
  /\ transfers[t].status \in {"pending_buyer_otp", "pending_seller_otp"}
  /\ is_transfer_expired(t) /\ patch_transfer(t, transfers[t])
  /\ UNCHANGED <<credits, tickets, listings, overdue, timeouts, mishaps, pc, job, history>>

\* POST /transfer/{id}/seller-accept, for a transfer whose buyer was not asked.
seller_accept(c, t) ==
  /\ transfers[t].status = "pending_seller_acceptance"
  /\ Starts(c, t, "accept")

AcceptTransfer(c) ==
  /\ pc[c] = "accept"
  /\ Attempt(SetStatus(job[c].transfer, "pending_buyer_otp"), transfers)
  /\ Answer(c)
  /\ UNCHANGED <<credits, tickets, listings, overdue, timeouts, history>>

\* POST /transfer/{id}/buyer-verify.
buyer_verify(c, t) ==
  /\ transfers[t].status = "pending_buyer_otp" /\ ~transfers[t].buyerOtpVerified
  /\ Starts(c, t, "check_buyer_otp")

\* Mutant: the answer of the one-time password check is not looked at.
CheckBuyerOtpIgnored(c) ==
  LET t == job[c].transfer IN
  /\ pc[c] = "check_buyer_otp"
  /\ Attempt(patch_transfer(t, [transfers[t] EXCEPT !.buyerOtpVerified = TRUE]), transfers)
  /\ confirmed' \in {confirmed, confirmed \cup {<<t, "buyer">>}}
  /\ Goto(c, "ask_seller")
  /\ UNCHANGED <<credits, tickets, listings, overdue, timeouts,
                 moved, settled, net, raced, misreported, doubled, unmarked>>

\* The password is right and buyerOtpVerified is written, or it is wrong.
CheckBuyerOtp(c) ==
  LET t == job[c].transfer IN
  /\ pc[c] = "check_buyer_otp"
  /\ \/ /\ Attempt(patch_transfer(t, [transfers[t] EXCEPT !.buyerOtpVerified = TRUE]), transfers)
        /\ confirmed' = confirmed \cup {<<t, "buyer">>}
        /\ Goto(c, "ask_seller")
     \/ Answer(c) /\ Answered /\ UNCHANGED <<transfers, confirmed>>
  /\ UNCHANGED <<credits, tickets, listings, overdue, timeouts,
                 moved, settled, net, raced, misreported, doubled, unmarked>>

\* The seller is sent a one-time password and the transfer waits for it.  If that
\* fails the buyer stays verified and can neither verify again nor go on.
AskSeller(c) ==
  LET t == job[c].transfer IN
  /\ pc[c] = "ask_seller"
  /\ Attempt(patch_transfer(t, [transfers[t] EXCEPT !.buyerOtpVerified = TRUE,
                                                    !.status = "pending_seller_otp"]), transfers)
  /\ Answer(c)
  /\ UNCHANGED <<credits, tickets, listings, overdue, timeouts, history>>

\* POST /transfer/{id}/seller-reject.
seller_reject(c, t) ==
  /\ transfers[t].status = "pending_seller_acceptance"
  /\ Starts(c, t, "end_transfer")

\* POST /transfer/{id}/cancel, by either side.  An expired transfer may be
\* cancelled, one that this GET lets expire too.
cancel_transfer(c, t) ==
  /\ transfers[t].status # "none"
  /\ is_transfer_expired(t) \/ transfers[t].status \notin {"completed", "cancelled", "failed"}
  /\ get_transfer(t)
  /\ Begin(c, "end_transfer", [NoJob EXCEPT !.transfer = t])
  /\ Meets(t, "end_transfer")
  /\ UNCHANGED <<credits, tickets, listings, overdue, timeouts, mishaps>>

\* The rest of seller_reject and cancel_transfer: the transfer, its listing and
\* its ticket are set back, whatever has become of them since the GET.
EndTransfer(c) ==
  /\ pc[c] = "end_transfer"
  /\ Attempt(SetStatus(job[c].transfer, "cancelled"), transfers)
  /\ Goto(c, "reopen_listing")
  /\ UNCHANGED <<credits, tickets, listings, overdue, timeouts, history>>

ReopenListing(c) ==
  LET l == transfers[job[c].transfer].listing IN
  /\ pc[c] = "reopen_listing"
  /\ \/ Attempt(update_listing(l, "active"), listings) /\ Goto(c, "relist")
     \/ Mishap /\ Answer(c) /\ UNCHANGED listings
  /\ UNCHANGED <<credits, tickets, transfers, overdue, timeouts, history>>

Relist(c) ==
  LET k == TicketOf(job[c].transfer) IN
  /\ pc[c] = "relist"
  /\ Attempt(update_ticket(k, tickets[k].owner, "listed"), tickets)
  /\ Answer(c)
  /\ UNCHANGED <<credits, listings, transfers, overdue, timeouts, history>>

\* timeout_consumer: a pending transfer is to be cancelled, but the PATCH carries
\* fields the transfer service does not know and is refused; only the listing is
\* set to active.  Any other transfer is left alone.  Without an acknowledgement the
\* message comes again.  (A GET that fails drops the message, as the last step does
\* when its PATCH fails.)
on_timeout_message(c, t) ==
  /\ t \in timeouts
  /\ \A d \in Calls : pc[d] = "timeout_listing" => job[d].transfer # t
  /\ \/ transfers[t].status \in Pending /\ Starts(c, t, "timeout_listing")
     \/ /\ transfers[t].status \notin Pending \/ is_transfer_expired(t)
        /\ get_transfer(t) /\ timeouts' = timeouts \ {t}
        /\ UNCHANGED <<credits, tickets, listings, overdue, mishaps, pc, job, history>>

TimeoutListing(c) ==
  LET t == job[c].transfer IN
  /\ pc[c] = "timeout_listing"
  /\ Attempt(update_listing(transfers[t].listing, "active"), listings)
  /\ timeouts' \in {timeouts, timeouts \ {t}}
  /\ Answer(c)
  /\ UNCHANGED <<credits, tickets, transfers, overdue, history>>

-------------------------------------------------------------------------------
\* transfer-orchestrator: seller_verify and its saga.

\* Request d is between reading u's balance and its last write of it.
BalanceInUse(c, u) ==
  \E d \in Calls \ {c} :
    \/ pc[d] \in Saga /\ u \in {Buyer(job[d].transfer), Seller(job[d].transfer)}
    \/ pc[d] = "seller_balance" /\ u = Buyer(job[d].transfer)

\* Mutant: sellerOtpVerified is not looked at.
seller_verify_again(c, t) ==
  /\ transfers[t].status = "pending_seller_otp" /\ transfers[t].buyerOtpVerified
  /\ Starts(c, t, "check_seller_otp")

\* POST /transfer/{id}/seller-verify.
seller_verify(c, t) ==
  /\ transfers[t].status = "pending_seller_otp"
  /\ ~transfers[t].sellerOtpVerified /\ transfers[t].buyerOtpVerified
  /\ Starts(c, t, "check_seller_otp")

\* Mutant: the answer of the one-time password check is not looked at.
CheckSellerOtpIgnored(c) ==
  LET t == job[c].transfer IN
  /\ pc[c] = "check_seller_otp"
  /\ patch_transfer(t, [transfers[t] EXCEPT !.sellerOtpVerified = TRUE]) /\ Answered
  /\ confirmed' \in {confirmed, confirmed \cup {<<t, "seller">>}}
  /\ pc' = [pc EXCEPT ![c] = "buyer_balance"]
  /\ job' = [job EXCEPT ![c].ticket = TicketOf(t)]
  /\ UNCHANGED <<credits, tickets, listings, overdue, timeouts,
                 moved, settled, net, raced, misreported, doubled, unmarked>>

\* The password is right and sellerOtpVerified is written, or it is wrong.  A GET
\* of the listing follows; without its answer there is no ticket to move.
CheckSellerOtp(c) ==
  LET t == job[c].transfer
      mark == patch_transfer(t, [transfers[t] EXCEPT !.sellerOtpVerified = TRUE]) IN
  /\ pc[c] = "check_seller_otp"
  /\ \/ /\ \/ /\ Attempt(mark, transfers) /\ job' = [job EXCEPT ![c].ticket = TicketOf(t)]
           \/ Mishap /\ mark /\ UNCHANGED job
        /\ unmarked' = IF transfers'[t].sellerOtpVerified THEN unmarked ELSE unmarked \cup {t}
        /\ confirmed' = confirmed \cup {<<t, "seller">>}
        /\ pc' = [pc EXCEPT ![c] = "buyer_balance"]
     \/ Answer(c) /\ Answered /\ UNCHANGED <<transfers, unmarked, confirmed>>
  /\ UNCHANGED <<credits, tickets, listings, overdue, timeouts,
                 moved, settled, net, raced, misreported, doubled>>

\* _get_credit_balance: the balance of an OutSystems answer, under either name of
\* the field.
get_credit_balance(u) == credits[u]

\* An error, or a balance below the price, fails the transfer.
ReadBuyerBalance(c) ==
  LET u == Buyer(job[c].transfer) IN
  /\ pc[c] = "buyer_balance"
  /\ \/ /\ get_credit_balance(u) >= Price /\ Answered
        /\ pc' = [pc EXCEPT ![c] = "seller_balance"]
        /\ job' = [job EXCEPT ![c].buyerBalance = get_credit_balance(u)]
        /\ raced' = IF BalanceInUse(c, u) THEN raced \cup {u} ELSE raced
     \/ get_credit_balance(u) < Price /\ Answered /\ Goto(c, "mark_failed") /\ UNCHANGED raced
     \/ Mishap /\ Goto(c, "mark_failed") /\ UNCHANGED raced
  /\ UNCHANGED <<tables, overdue, timeouts, confirmed, moved, settled, net,
                 misreported, doubled, unmarked>>

\* An error leaves the transfer as it is, for good: sellerOtpVerified is set.
ReadSellerBalance(c) ==
  LET u == Seller(job[c].transfer) IN
  /\ pc[c] = "seller_balance"
  /\ \/ /\ Answered
        /\ pc' = [pc EXCEPT ![c] = "pay"]
        /\ job' = [job EXCEPT ![c].sellerBalance = get_credit_balance(u)]
        /\ raced' = IF BalanceInUse(c, u) THEN raced \cup {u} ELSE raced
     \/ Mishap /\ Answer(c) /\ UNCHANGED raced
  /\ UNCHANGED <<tables, overdue, timeouts, confirmed, moved, settled, net,
                 misreported, doubled, unmarked>>

\* A PATCH of u's balance in the saga: after an error that hid its effect the
\* balance is off, as nothing compensates a step that was not reported done.
WriteBalance(c, u, balance, next, onError) ==
  \/ /\ credits' = [credits EXCEPT ![u] = balance] /\ Answered
     /\ Goto(c, next) /\ UNCHANGED misreported
  \/ /\ Mishap /\ Goto(c, onError)
     /\ \/ credits' = [credits EXCEPT ![u] = balance] /\ misreported' = misreported \cup {u}
        \/ UNCHANGED <<credits, misreported>>

\* Step 1: the balance READ before, less the price.
PayBuyer(c) ==
  /\ pc[c] = "pay"
  /\ WriteBalance(c, Buyer(job[c].transfer), job[c].buyerBalance - Price, "earn", "mark_failed")
  /\ UNCHANGED <<tickets, listings, transfers, overdue, timeouts,
                 confirmed, moved, settled, net, raced, doubled, unmarked>>

\* Mutant: "buyer_deducted" is not among the completed steps when step 2 fails.
CreditSellerForgetful(c) ==
  /\ pc[c] = "earn"
  /\ WriteBalance(c, Seller(job[c].transfer), job[c].sellerBalance + Price, "move", "mark_failed")
  /\ UNCHANGED <<tickets, listings, transfers, overdue, timeouts,
                 confirmed, moved, settled, net, raced, doubled, unmarked>>

\* Step 2: the balance READ before, plus the price.  Steps 3 and 4 add two audit
\* records; an error there undoes both balances.
CreditSeller(c) ==
  LET u == Seller(job[c].transfer)
      balance == job[c].sellerBalance + Price IN
  /\ pc[c] = "earn"
  /\ \/ WriteBalance(c, u, balance, "move", "undo_pay")
     \/ /\ credits' = [credits EXCEPT ![u] = balance] /\ Mishap
        /\ Goto(c, "undo_earn") /\ UNCHANGED misreported
  /\ UNCHANGED <<tickets, listings, transfers, overdue, timeouts,
                 confirmed, moved, settled, net, raced, doubled, unmarked>>

\* Step 5: whoever owns the ticket by now, it becomes the buyer's.
MoveTicket(c) ==
  LET t == job[c].transfer
      give == /\ update_ticket(job[c].ticket, Buyer(t), "active")
              /\ moved' = moved \cup {t} IN
  /\ pc[c] = "move"
  /\ \/ job[c].ticket # Null /\ give /\ Answered /\ Goto(c, "close_listing")
     \/ /\ job[c].ticket # Null /\ Mishap /\ (give \/ UNCHANGED <<tickets, moved>>)
        /\ Goto(c, "undo_earn")
     \/ job[c].ticket = Null /\ Answered /\ UNCHANGED <<tickets, moved>> /\ Goto(c, "undo_earn")
  /\ UNCHANGED <<credits, listings, transfers, overdue, timeouts,
                 confirmed, settled, net, raced, misreported, doubled, unmarked>>

\* Step 6: the listing leaves the market.
CloseListing(c) ==
  LET l == transfers[job[c].transfer].listing IN
  /\ pc[c] = "close_listing"
  /\ \/ update_listing(l, "completed") /\ Answered /\ Goto(c, "complete")
     \/ Mishap /\ (update_listing(l, "completed") \/ UNCHANGED listings) /\ Goto(c, "undo_move")
  /\ UNCHANGED <<credits, tickets, transfers, overdue, timeouts, history>>

\* Step 7, refused if the transfer has run out meanwhile; 200 if it succeeds.
CompleteTransfer(c) ==
  LET t == job[c].transfer IN
  /\ pc[c] = "complete"
  /\ \/ /\ ~is_transfer_expired(t) /\ SetStatus(t, "completed") /\ Answered
        /\ settled' = [settled EXCEPT ![t] = @ + 1]
        /\ net' = [net EXCEPT ![Buyer(t)] = @ - 1, ![Seller(t)] = @ + 1]
        /\ Answer(c)
     \/ /\ is_transfer_expired(t) /\ SetStatus(t, "completed") /\ Answered
        /\ Goto(c, "undo_listing") /\ UNCHANGED <<settled, net>>
     \/ /\ Mishap /\ (SetStatus(t, "completed") \/ UNCHANGED transfers)
        /\ Goto(c, "undo_listing") /\ UNCHANGED <<settled, net>>
  /\ UNCHANGED <<credits, tickets, listings, overdue, timeouts,
                 confirmed, moved, raced, misreported, doubled, unmarked>>

-------------------------------------------------------------------------------
\* The saga's compensation, in reverse order, of the steps reported done.  What
\* fails is reported to a queue that nobody declares.

UndoListing(c) ==
  /\ pc[c] = "undo_listing"
  /\ Attempt(update_listing(transfers[job[c].transfer].listing, "active"), listings)
  /\ Goto(c, "undo_move")
  /\ UNCHANGED <<credits, tickets, transfers, overdue, timeouts, history>>

\* "sold" is not a status of the ticket service, which refuses the PATCH.
UndoMove(c) ==
  /\ pc[c] = "undo_move"
  /\ Attempt(update_ticket(job[c].ticket, Seller(job[c].transfer), "sold"), tickets)
  /\ Goto(c, "undo_earn")
  /\ UNCHANGED <<credits, listings, transfers, overdue, timeouts, history>>

\* u's balance is set back to what was read; if that fails it stays off.
RestoreBalance(c, u, balance, next) ==
  /\ \/ credits' = [credits EXCEPT ![u] = balance] /\ Answered /\ UNCHANGED misreported
     \/ Mishap /\ misreported' = misreported \cup {u} /\ UNCHANGED credits
  /\ Goto(c, next)
  /\ UNCHANGED <<tickets, listings, transfers, overdue, timeouts,
                 confirmed, moved, settled, net, raced, doubled, unmarked>>

UndoSellerCredit(c) ==
  /\ pc[c] = "undo_earn"
  /\ RestoreBalance(c, Seller(job[c].transfer), job[c].sellerBalance, "undo_pay")

UndoBuyerPayment(c) ==
  /\ pc[c] = "undo_pay"
  /\ RestoreBalance(c, Buyer(job[c].transfer), job[c].buyerBalance, "mark_failed")

\* Reversing the audit records fails (there is no such endpoint); the transfer is
\* marked failed and the answer is 500, or 402 and 503 from seller_verify itself.
MarkFailed(c) ==
  /\ pc[c] = "mark_failed"
  /\ Attempt(SetStatus(job[c].transfer, "failed"), transfers)
  /\ Answer(c)
  /\ UNCHANGED <<credits, tickets, listings, overdue, timeouts, history>>

-------------------------------------------------------------------------------
Market ==
  \/ \E c \in Calls, u \in Users, k \in Tickets : list_ticket(c, u, k)
  \/ \E c \in Calls, l \in ListingIds : delist(c, l)
  \/ \E c \in Calls, u \in Users, l \in ListingIds : initiate(c, u, l)

Confirmation ==
  \E c \in Calls, t \in TransferIds :
    \/ seller_accept(c, t) \/ buyer_verify(c, t) \/ seller_verify(c, t)
    \/ seller_reject(c, t) \/ cancel_transfer(c, t) \/ on_timeout_message(c, t)

Step(c) ==
  \/ MarkListed(c) \/ PostListing(c) \/ UnmarkListed(c) \/ CancelListing(c) \/ Unlist(c)
  \/ PostTransfer(c) \/ AskBuyer(c) \/ AcceptTransfer(c)
  \/ CheckBuyerOtp(c) \/ AskSeller(c) \/ EndTransfer(c) \/ ReopenListing(c) \/ Relist(c)
  \/ TimeoutListing(c) \/ CheckSellerOtp(c) \/ ReadBuyerBalance(c) \/ ReadSellerBalance(c)
  \/ PayBuyer(c) \/ CreditSeller(c) \/ MoveTicket(c) \/ CloseListing(c)
  \/ CompleteTransfer(c) \/ UndoListing(c) \/ UndoMove(c) \/ UndoSellerCredit(c)
  \/ UndoBuyerPayment(c) \/ MarkFailed(c)

Next ==
  \/ Market \/ Confirmation \/ \E c \in Calls : Step(c)
  \/ \E t \in TransferIds : TimePasses(t) \/ read_transfer(t) \/ resend_otp(t)

Spec == Init /\ [][Next]_vars

-------------------------------------------------------------------------------
\* A ticket is given to a buyer only by a transfer that this buyer and the seller
\* of the listing have both confirmed with their one-time password, however
\* acceptance, verification, cancellation and resending interleave.
ConsentBeforeMove == moved \X {"buyer", "seller"} \subseteq confirmed

Parties(c) == {Buyer(job[c].transfer), Seller(job[c].transfer)}

\* Whoever is in no running saga has exactly the initial credits plus the price of
\* each ticket sold less that of each ticket bought: a saga that fails anywhere
\* leaves both balances as they were ("no credits were charged").  Excepted are
\* users two of whose sagas overlapped and users with a credit write whose outcome
\* was reported wrongly.
TransferBalancesExact ==
  \A u \in Users \ (raced \cup misreported) :
    (\A c \in Calls : pc[c] \in Saga => u \notin Parties(c))
      => credits[u] = InitialCredits + Price * net[u]

\* No transfer charges its buyer twice, even if a stale buyer_verify sets its status
\* back after it was completed, unless two seller_verify requests ran at once or the
\* ignored write of sellerOtpVerified was lost.
ChargedOnce == \A t \in TransferIds \ (doubled \cup unmarked) : settled[t] <= 1

TransfersOf(k) == {x \in TransferIds : transfers[x] # NoTransfer /\ TicketOf(x) = k}

\* Nobody confirmed two transfers of ticket k as its seller, nor one of them twice (two
\* seller_verify requests at once, or a lost write of sellerOtpVerified).
SoldOnceEach(k) ==
  /\ TransfersOf(k) \cap (doubled \cup unmarked) = {}
  /\ \A x, y \in TransfersOf(k) :
       Seller(x) = Seller(y) /\ {<<x, "seller">>, <<y, "seller">>} \subseteq confirmed => x = y

\* Request c leaves "move" and the ticket is given, though that may not be reported.
Gives(c) == pc[c] = "move" /\ pc'[c] # "move" /\ (pc'[c] = "close_listing" \/ tickets' # tickets)

\* A transfer takes the ticket from the seller who confirmed it.  The listing is not
\* locked, a timeout or a late cancel puts it back on the market and a stale
\* buyer_verify reopens its transfer; only a second confirmation by one seller, which
\* the code does not refuse, can take the ticket from somebody who bought it.
TakenFromSeller ==
  [][\A c \in Calls :
       Gives(c) /\ SoldOnceEach(job[c].ticket)
         => tickets[job[c].ticket].owner = Seller(job[c].transfer)]_vars

\* Compensation of a saga that had moved the ticket gives it back to the seller, if
\* the ticket service answers ("Failed to revert ticket ownership" is for errors).
CompensationReturnsTicket ==
  [][\A c \in Calls :
       pc[c] = "undo_move" /\ pc'[c] # "undo_move" /\ mishaps' = mishaps
         => tickets'[job[c].ticket].owner = Seller(job[c].transfer)]_vars
===============================================================================
