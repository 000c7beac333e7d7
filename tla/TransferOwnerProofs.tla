-------------------------- MODULE TransferOwnerProofs --------------------------
(***************************************************************************)
(* Proof that a transfer takes the ticket from its seller (TakenFromSeller *)
(* of Transfer), for any sets of users, tickets, listings, transfers and   *)
(* request threads.                                                        *)
(*                                                                         *)
(* The argument: once a transfer has moved its ticket no request gets to   *)
(* the move of it again, so a seller who confirmed one transfer of the     *)
(* ticket has sold it at most once; and whoever listed a ticket and has    *)
(* not sold it owns it.                                                    *)
(***************************************************************************)
EXTENDS TransferProofs

-------------------------------------------------------------------------------
(* The inductive invariant. *)

\* The steps of a saga that has moved the ticket.
After == {"close_listing", "complete", "undo_listing", "undo_move", "undo_earn", "undo_pay",
          "mark_failed"}

\* Transfer x is neither doubled nor unmarked.
Single(x) == x \notin doubled \cup unmarked

\* After the move the saga of a transfer only goes on to its end, and no other begins.
MovedInv ==
  \A x \in moved : Single(x) =>
    Marked(x) /\ \A c \in Calls : Sells(c, x) => pc[c] \in After

\* A sale is about the ticket of its listing, or about none.
TicketInv ==
  \A c \in Calls :
    /\ pc[c] = "check_seller_otp" => job[c].ticket = Null
    /\ pc[c] \in OfSale => job[c].ticket \in {Null, TicketOf(job[c].transfer)}

\* User u has put ticket k on the market, or is about to.
Offers(u, k) ==
  \/ \E l \in ListingIds : Known(l) /\ listings[l].ticket = k /\ listings[l].seller = u
  \/ \E c \in Calls : /\ pc[c] \in {"mark_listed", "post_listing"}
                      /\ job[c].ticket = k /\ job[c].user = u

\* User u has sold ticket k.
HasSold(u, k) == \E x \in TransfersOf(k) : x \in moved /\ Seller(x) = u

\* Whoever offers a ticket and has not sold it owns it.
OwnerInv ==
  \A k \in Tickets, u \in Users :
    SoldOnceEach(k) /\ Offers(u, k) /\ ~ HasSold(u, k) => tickets[k].owner = u

-------------------------------------------------------------------------------
(* How a request moves. *)

\* The steps of the handlers that follow one another within a request.
Edges ==
  {<<"mark_listed", "post_listing">>, <<"post_listing", "unmark_listed">>,
   <<"cancel_listing", "unlist">>, <<"check_buyer_otp", "ask_seller">>,
   <<"end_transfer", "reopen_listing">>, <<"reopen_listing", "relist">>,
   <<"check_seller_otp", "buyer_balance">>, <<"buyer_balance", "seller_balance">>,
   <<"buyer_balance", "mark_failed">>, <<"seller_balance", "pay">>, <<"pay", "earn">>,
   <<"pay", "mark_failed">>, <<"earn", "move">>, <<"earn", "undo_pay">>, <<"earn", "undo_earn">>,
   <<"move", "close_listing">>, <<"move", "undo_earn">>, <<"close_listing", "complete">>,
   <<"close_listing", "undo_move">>, <<"complete", "undo_listing">>,
   <<"undo_listing", "undo_move">>, <<"undo_move", "undo_earn">>, <<"undo_earn", "undo_pay">>,
   <<"undo_pay", "mark_failed">>}

Along(from, to) == <<from, to>> \in Edges

\* A request goes on with the same job; seller_verify learns the ticket of its listing.
Goes(c) ==
  /\ Along(pc[c], pc'[c])
  /\ job'[c].transfer = job[c].transfer /\ job'[c].user = job[c].user
  /\ \/ job'[c].ticket = job[c].ticket
     \/ pc[c] = "check_seller_otp" /\ job'[c].ticket = TicketOf(job[c].transfer)

\* A request opens transfer t, or begins about it, or about a ticket or a listing.
Opens(c, t) ==
  /\ PostTransfer(c) /\ create_transfer(c, t)
  /\ pc'[c] = "ask_buyer" /\ job'[c].transfer = t

Asks(c, t) ==
  /\ pc[c] = "idle" /\ transfers[t].status # "none" /\ Meets(t, pc'[c])
  /\ pc'[c] \in {"accept", "check_buyer_otp", "end_transfer", "timeout_listing", "check_seller_otp"}
  /\ job'[c].transfer = t /\ job'[c].ticket = Null

Lists(c) ==
  /\ pc[c] = "idle" /\ pc'[c] = "mark_listed" /\ job'[c].transfer = Null
  /\ tickets[job'[c].ticket].owner = job'[c].user /\ UNCHANGED tickets

Looks(c) == pc[c] = "idle" /\ pc'[c] \in {"cancel_listing", "post_transfer"} /\ job'[c].transfer = Null

Acts(c) ==
  \/ Step(c) /\ (pc'[c] = "idle" \/ Goes(c) \/ \E t \in TransferIds : Opens(c, t))
  \/ Lists(c) \/ Looks(c) \/ \E t \in TransferIds : Asks(c, t)

\* The fields of a new job.
LEMMA NewJobs ==
  /\ \A u, k : LET j == [NoJob EXCEPT !.user = u, !.ticket = k] IN
               j.user = u /\ j.ticket = k /\ j.transfer = Null
  /\ \A l : [NoJob EXCEPT !.listing = l].transfer = Null
  /\ \A u, l : [NoJob EXCEPT !.user = u, !.listing = l].transfer = Null
  /\ \A t : [NoJob EXCEPT !.transfer = t].transfer = t /\ [NoJob EXCEPT !.transfer = t].ticket = Null
  BY DEF NoJob

\* A request ends.
LEMMA ActsAnswer ==
  ASSUME Base, NEW c \in Calls, Step(c), Answer(c)
  PROVE  Alone(c) /\ Acts(c)
<1>1. Alone(c) /\ pc'[c] = "idle"
  BY DEF Base, ThreadsOK, Answer, Alone
<1>2. QED
  BY <1>1 DEF Acts

\* A request goes on.
LEMMA ActsGoto ==
  ASSUME Base, NEW c \in Calls, Step(c), NEW step, Along(pc[c], step), Goto(c, step)
  PROVE  Alone(c) /\ Acts(c)
<1>1. Alone(c) /\ pc'[c] = step /\ job'[c] = job[c]
  BY DEF Base, ThreadsOK, Goto, Alone
<1>2. QED
  BY <1>1 DEF Acts, Goes

\* A request begins.
LEMMA ActsBegin ==
  ASSUME Base, NEW c \in Calls, NEW step, NEW j, Begin(c, step, j)
  PROVE  Alone(c) /\ pc[c] = "idle" /\ pc'[c] = step /\ job'[c] = j
  BY DEF Base, ThreadsOK, Begin, Alone

\* The market's requests begin with a ticket or a listing.
LEMMA ActsMarket ==
  ASSUME Base, Market
  PROVE  \E c \in Calls : Alone(c) /\ Acts(c)
<1>1. ASSUME NEW c \in Calls, NEW u \in Users, NEW k \in Tickets, list_ticket(c, u, k)
      PROVE  Alone(c) /\ Acts(c)
  <2> DEFINE j == [NoJob EXCEPT !.user = u, !.ticket = k]
  <2>1. j.user = u /\ j.ticket = k /\ j.transfer = Null
    BY NewJobs
  <2>2. /\ Begin(c, "mark_listed", j) /\ tickets[k] = [owner |-> u, status |-> "active"]
        /\ UNCHANGED tickets
    BY <1>1 DEF list_ticket, get_ticket, tables
  <2> HIDE DEF j
  <2>3. Alone(c) /\ pc[c] = "idle" /\ pc'[c] = "mark_listed" /\ job'[c] = j
    BY <2>2, ActsBegin
  <2>4. tickets[job'[c].ticket].owner = job'[c].user
    BY <2>1, <2>2, <2>3
  <2>5. QED
    BY <2>1, <2>2, <2>3, <2>4 DEF Acts, Lists
<1>2. ASSUME NEW c \in Calls, NEW l \in ListingIds, delist(c, l) PROVE Alone(c) /\ Acts(c)
  <2> DEFINE j == [NoJob EXCEPT !.listing = l]
  <2>1. j.transfer = Null
    BY NewJobs
  <2>2. Begin(c, "cancel_listing", j)
    BY <1>2 DEF delist
  <2> HIDE DEF j
  <2>3. Alone(c) /\ pc[c] = "idle" /\ pc'[c] = "cancel_listing" /\ job'[c] = j
    BY <2>2, ActsBegin
  <2>4. QED
    BY <2>1, <2>3 DEF Acts, Looks
<1>3. ASSUME NEW c \in Calls, NEW u \in Users, NEW l \in ListingIds, initiate(c, u, l)
      PROVE  Alone(c) /\ Acts(c)
  <2> DEFINE j == [NoJob EXCEPT !.user = u, !.listing = l]
  <2>1. j.transfer = Null
    BY NewJobs
  <2>2. Begin(c, "post_transfer", j)
    BY <1>3 DEF initiate
  <2> HIDE DEF j
  <2>3. Alone(c) /\ pc[c] = "idle" /\ pc'[c] = "post_transfer" /\ job'[c] = j
    BY <2>2, ActsBegin
  <2>4. QED
    BY <2>1, <2>3 DEF Acts, Looks
<1>4. QED
  BY <1>1, <1>2, <1>3 DEF Market

\* Requests about a transfer begin with it.
LEMMA ActsAsks ==
  ASSUME Base, NEW c \in Calls, NEW t \in TransferIds,
         NEW step \in {"accept", "check_buyer_otp", "end_transfer", "timeout_listing",
                       "check_seller_otp"},
         Begin(c, step, [NoJob EXCEPT !.transfer = t]), Meets(t, step), transfers[t].status # "none"
  PROVE  Alone(c) /\ Acts(c)
<1> DEFINE j == [NoJob EXCEPT !.transfer = t]
<1>1. j.transfer = t /\ j.ticket = Null
  BY NewJobs
<1>2. Begin(c, step, j)
  OBVIOUS
<1> HIDE DEF j
<1>3. Alone(c) /\ pc[c] = "idle" /\ pc'[c] = step /\ job'[c] = j
  BY <1>2, ActsBegin
<1>4. Meets(t, pc'[c])
  BY <1>3 DEF Meets
<1>5. QED
  BY <1>1, <1>3, <1>4 DEF Acts, Asks

\* Every step of the system is one of these, by one request, or by none.
LEMMA Requests ==
  ASSUME Base, [Next]_vars
  PROVE  UNCHANGED <<pc, job>> \/ \E c \in Calls : Alone(c) /\ Acts(c)
<1> DEFINE G == UNCHANGED <<pc, job>> \/ \E c \in Calls : Alone(c) /\ Acts(c)
<1>1. CASE Market
  BY <1>1, ActsMarket
<1>2. ASSUME NEW c \in Calls, NEW t \in TransferIds,
             \/ seller_accept(c, t) \/ buyer_verify(c, t) \/ seller_verify(c, t)
             \/ seller_reject(c, t) \/ cancel_transfer(c, t) \/ on_timeout_message(c, t)
      PROVE  G
  <2>1. \/ UNCHANGED <<pc, job>>
        \/ /\ transfers[t].status # "none"
           /\ \E step \in {"accept", "check_buyer_otp", "end_transfer", "timeout_listing",
                           "check_seller_otp"} :
                Begin(c, step, [NoJob EXCEPT !.transfer = t]) /\ Meets(t, step)
    BY <1>2 DEF seller_accept, buyer_verify, seller_verify, seller_reject, cancel_transfer,
                on_timeout_message, Starts, Pending
  <2>2. QED
    BY <2>1, ActsAsks
<1>3. CASE \/ UNCHANGED vars
           \/ \E t \in TransferIds : TimePasses(t) \/ read_transfer(t) \/ resend_otp(t)
  BY <1>3 DEF vars, TimePasses, read_transfer, resend_otp
<1>4. ASSUME NEW c \in Calls, Step(c) PROVE G
  <2>1. CASE Answer(c)
    BY <1>4, <2>1, ActsAnswer
  <2>2. ASSUME NEW step, Along(pc[c], step), Goto(c, step) PROVE G
    BY <1>4, <2>2, ActsGoto
  <2> USE DEF Along, Edges
  <2>3. CASE MarkListed(c) \/ PostListing(c) \/ UnmarkListed(c) \/ CancelListing(c) \/ Unlist(c)
    BY <2>1, <2>2, <2>3 DEF MarkListed, PostListing, UnmarkListed, CancelListing, Unlist
  <2>4. CASE AskBuyer(c) \/ AcceptTransfer(c) \/ AskSeller(c) \/ Relist(c) \/ TimeoutListing(c)
               \/ MarkFailed(c)
    BY <2>1, <2>4 DEF AskBuyer, AcceptTransfer, AskSeller, Relist, TimeoutListing, MarkFailed
  <2>5. CASE CheckBuyerOtp(c) \/ EndTransfer(c) \/ ReopenListing(c)
    BY <2>1, <2>2, <2>5 DEF CheckBuyerOtp, EndTransfer, ReopenListing
  <2>6. CASE PayBuyer(c) \/ CreditSeller(c)
    BY <2>2, <2>6 DEF PayBuyer, CreditSeller, WriteBalance
  <2>7. CASE MoveTicket(c) \/ CloseListing(c) \/ CompleteTransfer(c)
    BY <2>1, <2>2, <2>7 DEF MoveTicket, CloseListing, CompleteTransfer
  <2>8. CASE UndoListing(c) \/ UndoMove(c) \/ UndoSellerCredit(c) \/ UndoBuyerPayment(c)
    BY <2>2, <2>8 DEF UndoListing, UndoMove, UndoSellerCredit, UndoBuyerPayment, RestoreBalance
  <2>9. CASE ReadBuyerBalance(c)
    <3>1. CASE Goto(c, "mark_failed")
      BY <2>2, <2>9, <3>1 DEF ReadBuyerBalance
    <3>2. CASE ~ Goto(c, "mark_failed")
      <4> DEFINE b == credits[Buyer(job[c].transfer)]
      <4>1. /\ pc' = [pc EXCEPT ![c] = "seller_balance"] /\ job' = [job EXCEPT ![c].buyerBalance = b]
            /\ pc[c] = "buyer_balance"
        BY <2>9, <3>2 DEF ReadBuyerBalance, get_credit_balance
      <4> HIDE DEF b
      <4>2. /\ Alone(c) /\ pc'[c] = "seller_balance" /\ job'[c].transfer = job[c].transfer
            /\ job'[c].user = job[c].user /\ job'[c].ticket = job[c].ticket
        BY <4>1 DEF Base, ThreadsOK, Alone, Job
      <4>3. QED
        BY <1>4, <4>1, <4>2 DEF Acts, Goes
    <3>3. QED
      BY <3>1, <3>2
  <2>10. CASE ReadSellerBalance(c)
    <3>1. CASE ~ Answer(c)
      <4> DEFINE b == credits[Seller(job[c].transfer)]
      <4>1. /\ pc' = [pc EXCEPT ![c] = "pay"] /\ job' = [job EXCEPT ![c].sellerBalance = b]
            /\ pc[c] = "seller_balance"
        BY <2>10, <3>1 DEF ReadSellerBalance, get_credit_balance
      <4> HIDE DEF b
      <4>2. /\ Alone(c) /\ pc'[c] = "pay" /\ job'[c].transfer = job[c].transfer
            /\ job'[c].user = job[c].user /\ job'[c].ticket = job[c].ticket
        BY <4>1 DEF Base, ThreadsOK, Alone, Job
      <4>3. QED
        BY <1>4, <4>1, <4>2 DEF Acts, Goes
    <3>2. QED
      BY <2>1, <3>1
  <2>11. CASE CheckSellerOtp(c)
    <3> DEFINE k == TicketOf(job[c].transfer)
    <3>1. \/ Answer(c)
          \/ pc[c] = "check_seller_otp" /\ Goto(c, "buyer_balance")
          \/ /\ pc[c] = "check_seller_otp"
             /\ pc' = [pc EXCEPT ![c] = "buyer_balance"] /\ job' = [job EXCEPT ![c].ticket = k]
      BY <2>11 DEF CheckSellerOtp, Goto
    <3>2. CASE /\ pc[c] = "check_seller_otp"
               /\ pc' = [pc EXCEPT ![c] = "buyer_balance"] /\ job' = [job EXCEPT ![c].ticket = k]
      <4> HIDE DEF k
      <4>1. /\ Alone(c) /\ pc'[c] = "buyer_balance" /\ job'[c].transfer = job[c].transfer
            /\ job'[c].user = job[c].user /\ job'[c].ticket = k
        BY <3>2 DEF Base, ThreadsOK, Alone, Job
      <4>2. QED
        BY <1>4, <3>2, <4>1 DEF Acts, Goes, k
    <3>3. QED
      BY <2>1, <2>2, <3>1, <3>2
  <2>12. CASE PostTransfer(c)
    <3>1. ASSUME NEW t \in TransferIds, create_transfer(c, t),
                 pc' = [pc EXCEPT ![c] = "ask_buyer"], job' = [job EXCEPT ![c].transfer = t]
          PROVE  G
      <4>1. Alone(c) /\ pc'[c] = "ask_buyer" /\ job'[c].transfer = t
        BY <3>1 DEF Base, ThreadsOK, Alone, Job
      <4>2. QED
        BY <1>4, <2>12, <3>1, <4>1 DEF Acts, Opens
    <3>2. QED
      BY <2>1, <2>12, <3>1 DEF PostTransfer
  <2>13. QED
    BY <1>4, <2>3, <2>4, <2>5, <2>6, <2>7, <2>8, <2>9, <2>10, <2>11, <2>12 DEF Step
<1>5. QED
  BY <1>1, <1>2, <1>3, <1>4 DEF Next, Confirmation

\* A request stands still or is the one that acts.
LEMMA Acted ==
  ASSUME Base, [Next]_vars, NEW d \in Calls
  PROVE  (pc'[d] = pc[d] /\ job'[d] = job[d]) \/ (Alone(d) /\ Acts(d))
  BY Requests DEF Alone

\* Which step a request takes is decided by where it is.
LEMMA At ==
  ASSUME NEW c \in Calls, Step(c), pc[c] = "move"
  PROVE  MoveTicket(c)
  BY DEF Step, MarkListed, PostListing, UnmarkListed, CancelListing, Unlist, PostTransfer, AskBuyer,
         AcceptTransfer, CheckBuyerOtp, AskSeller, EndTransfer, ReopenListing, Relist,
         TimeoutListing, CheckSellerOtp, ReadBuyerBalance, ReadSellerBalance, PayBuyer,
         CreditSeller, WriteBalance, MoveTicket, CloseListing, CompleteTransfer, UndoListing, UndoMove,
         UndoSellerCredit, UndoBuyerPayment, MarkFailed

\* After the move a sale goes on to its end.
LEMMA GoesOn ==
  ASSUME Base, [Next]_vars, NEW c \in Calls, pc[c] \in After, pc'[c] \in Selling
  PROVE  pc'[c] \in After
<1>1. CASE Goes(c)
  BY <1>1 DEF Goes, Along, Edges, After
<1>2. CASE Alone(c) /\ \E t \in TransferIds : Opens(c, t)
  BY <1>2 DEF Opens, PostTransfer, After
<1>3. CASE Lists(c) \/ Looks(c) \/ \E t \in TransferIds : Asks(c, t)
  BY <1>3 DEF Lists, Looks, Asks, After
<1>4. CASE pc'[c] = "idle"
  BY <1>4 DEF Selling, OfSale, Saga
<1>5. QED
  BY <1>1, <1>2, <1>3, <1>4, Acted DEF Acts

-------------------------------------------------------------------------------
(* A transfer moves its ticket once. *)

\* What has moved a ticket: one of before, or the transfer of the step that moves it.
LEMMA MovedBefore ==
  ASSUME [Next]_vars, NEW x \in moved'
  PROVE  x \in moved \/ \E c \in Calls : MoveTicket(c) /\ job[c].transfer = x
<1>1. ASSUME NEW c \in Calls, MoveTicket(c) PROVE x \in moved \/ job[c].transfer = x
  BY <1>1 DEF MoveTicket
<1>2. QED
  BY <1>1, Frames DEF Frame

\* Past the move of a transfer that is Single, sellerOtpVerified keeps new requests out.
LEMMA MovedStep ==
  ASSUME Base, [Next]_vars, History, ChargeInv, MovedInv
  PROVE  MovedInv'
<1> SUFFICES ASSUME NEW x \in moved', Single(x)'
             PROVE  Marked(x)' /\ \A c \in Calls : Sells(c, x)' => pc'[c] \in After
  BY DEF MovedInv
<1>1. Single(x)
  BY ExceptionsGrow DEF Single
<1>2. CASE x \in moved
  <2>1. x \in TransferIds /\ Marked(x) /\ \A c \in Calls : Sells(c, x) => pc[c] \in After
    BY <1>1, <1>2 DEF MovedInv, History
  <2>2. ASSUME NEW c \in Calls, Sells(c, x)' PROVE pc'[c] \in After
    <3>1. ~ seller_verify(c, x)
      BY <2>1 DEF seller_verify, Marked
    <3>2. pc[c] \in After
      BY <2>1, <2>2, <3>1, SellsBefore
    <3>3. pc'[c] \in Selling
      BY <2>2 DEF Sells
    <3>4. QED
      BY <3>2, <3>3, GoesOn
  <2>3. QED
    BY <2>1, <2>2, MarkedStays
<1>3. ASSUME NEW c \in Calls, MoveTicket(c), job[c].transfer = x
      PROVE  Marked(x)' /\ \A d \in Calls : Sells(d, x)' => pc'[d] \in After
  <2>1. pc[c] = "move" /\ Sells(c, x) /\ pc[c] \in OfSale /\ pc[c] \in OfTransfer
    BY <1>3 DEF MoveTicket, Sells, Selling, OfSale, OfTransfer, Saga
  <2>2. x \in TransferIds
    BY <1>3, <2>1, JobOpened
  <2>3. Charge(x)
    BY <1>1, <2>2 DEF ChargeInv, Single
  <2>4. Marked(x)
    BY <1>3, <2>1, <2>3 DEF Charge
  <2>5. pc'[c] \in After
    BY <1>3 DEF MoveTicket, Goto, Base, ThreadsOK, After
  <2>6. ASSUME NEW d \in Calls, Sells(d, x)' PROVE d = c
    <3>1. ~ seller_verify(d, x)
      BY <2>4 DEF seller_verify, Marked
    <3>2. Sells(d, x)
      BY <2>2, <2>6, <3>1, SellsBefore
    <3>3. QED
      BY <2>1, <2>3, <3>2 DEF Charge
  <2>7. QED
    BY <2>2, <2>4, <2>5, <2>6, MarkedStays
<1>4. QED
  BY <1>2, <1>3, MovedBefore

-------------------------------------------------------------------------------
(* What a sale is about. *)

\* A sale learns the ticket of its listing, which stays that of its listing.
LEMMA SaleTicketStep ==
  ASSUME Base, [Next]_vars, TicketInv
  PROVE  TicketInv'
<1> SUFFICES ASSUME NEW c \in Calls
             PROVE  /\ pc'[c] = "check_seller_otp" => job'[c].ticket = Null
                    /\ pc'[c] \in OfSale => job'[c].ticket \in {Null, TicketOf(job[c].transfer)'}
  BY DEF TicketInv
<1>1. ASSUME pc[c] \in OfTransfer, job'[c].transfer = job[c].transfer
      PROVE  TicketOf(job[c].transfer)' = TicketOf(job[c].transfer)
  <2>1. PICK t \in TransferIds : t = job[c].transfer /\ Opened(t)
    BY <1>1, JobOpened
  <2>2. TicketOf(t)' = TicketOf(t)
    BY <2>1, PartiesStay
  <2>3. QED
    BY <1>1, <2>1, <2>2 DEF TicketOf
<1>2. OfSale \cup {"check_seller_otp"} \subseteq OfTransfer
  BY DEF OfTransfer
<1>3. CASE pc'[c] = pc[c] /\ job'[c] = job[c]
  BY <1>1, <1>2, <1>3 DEF TicketInv
<1>4. CASE Goes(c)
  <2>1. pc'[c] # "check_seller_otp"
    BY <1>4 DEF Goes, Along, Edges
  <2>2. ASSUME pc'[c] \in OfSale PROVE pc[c] \in OfSale \/ pc[c] = "check_seller_otp"
    BY <1>4, <2>2 DEF Goes, Along, Edges, OfSale, Saga
  <2>3. QED
    BY <1>1, <1>2, <1>4, <2>1, <2>2 DEF Goes, TicketInv
<1>5. CASE pc'[c] = "idle" \/ \E t \in TransferIds : Opens(c, t)
  BY <1>5 DEF Opens, OfSale, Saga
<1>6. CASE Lists(c) \/ Looks(c) \/ \E t \in TransferIds : Asks(c, t)
  BY <1>6 DEF Lists, Looks, Asks, OfSale, Saga
<1>7. QED
  BY <1>3, <1>4, <1>5, <1>6, Acted DEF Acts

-------------------------------------------------------------------------------
(* The ticket: who has listed it and not sold it owns it. *)

\* The transfers of a ticket stay, and stay its seller's.
LEMMA TransfersStay ==
  ASSUME Base, [Next]_vars, NEW k, NEW x \in TransfersOf(k)
  PROVE  /\ x \in TransferIds /\ x \in TransfersOf(k)' /\ Seller(x)' = Seller(x)
         /\ transfers'[x].listing = transfers[x].listing
<1>1. x \in TransferIds /\ Opened(x) /\ TicketOf(x) = k
  BY DEF TransfersOf, Opened
<1>2. /\ Opened(x)' /\ TicketOf(x)' = TicketOf(x) /\ Seller(x)' = Seller(x)
      /\ transfers'[x].listing = transfers[x].listing
  BY <1>1, PartiesStay
<1>3. QED
  BY <1>1, <1>2 DEF TransfersOf, Opened

\* A ticket whose sellers confirmed once did so before.
LEMMA OnceBefore ==
  ASSUME Base, [Next]_vars, NEW k, SoldOnceEach(k)'
  PROVE  SoldOnceEach(k)
<1>1. TransfersOf(k) \cap (doubled \cup unmarked) = {}
  <2>1. ASSUME NEW x \in TransfersOf(k) PROVE x \notin doubled \cup unmarked
    <3>1. x \in TransfersOf(k)'
      BY TransfersStay
    <3>2. x \notin doubled' \cup unmarked'
      BY <3>1 DEF SoldOnceEach
    <3>3. QED
      BY <3>2, ExceptionsGrow
  <2>2. QED
    BY <2>1
<1>2. ASSUME NEW x \in TransfersOf(k), NEW y \in TransfersOf(k), Seller(x) = Seller(y),
             {<<x, "seller">>, <<y, "seller">>} \subseteq confirmed
      PROVE  x = y
  <2>1. /\ x \in TransfersOf(k)' /\ Seller(x)' = Seller(x)
        /\ y \in TransfersOf(k)' /\ Seller(y)' = Seller(y)
    BY TransfersStay
  <2>2. {<<x, "seller">>, <<y, "seller">>} \subseteq confirmed'
    BY <1>2, ConfirmedGrows
  <2>3. QED
    BY <1>2, <2>1, <2>2 DEF SoldOnceEach
<1>3. QED
  BY <1>1, <1>2 DEF SoldOnceEach

\* Who has sold a ticket has sold it for good.
LEMMA SoldBefore ==
  ASSUME Base, [Next]_vars, NEW u, NEW k, HasSold(u, k)
  PROVE  HasSold(u, k)'
<1>1. PICK x \in TransfersOf(k) : x \in moved /\ Seller(x) = u
  BY DEF HasSold
<1>2. x \in moved'
  BY <1>1, Frames DEF Frame, MoveTicket
<1>3. QED
  BY <1>1, <1>2, TransfersStay DEF HasSold

\* A sale that comes to the move finds the ticket with its seller.
LEMMA Takes ==
  ASSUME Base, History, ConsentInv, MovedInv, TicketInv, OwnerInv, NEW c \in Calls, pc[c] = "move",
         job[c].ticket # Null, SoldOnceEach(job[c].ticket)
  PROVE  /\ tickets[job[c].ticket].owner = Seller(job[c].transfer)
         /\ job[c].transfer \in TransfersOf(job[c].ticket)
<1>1. pc[c] \in OfSale /\ pc[c] \in OfTransfer
  BY DEF OfSale, OfTransfer, Saga
<1>2. PICK t \in TransferIds : t = job[c].transfer /\ Opened(t)
  BY <1>1, JobOpened
<1>3. PICK k : k = job[c].ticket /\ k = TicketOf(t)
  BY <1>1, <1>2 DEF TicketInv
<1>4. t \in TransfersOf(k) /\ <<t, "seller">> \in confirmed
  BY <1>1, <1>2, <1>3 DEF TransfersOf, Opened, ConsentInv
<1>5. PICK l \in ListingIds : /\ l = transfers[t].listing /\ Known(l)
                              /\ listings[l].ticket = k /\ k \in Tickets
                              /\ Seller(t) = listings[l].seller /\ Seller(t) \in Users
  BY <1>2, <1>3 DEF Base, RowInv, Known, TicketOf, Seller
<1>6. Offers(Seller(t), k)
  BY <1>5 DEF Offers
<1>7. t \notin moved
  <2>1. Sells(c, t) /\ pc[c] \notin After
    BY <1>1, <1>2 DEF Sells, Selling, After
  <2>2. Single(t)
    BY <1>3, <1>4 DEF SoldOnceEach, Single
  <2>3. QED
    BY <2>1, <2>2 DEF MovedInv
<1>8. ASSUME NEW x \in TransfersOf(k), x \in moved, Seller(x) = Seller(t) PROVE FALSE
  <2>1. <<x, "seller">> \in confirmed
    BY <1>8 DEF ConsentInv, ConsentBeforeMove
  <2>2. x = t
    BY <1>3, <1>4, <1>8, <2>1 DEF SoldOnceEach
  <2>3. QED
    BY <1>7, <1>8, <2>2
<1>9. ~ HasSold(Seller(t), k)
  BY <1>8 DEF HasSold
<1>10. QED
  BY <1>2, <1>3, <1>4, <1>5, <1>6, <1>9 DEF OwnerInv

\* The owner of a ticket changes only by a move, which the transfer is noted for.
LEMMA OwnerWrites ==
  ASSUME Base, [Next]_vars, tickets \in [Tickets -> Ticket], NEW k \in Tickets,
         tickets'[k].owner # tickets[k].owner
  PROVE  \E c \in Calls : /\ pc[c] = "move" /\ job[c].ticket = k
                          /\ job[c].transfer \in moved'
<1>1. ASSUME NEW m, NEW st, update_ticket(m, tickets[m].owner, st) \/ UNCHANGED tickets PROVE FALSE
  <2>1. \/ UNCHANGED tickets
        \/ tickets' = [tickets EXCEPT ![m] = [owner |-> tickets[m].owner, status |-> st]]
    BY <1>1 DEF update_ticket
  <2>2. QED
    BY <2>1
<1>2. ASSUME NEW c \in Calls, MarkListed(c) \/ UnmarkListed(c) PROVE FALSE
  BY <1>1, <1>2 DEF MarkListed, UnmarkListed, Attempt
<1>3. ASSUME NEW c \in Calls, Unlist(c) \/ Relist(c) PROVE FALSE
  BY <1>1, <1>3 DEF Unlist, Relist, Attempt
<1>4. ASSUME NEW c \in Calls, UndoMove(c) PROVE FALSE
  BY <1>4 DEF UndoMove, Attempt, update_ticket, ALLOWED_STATUS_VALUES
<1>5. PICK c \in Calls : MoveTicket(c)
  BY <1>2, <1>3, <1>4, Frames DEF Frame
<1>6. /\ pc[c] = "move" /\ job[c].transfer \in moved'
      /\ update_ticket(job[c].ticket, Buyer(job[c].transfer), "active")
  BY <1>5 DEF MoveTicket
<1>7. PICK m, r : m = job[c].ticket /\ tickets' = [tickets EXCEPT ![m] = r]
  BY <1>6 DEF update_ticket, ALLOWED_STATUS_VALUES
<1>8. m = k
  BY <1>7
<1>9. QED
  BY <1>6, <1>7, <1>8

\* A listing that comes into being is the one a request was about to post.
LEMMA Listed ==
  ASSUME Base, [Next]_vars, NEW l \in ListingIds, ~ Known(l), Known(l)'
  PROVE  \E c \in Calls : /\ pc[c] = "post_listing"
                          /\ job[c].ticket = listings'[l].ticket /\ job[c].user = listings'[l].seller
<1>1. listings \in [ListingIds -> Listing] /\ listings'[l] # listings[l]
  BY DEF Base, RowsOK, Known
<1>2. ASSUME NEW m, NEW st, Known(m), update_listing(m, st) PROVE FALSE
  BY <1>1, <1>2 DEF update_listing
<1>3. ASSUME NEW c \in Calls, CancelListing(c) PROVE FALSE
  <2>1. Known(job[c].listing)
    BY <1>3 DEF CancelListing, Base, JobInv, Fits
  <2>2. QED
    BY <1>1, <1>2, <1>3, <2>1 DEF CancelListing
<1>4. ASSUME NEW c \in Calls, ReopenListing(c) \/ TimeoutListing(c) \/ CloseListing(c) \/ UndoListing(c)
      PROVE  FALSE
  <2>1. pc[c] \in OfTransfer
    BY <1>4 DEF ReopenListing, TimeoutListing, CloseListing, UndoListing, OfTransfer, OfSale, Saga
  <2>2. Known(transfers[job[c].transfer].listing)
    BY <2>1, JobOpened DEF Base, RowInv
  <2>3. \E st \in {"active", "completed"} :
          update_listing(transfers[job[c].transfer].listing, st) \/ UNCHANGED listings
    BY <1>4 DEF ReopenListing, TimeoutListing, CloseListing, UndoListing, Attempt
  <2>4. QED
    BY <1>1, <1>2, <2>2, <2>3
<1>5. PICK c \in Calls : PostListing(c)
  BY <1>1, <1>3, <1>4, Frames DEF Frame
<1>6. PICK m \in ListingIds :
        listings' = [listings EXCEPT ![m] = [ticket |-> job[c].ticket, seller |-> job[c].user,
                                             status |-> "active"]]
  BY <1>1, <1>5 DEF PostListing, create_listing
<1>7. listings'[l] = [ticket |-> job[c].ticket, seller |-> job[c].user, status |-> "active"]
  BY <1>1, <1>6
<1>8. QED
  BY <1>5, <1>7 DEF PostListing

\* Who offers a ticket did so before, or owns it and begins to list it now.
LEMMA OffersBefore ==
  ASSUME Base, [Next]_vars, NEW u, NEW k, Offers(u, k)'
  PROVE  Offers(u, k) \/ (tickets[k].owner = u /\ UNCHANGED tickets)
<1>1. ASSUME NEW l \in ListingIds, Known(l)', listings'[l].ticket = k, listings'[l].seller = u
      PROVE  Offers(u, k)
  <2>1. CASE Known(l)
    BY <1>1, <2>1, ListingsPersist DEF Offers
  <2>2. CASE ~ Known(l)
    BY <1>1, <2>2, Listed DEF Offers
  <2>3. QED
    BY <2>1, <2>2
<1>2. ASSUME NEW c \in Calls, pc'[c] \in {"mark_listed", "post_listing"},
             job'[c].ticket = k, job'[c].user = u
      PROVE  Offers(u, k) \/ (tickets[k].owner = u /\ UNCHANGED tickets)
  <2>1. CASE pc'[c] = pc[c] /\ job'[c] = job[c]
    BY <1>2, <2>1 DEF Offers
  <2>2. CASE Goes(c)
    <3>1. pc[c] = "mark_listed"
      BY <1>2, <2>2 DEF Goes, Along, Edges
    <3>2. job[c].ticket = k /\ job[c].user = u
      BY <1>2, <2>2, <3>1 DEF Goes
    <3>3. QED
      BY <3>1, <3>2 DEF Offers
  <2>3. CASE Lists(c)
    BY <1>2, <2>3 DEF Lists
  <2>4. CASE \/ pc'[c] = "idle" \/ Looks(c)
             \/ \E t \in TransferIds : Opens(c, t) \/ Asks(c, t)
    BY <1>2, <2>4 DEF Looks, Opens, Asks
  <2>5. QED
    BY <2>1, <2>2, <2>3, <2>4, Acted DEF Acts
<1>3. QED
  BY <1>1, <1>2 DEF Offers

\* Whoever offers a ticket and has not sold it goes on owning it.
LEMMA OwnerStep ==
  ASSUME Base, [Next]_vars, History, tickets \in [Tickets -> Ticket],
         ConsentInv, MovedInv, TicketInv, OwnerInv
  PROVE  OwnerInv'
<1> SUFFICES ASSUME NEW k \in Tickets, NEW u \in Users,
                    SoldOnceEach(k)', Offers(u, k)', ~ HasSold(u, k)'
             PROVE  tickets'[k].owner = u
  BY DEF OwnerInv
<1>1. SoldOnceEach(k) /\ ~ HasSold(u, k)
  BY OnceBefore, SoldBefore
<1>2. CASE tickets[k].owner = u /\ UNCHANGED tickets
  BY <1>2
<1>3. CASE Offers(u, k)
  <2>1. tickets[k].owner = u
    BY <1>1, <1>3 DEF OwnerInv
  <2>2. SUFFICES ASSUME tickets'[k].owner # tickets[k].owner PROVE FALSE
    BY <2>1
  <2>3. PICK c \in Calls : pc[c] = "move" /\ job[c].ticket = k /\ job[c].transfer \in moved'
    BY <2>2, OwnerWrites
  <2>4. k # Null
    BY NullAssumption
  <2>5. PICK t : t = job[c].transfer
    OBVIOUS
  <2>6. Seller(t) = u /\ t \in TransfersOf(k)
    BY <1>1, <2>1, <2>3, <2>4, <2>5, Takes
  <2>7. t \in TransfersOf(k)' /\ Seller(t)' = u
    BY <2>6, TransfersStay
  <2>8. QED
    BY <2>3, <2>5, <2>7 DEF HasSold
<1>4. QED
  BY <1>2, <1>3, OffersBefore

-------------------------------------------------------------------------------
OwnersInv == ConsentInv /\ ChargeInv /\ MovedInv /\ TicketInv /\ OwnerInv

\* What keeps a ticket with its seller until it is moved holds in every reachable
\* state: no request gets to the move of a transfer that has moved its ticket, and
\* whoever offers a ticket and has not sold it owns it.
THEOREM OwnersSafe == Spec => []OwnersInv
<1>1. Init => OwnersInv
  <2>1. SUFFICES ASSUME Init PROVE OwnersInv
    OBVIOUS
  <2>2. \A c \in Calls : pc[c] = "idle"
    BY <2>1 DEF Init
  <2>3. ConsentInv
    BY <2>1 DEF Init, ConsentInv, NoTransfer, Confirming, OfSale, Saga, ConsentBeforeMove
  <2>4. ChargeInv
    BY <2>1, <2>2 DEF Init, ChargeInv, Charge, Sells, Selling, OfSale, Saga
  <2>5. MovedInv
    BY <2>1 DEF Init, MovedInv
  <2>6. TicketInv
    BY <2>2 DEF TicketInv, OfSale, Saga
  <2>7. \A l \in ListingIds : ~ Known(l)
    BY <2>1 DEF Init, Known
  <2>8. OwnerInv
    BY <2>2, <2>7 DEF OwnerInv, Offers
  <2>9. QED
    BY <2>3, <2>4, <2>5, <2>6, <2>8 DEF OwnersInv
<1>2. Base /\ Base' /\ TypeOK /\ OwnersInv /\ [Next]_vars => OwnersInv'
  <2>1. SUFFICES ASSUME Base, Base', TypeOK, OwnersInv, [Next]_vars PROVE OwnersInv'
    OBVIOUS
  <2>2. History /\ tickets \in [Tickets -> Ticket]
    BY <2>1 DEF TypeOK, History
  <2>3. ConsentInv' /\ ChargeInv'
    BY <2>1, <2>2, ConsentStep, ChargeStep DEF OwnersInv
  <2>4. MovedInv'
    BY <2>1, <2>2, MovedStep DEF OwnersInv
  <2>5. TicketInv' /\ OwnerInv'
    BY <2>1, <2>2, SaleTicketStep, OwnerStep DEF OwnersInv
  <2>6. QED
    BY <2>3, <2>4, <2>5 DEF OwnersInv
<1>3. QED
  BY <1>1, <1>2, Basics, TypeCorrect, PTL DEF Spec

\* A transfer takes the ticket from the seller who confirmed it, although listings are
\* not locked and are put back on the market by timeouts and late cancels, and PATCH
\* /tickets/{id} of step 5 writes the new owner whoever the old one is; it is enough
\* that no seller confirms two transfers of the ticket, or one of them twice.
THEOREM TakenSafe == Spec => TakenFromSeller
<1> DEFINE T == \A c \in Calls :
                  Gives(c) /\ SoldOnceEach(job[c].ticket)
                    => tickets[job[c].ticket].owner = Seller(job[c].transfer)
<1>1. Base /\ TypeOK /\ OwnersInv /\ [Next]_vars => [T]_vars
  <2>1. SUFFICES ASSUME Base, TypeOK, OwnersInv, [Next]_vars, NEW c \in Calls, Gives(c),
                        SoldOnceEach(job[c].ticket)
                 PROVE  tickets[job[c].ticket].owner = Seller(job[c].transfer)
    OBVIOUS
  <2>2. pc[c] = "move" /\ pc'[c] # "move" /\ (pc'[c] = "close_listing" \/ tickets' # tickets)
    BY <2>1 DEF Gives
  <2>3. Acts(c)
    BY <2>1, <2>2, Acted
  <2>4. MoveTicket(c)
    BY <2>2, <2>3, At DEF Acts, Lists, Looks, Asks
  <2>5. job[c].ticket # Null
    BY <2>1, <2>2, <2>4 DEF MoveTicket, Goto, Base, ThreadsOK
  <2>6. History
    BY <2>1 DEF TypeOK, History
  <2>7. QED
    BY <2>1, <2>2, <2>5, <2>6, Takes DEF OwnersInv
<1>2. QED
  BY <1>1, Basics, TypeCorrect, OwnersSafe, PTL DEF Spec, TakenFromSeller
===============================================================================
