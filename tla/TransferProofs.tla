---------------------------- MODULE TransferProofs ----------------------------
(***************************************************************************)
(* Proofs of the safety properties of Transfer for any sets of users,      *)
(* tickets, listings, transfers and request threads.                       *)
(***************************************************************************)
EXTENDS Transfer, TLAPS

-------------------------------------------------------------------------------
(* Which actions write what. *)

Frame ==
  /\ \/ UNCHANGED <<credits, misreported>>
     \/ \E c \in Calls : PayBuyer(c) \/ CreditSeller(c) \/ UndoSellerCredit(c) \/ UndoBuyerPayment(c)
  /\ \/ UNCHANGED tickets
     \/ \E c \in Calls : MarkListed(c) \/ UnmarkListed(c) \/ Unlist(c) \/ Relist(c) \/ MoveTicket(c)
                           \/ UndoMove(c)
  /\ \/ UNCHANGED listings
     \/ \E c \in Calls : PostListing(c) \/ CancelListing(c) \/ ReopenListing(c) \/ TimeoutListing(c)
                           \/ CloseListing(c) \/ UndoListing(c)
  /\ \/ UNCHANGED transfers
     \/ \E c \in Calls : PostTransfer(c) \/ AskBuyer(c) \/ AcceptTransfer(c) \/ CheckBuyerOtp(c)
                           \/ AskSeller(c) \/ EndTransfer(c) \/ CheckSellerOtp(c)
                           \/ CompleteTransfer(c) \/ MarkFailed(c)
     \/ \E t \in TransferIds : read_transfer(t) \/ resend_otp(t)
     \/ \E c \in Calls, t \in TransferIds : cancel_transfer(c, t) \/ on_timeout_message(c, t)
  /\ UNCHANGED overdue \/ \E t \in TransferIds : TimePasses(t)
  /\ \/ UNCHANGED timeouts
     \/ \E c \in Calls : AskBuyer(c) \/ TimeoutListing(c)
     \/ \E c \in Calls, t \in TransferIds : on_timeout_message(c, t)
  /\ UNCHANGED mishaps \/ Mishap
  /\ UNCHANGED confirmed \/ \E c \in Calls : CheckBuyerOtp(c) \/ CheckSellerOtp(c)
  /\ UNCHANGED moved \/ \E c \in Calls : MoveTicket(c)
  /\ UNCHANGED <<settled, net>> \/ \E c \in Calls : CompleteTransfer(c)
  /\ UNCHANGED raced \/ \E c \in Calls : ReadBuyerBalance(c) \/ ReadSellerBalance(c)
  /\ UNCHANGED doubled \/ \E t \in TransferIds, step \in Pc : Meets(t, step)
  /\ UNCHANGED unmarked \/ \E c \in Calls : CheckSellerOtp(c)

\* Every step keeps to these.
LEMMA Frames ==
  ASSUME [Next]_vars PROVE Frame
<1> USE DEF tables, history
<1>1. CASE UNCHANGED vars
  BY <1>1 DEF vars, Frame
<1>2. CASE Market
  BY <1>2 DEF Market, list_ticket, delist, initiate, Frame
<1>3. ASSUME NEW c \in Calls, NEW t \in TransferIds,
             seller_accept(c, t) \/ buyer_verify(c, t) \/ seller_verify(c, t) \/ seller_reject(c, t)
      PROVE  Frame
  BY <1>3 DEF seller_accept, buyer_verify, seller_verify, seller_reject, Starts, Meets, Pc, Frame
<1>4. ASSUME NEW c \in Calls, NEW t \in TransferIds, cancel_transfer(c, t) PROVE Frame
  BY <1>4 DEF cancel_transfer, Meets, Pc, Frame
<1>5. ASSUME NEW c \in Calls, NEW t \in TransferIds, on_timeout_message(c, t) PROVE Frame
  BY <1>5 DEF on_timeout_message, Starts, Meets, Pc, Frame
<1>6. ASSUME NEW t \in TransferIds, TimePasses(t) \/ read_transfer(t) \/ resend_otp(t) PROVE Frame
  BY <1>6 DEF TimePasses, read_transfer, resend_otp, Frame
<1>7. ASSUME NEW c \in Calls, MarkListed(c) \/ PostListing(c) \/ UnmarkListed(c) \/ CancelListing(c)
                                \/ Unlist(c)
      PROVE  Frame
  BY <1>7 DEF MarkListed, PostListing, UnmarkListed, CancelListing, Unlist, Attempt, Answered, Frame
<1>8. ASSUME NEW c \in Calls, PostTransfer(c) PROVE Frame
  BY <1>8 DEF PostTransfer, Answered, Frame
<1>9. ASSUME NEW c \in Calls, AskBuyer(c) \/ AcceptTransfer(c) PROVE Frame
  BY <1>9 DEF AskBuyer, publish_transfer_timeout, AcceptTransfer, Attempt, Answered, Frame
<1>10. ASSUME NEW c \in Calls, CheckBuyerOtp(c) \/ AskSeller(c) PROVE Frame
  BY <1>10 DEF CheckBuyerOtp, AskSeller, Attempt, Answered, Frame
<1>11. ASSUME NEW c \in Calls, EndTransfer(c) \/ ReopenListing(c) \/ Relist(c) \/ TimeoutListing(c)
       PROVE  Frame
  BY <1>11 DEF EndTransfer, ReopenListing, Relist, TimeoutListing, Attempt, Answered, Frame
<1>12. ASSUME NEW c \in Calls, CheckSellerOtp(c) PROVE Frame
  BY <1>12 DEF CheckSellerOtp, Attempt, Answered, Frame
<1>13. ASSUME NEW c \in Calls, ReadBuyerBalance(c) \/ ReadSellerBalance(c) PROVE Frame
  BY <1>13 DEF ReadBuyerBalance, ReadSellerBalance, Answered, Frame
<1>14. ASSUME NEW c \in Calls, PayBuyer(c) \/ CreditSeller(c) PROVE Frame
  BY <1>14 DEF PayBuyer, CreditSeller, WriteBalance, Answered, Frame
<1>15. ASSUME NEW c \in Calls, MoveTicket(c) \/ CloseListing(c) PROVE Frame
  BY <1>15 DEF MoveTicket, CloseListing, Answered, Frame
<1>16. ASSUME NEW c \in Calls, CompleteTransfer(c) PROVE Frame
  BY <1>16 DEF CompleteTransfer, Answered, Frame
<1>17. ASSUME NEW c \in Calls, UndoListing(c) \/ UndoMove(c) \/ MarkFailed(c) PROVE Frame
  BY <1>17 DEF UndoListing, UndoMove, MarkFailed, Attempt, Answered, Frame
<1>18. ASSUME NEW c \in Calls, UndoSellerCredit(c) \/ UndoBuyerPayment(c) PROVE Frame
  BY <1>18 DEF UndoSellerCredit, UndoBuyerPayment, RestoreBalance, Answered, Frame
<1>19. QED
  BY <1>1, <1>2, <1>3, <1>4, <1>5, <1>6, <1>7, <1>8, <1>9, <1>10, <1>11, <1>12, <1>13, <1>14,
     <1>15, <1>16, <1>17, <1>18 DEF Next, Confirmation, Step

-------------------------------------------------------------------------------
(* Rows of the services, and the requests that are about them. *)

Known(l) == l \in ListingIds /\ listings[l] # NoListing
Opened(t) == t \in TransferIds /\ transfers[t] # NoTransfer

RowsOK ==
  /\ listings \in [ListingIds -> Listing] /\ transfers \in [TransferIds -> TransferRow]
  /\ overdue \subseteq TransferIds

ThreadsOK == pc \in [Calls -> Pc] /\ job \in [Calls -> Job]

\* A row that exists is filled in; a transfer is of a listing by somebody else.
RowInv ==
  /\ \A l \in ListingIds : Known(l) => listings[l].ticket \in Tickets /\ listings[l].seller \in Users
  /\ \A t \in TransferIds : Opened(t) =>
       /\ Known(transfers[t].listing) /\ Buyer(t) \in Users /\ Buyer(t) # Seller(t)
       /\ transfers[t].status # "none"
  /\ \A t \in overdue : Opened(t)

\* The steps of a request about a transfer, and of seller_verify after the password.
OfSale == {"buyer_balance", "seller_balance", "mark_failed"} \cup Saga
OfTransfer == OfSale \cup {"ask_buyer", "check_buyer_otp", "ask_seller", "end_transfer",
                           "reopen_listing", "relist", "check_seller_otp", "timeout_listing",
                           "accept"}

\* What a request at a step is about.
Fits(step, j) ==
  /\ step \in {"mark_listed", "post_listing", "unmark_listed"} =>
       j.ticket \in Tickets /\ j.user \in Users
  /\ step \in {"cancel_listing", "unlist", "post_transfer"} => Known(j.listing)
  /\ step = "post_transfer" => j.user \in Users /\ listings[j.listing].seller # j.user
  /\ step \in OfTransfer => Opened(j.transfer)
  /\ step \in Saga \cup {"seller_balance"} => j.buyerBalance >= Price

JobInv == \A c \in Calls : Fits(pc[c], job[c])

Base == RowsOK /\ ThreadsOK /\ RowInv /\ JobInv /\ credits \in [Users -> Nat]

-------------------------------------------------------------------------------
(* What can become of a row. *)

Status == Pending \cup {"completed", "cancelled", "failed", "expired"}

\* The row of a transfer keeps its listing and its buyer, and a confirmation that
\* it holds.
Later(x) ==
  {r \in TransferRow : /\ r.listing = x.listing /\ r.buyer = x.buyer /\ r.status # "none"
                       /\ x.buyerOtpVerified = TRUE => r.buyerOtpVerified = TRUE
                       /\ x.sellerOtpVerified = TRUE => r.sellerOtpVerified = TRUE}

\* A new status.
LEMMA StatusLater ==
  ASSUME NEW x \in TransferRow, NEW st \in Status
  PROVE  LET r == [x EXCEPT !.status = st] IN
         /\ r \in Later(x) /\ r.status = st
         /\ r.buyerOtpVerified = x.buyerOtpVerified /\ r.sellerOtpVerified = x.sellerOtpVerified
<1> DEFINE r == [x EXCEPT !.status = st]
<1>1. r \in TransferRow
  BY DEF TransferRow, Status
<1>2. /\ r.listing = x.listing /\ r.buyer = x.buyer /\ r.status = st
      /\ r.buyerOtpVerified = x.buyerOtpVerified /\ r.sellerOtpVerified = x.sellerOtpVerified
  BY DEF TransferRow
<1>3. st # "none"
  BY DEF Status, Pending
<1> HIDE DEF r
<1>4. r \in Later(x)
  BY <1>1, <1>2, <1>3 DEF Later
<1>5. QED
  BY <1>2, <1>4 DEF r

\* The buyer's confirmation.
LEMMA BuyerLater ==
  ASSUME NEW x \in TransferRow, x.status # "none"
  PROVE  LET r == [x EXCEPT !.buyerOtpVerified = TRUE] IN
         r \in Later(x) /\ r.sellerOtpVerified = x.sellerOtpVerified
<1> DEFINE r == [x EXCEPT !.buyerOtpVerified = TRUE]
<1>1. r \in TransferRow
  BY DEF TransferRow
<1>2. /\ r.listing = x.listing /\ r.buyer = x.buyer /\ r.status = x.status
      /\ r.buyerOtpVerified = TRUE /\ r.sellerOtpVerified = x.sellerOtpVerified
  BY DEF TransferRow
<1> HIDE DEF r
<1>3. r \in Later(x)
  BY <1>1, <1>2 DEF Later
<1>4. QED
  BY <1>2, <1>3 DEF r

\* The seller's confirmation.
LEMMA SellerLater ==
  ASSUME NEW x \in TransferRow, x.status # "none"
  PROVE  LET r == [x EXCEPT !.sellerOtpVerified = TRUE] IN
         r \in Later(x) /\ r.buyerOtpVerified = x.buyerOtpVerified
<1> DEFINE r == [x EXCEPT !.sellerOtpVerified = TRUE]
<1>1. r \in TransferRow
  BY DEF TransferRow
<1>2. /\ r.listing = x.listing /\ r.buyer = x.buyer /\ r.status = x.status
      /\ r.sellerOtpVerified = TRUE /\ r.buyerOtpVerified = x.buyerOtpVerified
  BY DEF TransferRow
<1> HIDE DEF r
<1>3. r \in Later(x)
  BY <1>1, <1>2 DEF Later
<1>4. QED
  BY <1>2, <1>3 DEF r

\* The buyer's once more, together with the request for the seller's.
LEMMA AskLater ==
  ASSUME NEW x \in TransferRow, x.status # "none"
  PROVE  LET r == [x EXCEPT !.buyerOtpVerified = TRUE, !.status = "pending_seller_otp"] IN
         r \in Later(x) /\ r.sellerOtpVerified = x.sellerOtpVerified
<1> DEFINE y == [x EXCEPT !.buyerOtpVerified = TRUE]
           r == [y EXCEPT !.status = "pending_seller_otp"]
<1>1. y \in Later(x) /\ y.sellerOtpVerified = x.sellerOtpVerified
  BY BuyerLater
<1> HIDE DEF y
<1>2. y \in TransferRow
  BY <1>1 DEF Later
<1>3. "pending_seller_otp" \in Status
  BY DEF Status, Pending
<1>4. /\ r \in Later(y) /\ r.buyerOtpVerified = y.buyerOtpVerified
      /\ r.sellerOtpVerified = y.sellerOtpVerified
  BY <1>2, <1>3, StatusLater
<1> HIDE DEF r
<1>5. r \in Later(x) /\ r.sellerOtpVerified = x.sellerOtpVerified
  BY <1>1, <1>4 DEF Later
<1>6. QED
  BY <1>5 DEF r, y

\* A row that is replaced by a later version of itself, and by one with another status.
Patched(t) == \E r \in Later(transfers[t]) : transfers' = [transfers EXCEPT ![t] = r]
Retitled(t) ==
  \E st \in Status : transfers' = [transfers EXCEPT ![t] = [transfers[t] EXCEPT !.status = st]]

\* A row whose status is replaced.
LEMMA RetitledIsPatched ==
  ASSUME RowsOK, NEW t \in TransferIds, Retitled(t)
  PROVE  Patched(t) /\ \A x \in TransferIds :
           /\ transfers'[x].buyerOtpVerified = transfers[x].buyerOtpVerified
           /\ transfers'[x].sellerOtpVerified = transfers[x].sellerOtpVerified
<1>1. transfers \in [TransferIds -> TransferRow]
  BY DEF RowsOK
<1>2. PICK st \in Status :
        transfers' = [transfers EXCEPT ![t] = [transfers[t] EXCEPT !.status = st]]
  BY DEF Retitled
<1> DEFINE r == [transfers[t] EXCEPT !.status = st]
<1>3. /\ r \in Later(transfers[t]) /\ r.buyerOtpVerified = transfers[t].buyerOtpVerified
      /\ r.sellerOtpVerified = transfers[t].sellerOtpVerified
  BY <1>1, StatusLater
<1>4. transfers' = [transfers EXCEPT ![t] = r]
  BY <1>2
<1> HIDE DEF r
<1>5. transfers'[t] = r /\ \A x \in TransferIds \ {t} : transfers'[x] = transfers[x]
  BY <1>1, <1>4
<1>6. QED
  BY <1>3, <1>4, <1>5 DEF Patched

\* PATCH writes the row that is sent, or that the transfer has run out.
LEMMA PatchWrites ==
  ASSUME NEW t, NEW row, patch_transfer(t, row)
  PROVE  transfers' = [transfers EXCEPT ![t] = row] \/ Retitled(t)
<1>1. "expired" \in Status
  BY DEF Status
<1>2. QED
  BY <1>1 DEF patch_transfer, Retitled

\* PATCH with a status.
LEMMA SetStatusWrites ==
  ASSUME NEW t, NEW st \in Status, SetStatus(t, st) PROVE Retitled(t)
  BY PatchWrites DEF SetStatus, Retitled

\* GET, which ends a transfer that has run out.
LEMMA GetWrites ==
  ASSUME NEW t, get_transfer(t)
  PROVE  UNCHANGED transfers \/ (is_transfer_expired(t) /\ Retitled(t))
<1>1. "expired" \in Status
  BY DEF Status
<1>2. QED
  BY <1>1 DEF get_transfer, Retitled

\* The steps of requests about a transfer find it.
LEMMA JobOpened ==
  ASSUME Base, NEW c \in Calls, pc[c] \in OfTransfer
  PROVE  /\ job[c].transfer \in TransferIds /\ Opened(job[c].transfer)
         /\ transfers[job[c].transfer] \in TransferRow
         /\ transfers[job[c].transfer].status # "none"
  BY DEF Base, JobInv, Fits, Opened, RowsOK, RowInv

\* Every write of a transfer.
LEMMA TransferWrites ==
  ASSUME Base, [Next]_vars
  PROVE  \/ UNCHANGED transfers
         \/ \E t \in TransferIds : Opened(t) /\ Retitled(t)
         \/ \E c \in Calls : CheckBuyerOtp(c) \/ AskSeller(c) \/ CheckSellerOtp(c) \/ PostTransfer(c)
<1> DEFINE W == \/ UNCHANGED transfers
                \/ \E t \in TransferIds : Opened(t) /\ Retitled(t)
                \/ \E c \in Calls : CheckBuyerOtp(c) \/ AskSeller(c) \/ CheckSellerOtp(c)
                                      \/ PostTransfer(c)
<1>1. ASSUME NEW c \in Calls, NEW st \in Status, pc[c] \in OfTransfer,
             SetStatus(job[c].transfer, st) \/ UNCHANGED transfers
      PROVE  W
  BY <1>1, JobOpened, SetStatusWrites
<1>2. ASSUME NEW t \in TransferIds, get_transfer(t) PROVE W
  <2>1. is_transfer_expired(t) => Opened(t)
    BY DEF is_transfer_expired, Base, RowInv
  <2>2. QED
    BY <1>2, <2>1, GetWrites
<1>3. {"completed", "cancelled", "failed", "pending_buyer_otp"} \subseteq Status
  BY DEF Status, Pending
<1>4. {"ask_buyer", "accept", "end_transfer", "complete", "mark_failed"} \subseteq OfTransfer
  BY DEF OfTransfer, OfSale, Saga
<1>5. ASSUME NEW c \in Calls, AskBuyer(c) \/ AcceptTransfer(c) PROVE W
  BY <1>1, <1>3, <1>4, <1>5 DEF AskBuyer, AcceptTransfer, Attempt
<1>6. ASSUME NEW c \in Calls, EndTransfer(c) \/ MarkFailed(c) PROVE W
  BY <1>1, <1>3, <1>4, <1>6 DEF EndTransfer, MarkFailed, Attempt
<1>7. ASSUME NEW c \in Calls, CompleteTransfer(c) PROVE W
  BY <1>1, <1>3, <1>4, <1>7 DEF CompleteTransfer
<1>8. ASSUME NEW t \in TransferIds, read_transfer(t) PROVE W
  BY <1>2, <1>8 DEF read_transfer
<1>9. ASSUME NEW t \in TransferIds, resend_otp(t) PROVE W
  <2>1. get_transfer(t)
    BY <1>9 DEF resend_otp, patch_transfer, get_transfer
  <2>2. QED
    BY <1>2, <2>1
<1>10. ASSUME NEW c \in Calls, NEW t \in TransferIds, cancel_transfer(c, t) \/ on_timeout_message(c, t)
       PROVE  W
  <2>1. get_transfer(t) \/ UNCHANGED transfers
    BY <1>10 DEF cancel_transfer, on_timeout_message, Starts, tables
  <2>2. QED
    BY <1>2, <2>1
<1>11. QED
  BY <1>5, <1>6, <1>7, <1>8, <1>9, <1>10, Frames DEF Frame

\* The two sides' confirmations.
LEMMA ConfirmationWrites ==
  ASSUME Base, NEW c \in Calls, CheckBuyerOtp(c) \/ AskSeller(c) \/ CheckSellerOtp(c)
  PROVE  UNCHANGED transfers \/ Patched(job[c].transfer)
<1> DEFINE t == job[c].transfer
           x == transfers[t]
<1>1. pc[c] \in OfTransfer
  BY DEF CheckBuyerOtp, AskSeller, CheckSellerOtp, OfTransfer
<1>2. t \in TransferIds /\ x \in TransferRow /\ x.status # "none" /\ RowsOK
  BY <1>1, JobOpened DEF Base
<1>3. ASSUME NEW row \in Later(x), patch_transfer(t, row) PROVE Patched(t)
  <2>1. transfers' = [transfers EXCEPT ![t] = row] \/ Retitled(t)
    BY <1>3, PatchWrites
  <2>2. QED
    BY <1>2, <1>3, <2>1, RetitledIsPatched DEF Patched
<1>4. CASE CheckBuyerOtp(c)
  <2>1. \/ patch_transfer(t, [x EXCEPT !.buyerOtpVerified = TRUE])
        \/ UNCHANGED transfers
    BY <1>4 DEF CheckBuyerOtp, Attempt
  <2>2. [x EXCEPT !.buyerOtpVerified = TRUE] \in Later(x)
    BY <1>2, BuyerLater
  <2>3. QED
    BY <1>3, <2>1, <2>2
<1>5. CASE AskSeller(c)
  <2>1. \/ patch_transfer(t, [x EXCEPT !.buyerOtpVerified = TRUE, !.status = "pending_seller_otp"])
        \/ UNCHANGED transfers
    BY <1>5 DEF AskSeller, Attempt
  <2>2. [x EXCEPT !.buyerOtpVerified = TRUE, !.status = "pending_seller_otp"] \in Later(x)
    BY <1>2, AskLater
  <2>3. QED
    BY <1>3, <2>1, <2>2
<1>6. CASE CheckSellerOtp(c)
  <2>1. \/ patch_transfer(t, [x EXCEPT !.sellerOtpVerified = TRUE])
        \/ UNCHANGED transfers
    BY <1>6 DEF CheckSellerOtp, Attempt
  <2>2. [x EXCEPT !.sellerOtpVerified = TRUE] \in Later(x)
    BY <1>2, SellerLater
  <2>3. QED
    BY <1>3, <2>1, <2>2
<1>7. QED
  BY <1>4, <1>5, <1>6

\* A new transfer of a listing by somebody else.
NewRow(l, u) ==
  [NoTransfer EXCEPT !.listing = l, !.buyer = u, !.status = "pending_seller_acceptance"]

\* It is filled in, and not confirmed.
LEMMA NewRows ==
  ASSUME NEW l \in ListingIds, NEW u \in Users
  PROVE  /\ NewRow(l, u) \in TransferRow /\ NewRow(l, u).listing = l /\ NewRow(l, u).buyer = u
         /\ NewRow(l, u).status = "pending_seller_acceptance" /\ NewRow(l, u) # NoTransfer
         /\ NewRow(l, u).buyerOtpVerified = FALSE /\ NewRow(l, u).sellerOtpVerified = FALSE
<1> DEFINE a == [NoTransfer EXCEPT !.listing = l]
           b == [a EXCEPT !.buyer = u]
           r == [b EXCEPT !.status = "pending_seller_acceptance"]
<1>1. NoTransfer \in TransferRow /\ NoTransfer.status = "none"
      /\ NoTransfer.buyerOtpVerified = FALSE /\ NoTransfer.sellerOtpVerified = FALSE
  BY DEF NoTransfer, TransferRow
<1>2. a \in TransferRow /\ a.listing = l
      /\ a.buyerOtpVerified = FALSE /\ a.sellerOtpVerified = FALSE
  BY <1>1 DEF TransferRow
<1> HIDE DEF a
<1>3. b \in TransferRow /\ b.listing = l /\ b.buyer = u
      /\ b.buyerOtpVerified = FALSE /\ b.sellerOtpVerified = FALSE
  BY <1>2 DEF TransferRow
<1> HIDE DEF b
<1>4. r \in TransferRow /\ r.listing = l /\ r.buyer = u /\ r.status = "pending_seller_acceptance"
      /\ r.buyerOtpVerified = FALSE /\ r.sellerOtpVerified = FALSE
  BY <1>3 DEF TransferRow, Pending
<1>5. r = NewRow(l, u)
  BY DEF a, b, NewRow
<1> HIDE DEF r
<1>6. QED
  BY <1>1, <1>4, <1>5

\* What PostTransfer does to the transfers.
LEMMA PostWrites ==
  ASSUME Base, NEW c \in Calls, PostTransfer(c)
  PROVE  \/ UNCHANGED transfers
         \/ \E t \in TransferIds :
              /\ transfers[t] = NoTransfer
              /\ transfers' = [transfers EXCEPT ![t] = NewRow(job[c].listing, job[c].user)]
  BY DEF PostTransfer, create_transfer, NewRow

\* A request that opens a transfer knows its listing.
LEMMA PostKnows ==
  ASSUME Base, NEW c \in Calls, PostTransfer(c)
  PROVE  /\ Known(job[c].listing) /\ job[c].listing \in ListingIds /\ job[c].user \in Users
         /\ listings[job[c].listing].seller # job[c].user
  BY DEF Base, PostTransfer, JobInv, Fits, Known

\* A transfer stays, keeping its listing, its buyer and its confirmations.
LEMMA TransfersPersist ==
  ASSUME Base, [Next]_vars
  PROVE  /\ transfers' \in [TransferIds -> TransferRow]
         /\ \A t \in TransferIds : Opened(t) =>
              Opened(t)' /\ (transfers'[t] = transfers[t] \/ transfers'[t] \in Later(transfers[t]))
<1> DEFINE G == /\ transfers' \in [TransferIds -> TransferRow]
                /\ \A t \in TransferIds : Opened(t) =>
                     /\ Opened(t)'
                     /\ transfers'[t] = transfers[t] \/ transfers'[t] \in Later(transfers[t])
<1>1. transfers \in [TransferIds -> TransferRow] /\ RowsOK
  BY DEF Base, RowsOK
<1>2. CASE UNCHANGED transfers
  BY <1>1, <1>2 DEF Opened
<1>3. ASSUME NEW t \in TransferIds, Opened(t), Patched(t) PROVE G
  <2>1. PICK r \in Later(transfers[t]) : transfers' = [transfers EXCEPT ![t] = r]
    BY <1>3 DEF Patched
  <2>2. r \in TransferRow /\ r # NoTransfer
    BY <2>1 DEF Later, NoTransfer
  <2>3. transfers'[t] = r /\ \A x \in TransferIds \ {t} : transfers'[x] = transfers[x]
    BY <1>1, <2>1
  <2>4. QED
    BY <1>1, <2>1, <2>2, <2>3 DEF Opened
<1>4. ASSUME NEW c \in Calls, PostTransfer(c) PROVE G
  <2>1. CASE UNCHANGED transfers
    BY <1>2, <2>1
  <2>2. ASSUME NEW t \in TransferIds, transfers[t] = NoTransfer,
               transfers' = [transfers EXCEPT ![t] = NewRow(job[c].listing, job[c].user)]
        PROVE  G
    <3>1. NewRow(job[c].listing, job[c].user) \in TransferRow
      BY <1>4, PostKnows, NewRows
    <3>2. \A x \in TransferIds \ {t} : transfers'[x] = transfers[x]
      BY <1>1, <2>2
    <3>3. QED
      BY <1>1, <2>2, <3>1, <3>2 DEF Opened
  <2>3. QED
    BY <1>4, <2>1, <2>2, PostWrites
<1>5. ASSUME NEW c \in Calls, CheckBuyerOtp(c) \/ AskSeller(c) \/ CheckSellerOtp(c) PROVE G
  <2>1. pc[c] \in OfTransfer
    BY <1>5 DEF CheckBuyerOtp, AskSeller, CheckSellerOtp, OfTransfer
  <2>2. QED
    BY <1>2, <1>3, <1>5, <2>1, JobOpened, ConfirmationWrites
<1>6. ASSUME NEW t \in TransferIds, Opened(t), Retitled(t) PROVE G
  BY <1>1, <1>3, <1>6, RetitledIsPatched
<1>7. G
  BY <1>2, <1>4, <1>5, <1>6, TransferWrites
<1>8. QED
  BY <1>7

\* A listing stays, keeping its ticket and its seller.
LEMMA ListingsPersist ==
  ASSUME Base, [Next]_vars
  PROVE  /\ listings' \in [ListingIds -> Listing]
         /\ \A l \in ListingIds : Known(l) =>
              /\ Known(l)'
              /\ listings'[l].ticket = listings[l].ticket /\ listings'[l].seller = listings[l].seller
         /\ \A l \in ListingIds : Known(l)' =>
              listings'[l].ticket \in Tickets /\ listings'[l].seller \in Users
<1> DEFINE G == /\ listings' \in [ListingIds -> Listing]
                /\ \A l \in ListingIds : Known(l) =>
                     /\ Known(l)'
                     /\ listings'[l].ticket = listings[l].ticket
                     /\ listings'[l].seller = listings[l].seller
                /\ \A l \in ListingIds : Known(l)' =>
                     listings'[l].ticket \in Tickets /\ listings'[l].seller \in Users
<1>1. /\ listings \in [ListingIds -> Listing]
      /\ \A l \in ListingIds : Known(l) =>
           listings[l].ticket \in Tickets /\ listings[l].seller \in Users
  BY DEF Base, RowsOK, RowInv
<1>2. CASE UNCHANGED listings
  BY <1>1, <1>2 DEF Known
<1>3. ASSUME NEW l \in ListingIds, Known(l), NEW st \in {"active", "completed", "cancelled"},
             update_listing(l, st)
      PROVE  G
  <2> DEFINE r == [listings[l] EXCEPT !.status = st]
  <2>1. r \in Listing /\ r.ticket = listings[l].ticket /\ r.seller = listings[l].seller
    BY <1>1 DEF Listing
  <2>2. listings' = [listings EXCEPT ![l] = r]
    BY <1>3 DEF update_listing
  <2> HIDE DEF r
  <2>3. listings'[l] = r /\ \A m \in ListingIds \ {l} : listings'[m] = listings[m]
    BY <1>1, <2>2
  <2>4. r # NoListing
    BY <1>1, <1>3, <2>1, NullAssumption DEF NoListing
  <2>5. listings' \in [ListingIds -> Listing]
    BY <1>1, <2>1, <2>2
  <2>6. QED
    BY <1>1, <1>3, <2>1, <2>3, <2>4, <2>5 DEF Known
<1>4. ASSUME NEW k \in Tickets, NEW u \in Users, create_listing(k, u) PROVE G
  <2> DEFINE r == [ticket |-> k, seller |-> u, status |-> "active"]
  <2>1. PICK l \in ListingIds : listings[l] = NoListing /\ listings' = [listings EXCEPT ![l] = r]
    BY <1>4 DEF create_listing
  <2>2. r \in Listing /\ r.ticket = k /\ r.seller = u
    BY DEF Listing
  <2> HIDE DEF r
  <2>3. listings'[l] = r /\ \A m \in ListingIds \ {l} : listings'[m] = listings[m]
    BY <1>1, <2>1
  <2>4. listings' \in [ListingIds -> Listing]
    BY <1>1, <2>1, <2>2
  <2>5. QED
    BY <1>1, <2>1, <2>2, <2>3, <2>4 DEF Known
<1>5. ASSUME NEW c \in Calls, PostListing(c) PROVE G
  <2>1. job[c].ticket \in Tickets /\ job[c].user \in Users
    BY <1>5 DEF PostListing, Base, JobInv, Fits
  <2>2. create_listing(job[c].ticket, job[c].user) \/ UNCHANGED listings
    BY <1>5 DEF PostListing
  <2>3. QED
    BY <1>2, <1>4, <2>1, <2>2
<1>6. ASSUME NEW c \in Calls, CancelListing(c) PROVE G
  <2>1. Known(job[c].listing) /\ job[c].listing \in ListingIds
    BY <1>6 DEF CancelListing, Base, JobInv, Fits, Known
  <2>2. update_listing(job[c].listing, "cancelled") \/ UNCHANGED listings
    BY <1>6 DEF CancelListing
  <2>3. QED
    BY <1>2, <1>3, <2>1, <2>2
<1>7. ASSUME NEW c \in Calls, \/ ReopenListing(c) \/ TimeoutListing(c) \/ CloseListing(c)
                              \/ UndoListing(c)
      PROVE  G
  <2> DEFINE l == transfers[job[c].transfer].listing
  <2>1. pc[c] \in OfTransfer
    BY <1>7 DEF ReopenListing, TimeoutListing, CloseListing, UndoListing, OfTransfer, OfSale, Saga
  <2>2. Known(l) /\ l \in ListingIds
    BY <2>1, JobOpened DEF Base, RowInv, Known
  <2>3. \E st \in {"active", "completed"} : update_listing(l, st) \/ UNCHANGED listings
    BY <1>7 DEF ReopenListing, TimeoutListing, CloseListing, UndoListing, Attempt
  <2> HIDE DEF l
  <2>4. QED
    BY <1>2, <1>3, <2>2, <2>3
<1>8. G
  BY <1>2, <1>5, <1>6, <1>7, Frames DEF Frame
<1>9. QED
  BY <1>8

\* Buyer, seller and ticket of a transfer do not change.
LEMMA PartiesStay ==
  ASSUME Base, [Next]_vars, NEW t \in TransferIds, Opened(t)
  PROVE  /\ Opened(t)' /\ transfers'[t].listing = transfers[t].listing
         /\ Buyer(t)' = Buyer(t) /\ Seller(t)' = Seller(t) /\ TicketOf(t)' = TicketOf(t)
         /\ Known(transfers[t].listing)
<1>1. Known(transfers[t].listing) /\ transfers[t].listing \in ListingIds
  BY DEF Base, RowInv, Known
<1>2. Opened(t)' /\ transfers'[t].listing = transfers[t].listing /\ Buyer(t)' = Buyer(t)
  BY TransfersPersist DEF Later, Buyer
<1>3. QED
  BY <1>1, <1>2, ListingsPersist DEF Seller, TicketOf

\* Rows stay as they are to be.
LEMMA RowStep ==
  ASSUME Base, [Next]_vars
  PROVE  RowsOK' /\ RowInv'
<1>1. overdue' \subseteq TransferIds /\ \A t \in overdue' : Opened(t)
  <2>1. overdue \subseteq TransferIds /\ \A t \in overdue : Opened(t)
    BY DEF Base, RowsOK, RowInv
  <2>2. ASSUME NEW t \in TransferIds, TimePasses(t)
        PROVE  overdue' \subseteq TransferIds /\ \A x \in overdue' : Opened(x)
    <3>1. Opened(t)
      BY <2>2 DEF TimePasses, Opened, NoTransfer
    <3>2. overdue' = overdue \cup {t}
      BY <2>2 DEF TimePasses
    <3>3. QED
      BY <2>1, <3>1, <3>2
  <2>3. UNCHANGED overdue \/ \E t \in TransferIds : TimePasses(t)
    BY Frames DEF Frame
  <2>4. QED
    BY <2>1, <2>2, <2>3
<1>2. RowsOK'
  BY <1>1, TransfersPersist, ListingsPersist DEF RowsOK
<1>3. \A t \in overdue' : Opened(t)'
  BY <1>1, TransfersPersist
<1>4. ASSUME NEW t \in TransferIds, Opened(t)'
      PROVE  /\ Known(transfers[t].listing)' /\ Buyer(t)' \in Users /\ Buyer(t)' # Seller(t)'
             /\ transfers'[t].status # "none"
  <2>1. CASE Opened(t)
    <3>1. /\ Known(transfers[t].listing) /\ transfers[t].listing \in ListingIds
          /\ Buyer(t) \in Users /\ Buyer(t) # Seller(t) /\ transfers[t].status # "none"
      BY <2>1 DEF Base, RowInv, Known
    <3>2. PICK m \in ListingIds : m = transfers[t].listing /\ Known(m)
      BY <3>1
    <3>3. Known(transfers[t].listing)'
      <4>1. Known(m)'
        BY <3>2, ListingsPersist
      <4>2. transfers'[t].listing = m
        BY <2>1, <3>2, PartiesStay
      <4>3. QED
        BY <4>1, <4>2 DEF Known
    <3>4. transfers'[t].status # "none"
      BY <2>1, <3>1, TransfersPersist DEF Later
    <3>5. QED
      BY <2>1, <3>1, <3>3, <3>4, PartiesStay
  <2>2. CASE ~ Opened(t)
    <3>1. transfers[t] = NoTransfer /\ transfers'[t] # NoTransfer
      BY <1>4, <2>2 DEF Opened
    <3>2. transfers \in [TransferIds -> TransferRow] /\ RowsOK
      BY DEF Base, RowsOK
    <3>3. PICK c \in Calls : PostTransfer(c)
      <4>1. ~ UNCHANGED transfers
        BY <3>1
      <4>2. ASSUME NEW x \in TransferIds, Opened(x), Patched(x) PROVE FALSE
        <5>1. x # t
          BY <2>2, <4>2
        <5>2. transfers'[t] = transfers[t]
          BY <3>2, <4>2, <5>1 DEF Patched
        <5>3. QED
          BY <3>1, <5>2
      <4>3. ~ \E x \in TransferIds : Opened(x) /\ Retitled(x)
        BY <3>2, <4>2, RetitledIsPatched
      <4>4. ASSUME NEW c \in Calls, CheckBuyerOtp(c) \/ AskSeller(c) \/ CheckSellerOtp(c) PROVE FALSE
        <5>1. pc[c] \in OfTransfer
          BY <4>4 DEF CheckBuyerOtp, AskSeller, CheckSellerOtp, OfTransfer
        <5>2. QED
          BY <4>1, <4>2, <4>4, <5>1, JobOpened, ConfirmationWrites
      <4>5. QED
        BY <4>1, <4>3, <4>4, TransferWrites
    <3>4. PICK l \in ListingIds, u \in Users :
            /\ l = job[c].listing /\ u = job[c].user /\ Known(l) /\ listings[l].seller # u
      BY <3>3, PostKnows
    <3>5. transfers'[t] = NewRow(l, u)
      <4>1. PICK x \in TransferIds : transfers' = [transfers EXCEPT ![x] = NewRow(l, u)]
        BY <3>1, <3>3, <3>4, PostWrites
      <4>2. x = t
        BY <3>1, <3>2, <4>1
      <4>3. QED
        BY <3>2, <4>1, <4>2
    <3>6. /\ transfers'[t].listing = l /\ transfers'[t].buyer = u
          /\ transfers'[t].status = "pending_seller_acceptance"
      <4>1. /\ NewRow(l, u).listing = l /\ NewRow(l, u).buyer = u
            /\ NewRow(l, u).status = "pending_seller_acceptance"
        BY NewRows
      <4>2. QED
        BY <3>5, <4>1
    <3>7. Known(l)' /\ listings'[l].seller = listings[l].seller
      BY <3>4, ListingsPersist
    <3>8. QED
      BY <3>4, <3>6, <3>7 DEF Buyer, Seller, Known
  <2>3. QED
    BY <2>1, <2>2
<1>5. QED
  BY <1>2, <1>3, <1>4, ListingsPersist DEF RowInv

-------------------------------------------------------------------------------
(* Requests: each step finds in its job what it needs. *)

\* The jobs requests begin with.
LEMMA Jobs ==
  /\ NoJob \in Job
  /\ \A u \in Users, k \in Tickets :
       LET j == [NoJob EXCEPT !.user = u, !.ticket = k] IN
       j \in Job /\ j.user = u /\ j.ticket = k
  /\ \A l \in ListingIds :
       LET j == [NoJob EXCEPT !.listing = l] IN j \in Job /\ j.listing = l
  /\ \A u \in Users, l \in ListingIds :
       LET j == [NoJob EXCEPT !.user = u, !.listing = l] IN
       j \in Job /\ j.user = u /\ j.listing = l
  /\ \A t \in TransferIds :
       LET j == [NoJob EXCEPT !.transfer = t] IN j \in Job /\ j.transfer = t
<1>1. NoJob \in Job
  BY DEF NoJob, Job
<1>2. ASSUME NEW u \in Users PROVE [NoJob EXCEPT !.user = u] \in Job /\ [NoJob EXCEPT !.user = u].user = u
  BY <1>1 DEF Job
<1>3. ASSUME NEW u \in Users, NEW k \in Tickets
      PROVE  LET j == [NoJob EXCEPT !.user = u, !.ticket = k] IN
             j \in Job /\ j.user = u /\ j.ticket = k
  <2> DEFINE a == [NoJob EXCEPT !.user = u]
  <2>1. a \in Job /\ a.user = u
    BY <1>2
  <2> HIDE DEF a
  <2>2. LET j == [a EXCEPT !.ticket = k] IN j \in Job /\ j.user = u /\ j.ticket = k
    BY <2>1 DEF Job
  <2>3. QED
    BY <2>2 DEF a
<1>4. ASSUME NEW l \in ListingIds
      PROVE  LET j == [NoJob EXCEPT !.listing = l] IN j \in Job /\ j.listing = l
  BY <1>1 DEF Job
<1>5. ASSUME NEW u \in Users, NEW l \in ListingIds
      PROVE  LET j == [NoJob EXCEPT !.user = u, !.listing = l] IN
             j \in Job /\ j.user = u /\ j.listing = l
  <2> DEFINE a == [NoJob EXCEPT !.user = u]
  <2>1. a \in Job /\ a.user = u
    BY <1>2
  <2> HIDE DEF a
  <2>2. LET j == [a EXCEPT !.listing = l] IN j \in Job /\ j.user = u /\ j.listing = l
    BY <2>1 DEF Job
  <2>3. QED
    BY <2>2 DEF a
<1>6. ASSUME NEW t \in TransferIds
      PROVE  LET j == [NoJob EXCEPT !.transfer = t] IN j \in Job /\ j.transfer = t
  BY <1>1 DEF Job
<1>7. QED
  BY <1>1, <1>3, <1>4, <1>5, <1>6

\* What a job is about is still there later.
LEMMA FitsStay ==
  ASSUME Base, [Next]_vars, NEW step, NEW j \in Job, Fits(step, j)
  PROVE  Fits(step, j)'
<1>1. j.listing \in ListingIds /\ Known(j.listing) =>
        Known(j.listing)' /\ listings'[j.listing].seller = listings[j.listing].seller
  BY ListingsPersist
<1>2. j.transfer \in TransferIds /\ Opened(j.transfer) => Opened(j.transfer)'
  BY TransfersPersist
<1>3. QED
  BY <1>1, <1>2 DEF Fits, Known, Opened

\* One request moves to a step that its job fits.
LEMMA MoveOK ==
  ASSUME Base, [Next]_vars, NEW c \in Calls, NEW step \in Pc, NEW j \in Job,
         Fits(step, j) \/ Fits(step, j)',
         pc' = [pc EXCEPT ![c] = step],
         job' = [job EXCEPT ![c] = j] \/ (job' = job /\ j = job[c])
  PROVE  ThreadsOK' /\ JobInv'
<1>1. ThreadsOK'
  BY DEF Base, ThreadsOK
<1>2. /\ pc'[c] = step /\ job'[c] = j
      /\ \A d \in Calls \ {c} : pc'[d] = pc[d] /\ job'[d] = job[d]
  BY DEF Base, ThreadsOK
<1>3. Fits(step, j)'
  BY FitsStay
<1>4. ASSUME NEW d \in Calls \ {c} PROVE Fits(pc[d], job[d])'
  <2>1. PICK s \in Pc, i \in Job : s = pc[d] /\ i = job[d] /\ Fits(s, i)
    BY DEF Base, ThreadsOK, JobInv
  <2>2. Fits(s, i)'
    BY <2>1, FitsStay
  <2>3. pc'[d] = s /\ job'[d] = i
    BY <1>2, <2>1
  <2>4. QED
    BY <2>2, <2>3 DEF Fits, Known, Opened
<1>5. Fits(pc[c], job[c])'
  BY <1>2, <1>3 DEF Fits, Known, Opened
<1>6. QED
  BY <1>1, <1>4, <1>5 DEF JobInv

\* A request ends.
LEMMA AnswerOK ==
  ASSUME Base, [Next]_vars, NEW c \in Calls, Answer(c)
  PROVE  ThreadsOK' /\ JobInv'
<1>1. Fits("idle", NoJob) /\ "idle" \in Pc
  BY DEF Fits, Pc, OfTransfer, OfSale, Saga
<1>2. QED
  BY <1>1, Jobs, MoveOK DEF Answer

\* A request goes on to a step that its job fits as well.
LEMMA GotoOK ==
  ASSUME Base, [Next]_vars, NEW c \in Calls, NEW step \in Pc, Fits(step, job[c]), Goto(c, step)
  PROVE  ThreadsOK' /\ JobInv'
<1>1. job[c] \in Job
  BY DEF Base, ThreadsOK
<1>2. QED
  BY <1>1, MoveOK DEF Goto

\* The steps of sales follow one another with the same job.
LEMMA SaleGotoOK ==
  ASSUME Base, [Next]_vars, NEW c \in Calls, pc[c] \in Saga \/ pc[c] = "seller_balance",
         NEW step \in Saga \cup {"mark_failed"}, Goto(c, step)
  PROVE  ThreadsOK' /\ JobInv'
<1>1. Fits(pc[c], job[c]) /\ pc[c] \in OfTransfer
  BY DEF Base, JobInv, OfTransfer, OfSale
<1>2. Opened(job[c].transfer) /\ job[c].buyerBalance >= Price
  BY <1>1 DEF Fits
<1>3. Fits(step, job[c]) /\ step \in Pc
  BY <1>2 DEF Fits, Saga, Pc
<1>4. QED
  BY <1>3, GotoOK

\* A request about a transfer begins.
LEMMA BeginOK ==
  ASSUME Base, [Next]_vars, NEW c \in Calls, NEW t \in TransferIds, Opened(t),
         NEW step \in OfTransfer \ (Saga \cup {"seller_balance"}),
         Begin(c, step, [NoJob EXCEPT !.transfer = t])
  PROVE  ThreadsOK' /\ JobInv'
<1> DEFINE j == [NoJob EXCEPT !.transfer = t]
<1>1. j \in Job /\ j.transfer = t
  BY Jobs
<1>2. pc' = [pc EXCEPT ![c] = step] /\ job' = [job EXCEPT ![c] = j]
  BY DEF Begin
<1> HIDE DEF j
<1>3. Fits(step, j) /\ step \in Pc
  BY <1>1 DEF Fits, OfTransfer, OfSale, Pc
<1>4. QED
  BY <1>1, <1>2, <1>3, MoveOK

\* Requests stay as they are to be.
LEMMA ThreadStep ==
  ASSUME Base, [Next]_vars
  PROVE  ThreadsOK' /\ JobInv'
<1>1. CASE UNCHANGED <<pc, job>>
  <2>1. ThreadsOK'
    BY <1>1 DEF Base, ThreadsOK
  <2>2. ASSUME NEW d \in Calls PROVE Fits(pc[d], job[d])'
    <3>1. PICK s \in Pc, i \in Job : s = pc[d] /\ i = job[d] /\ Fits(s, i)
      BY DEF Base, ThreadsOK, JobInv
    <3>2. Fits(s, i)'
      BY <3>1, FitsStay
    <3>3. pc'[d] = s /\ job'[d] = i
      BY <1>1, <3>1
    <3>4. QED
      BY <3>2, <3>3 DEF Fits, Known, Opened
  <2>3. QED
    BY <2>1, <2>2 DEF JobInv
<1>2. ASSUME NEW c \in Calls, Answer(c) PROVE ThreadsOK' /\ JobInv'
  BY <1>2, AnswerOK
<1>4. ASSUME NEW c \in Calls, NEW u \in Users, NEW k \in Tickets, list_ticket(c, u, k)
      PROVE  ThreadsOK' /\ JobInv'
  <2> DEFINE j == [NoJob EXCEPT !.user = u, !.ticket = k]
  <2>1. j \in Job /\ j.user = u /\ j.ticket = k
    BY Jobs
  <2>2. pc' = [pc EXCEPT ![c] = "mark_listed"] /\ job' = [job EXCEPT ![c] = j]
    BY <1>4 DEF list_ticket, Begin
  <2> HIDE DEF j
  <2>3. Fits("mark_listed", j) /\ "mark_listed" \in Pc
    BY <2>1 DEF Fits, OfTransfer, OfSale, Saga, Pc
  <2>4. QED
    BY <2>1, <2>2, <2>3, MoveOK
<1>5. ASSUME NEW c \in Calls, NEW l \in ListingIds, delist(c, l) PROVE ThreadsOK' /\ JobInv'
  <2> DEFINE j == [NoJob EXCEPT !.listing = l]
  <2>1. j \in Job /\ j.listing = l
    BY Jobs
  <2>2. pc' = [pc EXCEPT ![c] = "cancel_listing"] /\ job' = [job EXCEPT ![c] = j] /\ Known(l)
    BY <1>5 DEF delist, Begin, get_listing, Known, NoListing
  <2> HIDE DEF j
  <2>3. Fits("cancel_listing", j) /\ "cancel_listing" \in Pc
    BY <2>1, <2>2 DEF Fits, OfTransfer, OfSale, Saga, Pc
  <2>4. QED
    BY <2>1, <2>2, <2>3, MoveOK
<1>6. ASSUME NEW c \in Calls, NEW u \in Users, NEW l \in ListingIds, initiate(c, u, l)
      PROVE  ThreadsOK' /\ JobInv'
  <2> DEFINE j == [NoJob EXCEPT !.user = u, !.listing = l]
  <2>1. j \in Job /\ j.user = u /\ j.listing = l
    BY Jobs
  <2>2. /\ pc' = [pc EXCEPT ![c] = "post_transfer"] /\ job' = [job EXCEPT ![c] = j]
        /\ Known(l) /\ listings[l].seller # u
    BY <1>6 DEF initiate, Begin, get_listing, Known, NoListing
  <2> HIDE DEF j
  <2>3. Fits("post_transfer", j) /\ "post_transfer" \in Pc
    BY <2>1, <2>2 DEF Fits, OfTransfer, OfSale, Saga, Pc
  <2>4. QED
    BY <2>1, <2>2, <2>3, MoveOK
<1>7. ASSUME NEW c \in Calls, NEW t \in TransferIds,
             \/ seller_accept(c, t) \/ buyer_verify(c, t) \/ seller_verify(c, t)
             \/ seller_reject(c, t) \/ cancel_transfer(c, t) \/ on_timeout_message(c, t)
      PROVE  ThreadsOK' /\ JobInv'
  <2>1. \/ UNCHANGED <<pc, job>>
        \/ /\ transfers[t].status # "none"
           /\ \E step \in {"accept", "check_buyer_otp", "check_seller_otp", "end_transfer",
                           "timeout_listing"} :
                Begin(c, step, [NoJob EXCEPT !.transfer = t])
    BY <1>7 DEF seller_accept, buyer_verify, seller_verify, seller_reject, cancel_transfer,
                on_timeout_message, Starts, Pending
  <2>2. transfers[t].status # "none" => Opened(t)
    BY DEF Opened, NoTransfer
  <2>3. {"accept", "check_buyer_otp", "check_seller_otp", "end_transfer", "timeout_listing"}
          \subseteq OfTransfer \ (Saga \cup {"seller_balance"})
    BY DEF OfTransfer, OfSale, Saga
  <2>4. QED
    BY <1>1, <2>1, <2>2, <2>3, BeginOK
<1>8. ASSUME NEW c \in Calls, \/ MarkListed(c) \/ PostListing(c) \/ UnmarkListed(c)
                              \/ CancelListing(c) \/ Unlist(c)
      PROVE  ThreadsOK' /\ JobInv'
  <2>1. \/ Answer(c)
        \/ pc[c] = "mark_listed" /\ Goto(c, "post_listing")
        \/ pc[c] = "post_listing" /\ Goto(c, "unmark_listed")
        \/ pc[c] = "cancel_listing" /\ Goto(c, "unlist")
    BY <1>8 DEF MarkListed, PostListing, UnmarkListed, CancelListing, Unlist
  <2>2. Fits(pc[c], job[c])
    BY DEF Base, JobInv
  <2>3. /\ pc[c] = "mark_listed" => Fits("post_listing", job[c])
        /\ pc[c] = "post_listing" => Fits("unmark_listed", job[c])
        /\ pc[c] = "cancel_listing" => Fits("unlist", job[c])
        /\ {"post_listing", "unmark_listed", "unlist"} \subseteq Pc
    BY <2>2 DEF Fits, OfTransfer, OfSale, Saga, Pc
  <2>4. QED
    BY <1>2, <2>1, <2>3, GotoOK
<1>9. ASSUME NEW c \in Calls, PostTransfer(c) PROVE ThreadsOK' /\ JobInv'
  <2>1. CASE Answer(c)
    BY <1>2, <2>1
  <2>2. ASSUME NEW t \in TransferIds, create_transfer(c, t), pc' = [pc EXCEPT ![c] = "ask_buyer"],
               job' = [job EXCEPT ![c].transfer = t]
        PROVE  ThreadsOK' /\ JobInv'
    <3> DEFINE j == [job[c] EXCEPT !.transfer = t]
    <3>1. job \in [Calls -> Job] /\ transfers \in [TransferIds -> TransferRow]
      BY DEF Base, ThreadsOK, RowsOK
    <3>2. j \in Job /\ j.transfer = t
      BY <3>1 DEF Job
    <3>3. job' = [job EXCEPT ![c] = j]
      BY <2>2, <3>1
    <3> HIDE DEF j
    <3>4. Opened(t)'
      <4>1. transfers'[t] = NewRow(job[c].listing, job[c].user)
        BY <2>2, <3>1 DEF create_transfer, NewRow
      <4>2. NewRow(job[c].listing, job[c].user) # NoTransfer
        BY <1>9, PostKnows, NewRows
      <4>3. QED
        BY <4>1, <4>2 DEF Opened
    <3>5. PICK i \in Job : i.transfer = t /\ job' = [job EXCEPT ![c] = i]
      BY <3>2, <3>3
    <3>6. Fits("ask_buyer", i)' /\ "ask_buyer" \in Pc
      BY <3>4, <3>5 DEF Fits, OfTransfer, OfSale, Saga, Pc, Opened
    <3>7. QED
      BY <2>2, <3>5, <3>6, MoveOK
  <2>3. QED
    BY <1>9, <2>1, <2>2 DEF PostTransfer
<1>10. ASSUME NEW c \in Calls, \/ AskBuyer(c) \/ AcceptTransfer(c) \/ CheckBuyerOtp(c) \/ AskSeller(c)
                               \/ EndTransfer(c) \/ ReopenListing(c) \/ Relist(c) \/ TimeoutListing(c)
                               \/ MarkFailed(c)
       PROVE  ThreadsOK' /\ JobInv'
  <2>1. \/ Answer(c)
        \/ pc[c] = "check_buyer_otp" /\ Goto(c, "ask_seller")
        \/ pc[c] = "end_transfer" /\ Goto(c, "reopen_listing")
        \/ pc[c] = "reopen_listing" /\ Goto(c, "relist")
    BY <1>10 DEF AskBuyer, AcceptTransfer, CheckBuyerOtp, AskSeller, EndTransfer, ReopenListing,
                 Relist, TimeoutListing, MarkFailed
  <2>2. Fits(pc[c], job[c])
    BY DEF Base, JobInv
  <2>3. /\ pc[c] = "check_buyer_otp" => Fits("ask_seller", job[c])
        /\ pc[c] = "end_transfer" => Fits("reopen_listing", job[c])
        /\ pc[c] = "reopen_listing" => Fits("relist", job[c])
        /\ {"ask_seller", "reopen_listing", "relist"} \subseteq Pc
    BY <2>2 DEF Fits, OfTransfer, OfSale, Saga, Pc
  <2>4. QED
    BY <1>2, <2>1, <2>3, GotoOK
<1>11. ASSUME NEW c \in Calls, CheckSellerOtp(c) PROVE ThreadsOK' /\ JobInv'
  <2> DEFINE k == TicketOf(job[c].transfer)
  <2>1. pc[c] = "check_seller_otp" /\ job \in [Calls -> Job] /\ Fits(pc[c], job[c])
    BY <1>11 DEF CheckSellerOtp, Base, ThreadsOK, JobInv
  <2>2. Opened(job[c].transfer)
    BY <2>1 DEF Fits, OfTransfer
  <2>3. k \in Tickets
    BY <2>2 DEF Base, RowInv, Opened, Known, TicketOf
  <2>4. \/ Answer(c)
        \/ Goto(c, "buyer_balance")
        \/ pc' = [pc EXCEPT ![c] = "buyer_balance"] /\ job' = [job EXCEPT ![c].ticket = k]
    BY <1>11 DEF CheckSellerOtp, Goto
  <2> HIDE DEF k
  <2>5. CASE Goto(c, "buyer_balance")
    <3>1. Fits("buyer_balance", job[c]) /\ "buyer_balance" \in Pc
      BY <2>2 DEF Fits, OfTransfer, OfSale, Saga, Pc
    <3>2. QED
      BY <2>5, <3>1, GotoOK
  <2>6. CASE pc' = [pc EXCEPT ![c] = "buyer_balance"] /\ job' = [job EXCEPT ![c].ticket = k]
    <3> DEFINE j == [job[c] EXCEPT !.ticket = k]
    <3>1. j \in Job /\ j.transfer = job[c].transfer
      BY <2>1, <2>3 DEF Job
    <3>2. job' = [job EXCEPT ![c] = j]
      BY <2>1, <2>6
    <3> HIDE DEF j
    <3>3. Fits("buyer_balance", j) /\ "buyer_balance" \in Pc
      BY <2>2, <3>1 DEF Fits, OfTransfer, OfSale, Saga, Pc
    <3>4. QED
      BY <2>6, <3>1, <3>2, <3>3, MoveOK
  <2>7. QED
    BY <1>2, <2>4, <2>5, <2>6
<1>12. ASSUME NEW c \in Calls, ReadBuyerBalance(c) PROVE ThreadsOK' /\ JobInv'
  <2> DEFINE b == credits[Buyer(job[c].transfer)]
  <2>1. /\ pc[c] = "buyer_balance" /\ job \in [Calls -> Job] /\ Fits(pc[c], job[c])
        /\ credits \in [Users -> Nat]
    BY <1>12 DEF ReadBuyerBalance, Base, ThreadsOK, JobInv
  <2>2. Opened(job[c].transfer) /\ Buyer(job[c].transfer) \in Users
    BY <2>1 DEF Fits, OfTransfer, OfSale, Base, RowInv, Opened
  <2>3. b \in Nat
    BY <2>1, <2>2
  <2>4. \/ Goto(c, "mark_failed")
        \/ /\ pc' = [pc EXCEPT ![c] = "seller_balance"] /\ job' = [job EXCEPT ![c].buyerBalance = b]
           /\ b >= Price
    BY <1>12 DEF ReadBuyerBalance, get_credit_balance
  <2> HIDE DEF b
  <2>5. CASE Goto(c, "mark_failed")
    <3>1. Fits("mark_failed", job[c]) /\ "mark_failed" \in Pc
      BY <2>2 DEF Fits, OfTransfer, OfSale, Saga, Pc
    <3>2. QED
      BY <2>5, <3>1, GotoOK
  <2>6. CASE /\ pc' = [pc EXCEPT ![c] = "seller_balance"] /\ job' = [job EXCEPT ![c].buyerBalance = b]
             /\ b >= Price
    <3> DEFINE j == [job[c] EXCEPT !.buyerBalance = b]
    <3>1. j \in Job /\ j.transfer = job[c].transfer /\ j.buyerBalance = b
      BY <2>1, <2>3 DEF Job
    <3>2. job' = [job EXCEPT ![c] = j]
      BY <2>1, <2>6
    <3> HIDE DEF j
    <3>3. Fits("seller_balance", j) /\ "seller_balance" \in Pc
      BY <2>2, <2>6, <3>1 DEF Fits, OfTransfer, OfSale, Saga, Pc
    <3>4. QED
      BY <2>6, <3>1, <3>2, <3>3, MoveOK
  <2>7. QED
    BY <2>4, <2>5, <2>6
<1>13. ASSUME NEW c \in Calls, ReadSellerBalance(c) PROVE ThreadsOK' /\ JobInv'
  <2> DEFINE b == credits[Seller(job[c].transfer)]
  <2>1. /\ pc[c] = "seller_balance" /\ job \in [Calls -> Job] /\ Fits(pc[c], job[c])
        /\ credits \in [Users -> Nat]
    BY <1>13 DEF ReadSellerBalance, Base, ThreadsOK, JobInv
  <2>2. /\ Opened(job[c].transfer) /\ job[c].buyerBalance >= Price
        /\ Seller(job[c].transfer) \in Users
    BY <2>1 DEF Fits, OfTransfer, OfSale, Base, RowInv, Opened, Known, Seller
  <2>3. b \in Nat
    BY <2>1, <2>2
  <2>4. \/ Answer(c)
        \/ pc' = [pc EXCEPT ![c] = "pay"] /\ job' = [job EXCEPT ![c].sellerBalance = b]
    BY <1>13 DEF ReadSellerBalance, get_credit_balance
  <2> HIDE DEF b
  <2>5. CASE pc' = [pc EXCEPT ![c] = "pay"] /\ job' = [job EXCEPT ![c].sellerBalance = b]
    <3> DEFINE j == [job[c] EXCEPT !.sellerBalance = b]
    <3>1. j \in Job /\ j.transfer = job[c].transfer /\ j.buyerBalance = job[c].buyerBalance
      BY <2>1, <2>3 DEF Job
    <3>2. job' = [job EXCEPT ![c] = j]
      BY <2>1, <2>5
    <3> HIDE DEF j
    <3>3. Fits("pay", j) /\ "pay" \in Pc
      BY <2>2, <3>1 DEF Fits, OfTransfer, OfSale, Saga, Pc
    <3>4. QED
      BY <2>5, <3>1, <3>2, <3>3, MoveOK
  <2>6. QED
    BY <1>2, <2>4, <2>5
<1>14. ASSUME NEW c \in Calls, \/ PayBuyer(c) \/ CreditSeller(c) \/ MoveTicket(c) \/ CloseListing(c)
                               \/ CompleteTransfer(c)
       PROVE  ThreadsOK' /\ JobInv'
  <2>1. /\ pc[c] \in Saga
        /\ Answer(c) \/ \E step \in Saga \cup {"mark_failed"} : Goto(c, step)
    BY <1>14 DEF PayBuyer, CreditSeller, WriteBalance, MoveTicket, CloseListing, CompleteTransfer, Saga
  <2>2. QED
    BY <1>2, <2>1, SaleGotoOK
<1>15. ASSUME NEW c \in Calls, \/ UndoListing(c) \/ UndoMove(c) \/ UndoSellerCredit(c)
                               \/ UndoBuyerPayment(c)
       PROVE  ThreadsOK' /\ JobInv'
  <2>1. pc[c] \in Saga /\ \E step \in Saga \cup {"mark_failed"} : Goto(c, step)
    BY <1>15 DEF UndoListing, UndoMove, UndoSellerCredit, UndoBuyerPayment, RestoreBalance, Saga
  <2>2. QED
    BY <2>1, SaleGotoOK
<1>16. CASE \/ UNCHANGED vars
            \/ \E t \in TransferIds : TimePasses(t) \/ read_transfer(t) \/ resend_otp(t)
  BY <1>1, <1>16 DEF vars, TimePasses, read_transfer, resend_otp
<1>17. QED
  BY <1>4, <1>5, <1>6, <1>7, <1>8, <1>9, <1>10, <1>11, <1>12, <1>13, <1>14, <1>15, <1>16
     DEF Next, Market, Confirmation, Step

\* The two sides of a transfer that a request is about.
LEMMA JobParties ==
  ASSUME Base, NEW c \in Calls, pc[c] \in OfTransfer
  PROVE  /\ Buyer(job[c].transfer) \in Users /\ Seller(job[c].transfer) \in Users
         /\ TicketOf(job[c].transfer) \in Tickets
         /\ Buyer(job[c].transfer) # Seller(job[c].transfer)
  BY JobOpened DEF Base, RowInv, Opened, Known, Seller, TicketOf

\* No balance falls below zero: what is paid has been found to cover the price.
LEMMA CreditsStep ==
  ASSUME Base, [Next]_vars
  PROVE  credits' \in [Users -> Nat]
<1>1. credits \in [Users -> Nat] /\ job \in [Calls -> Job] /\ Price \in Nat
  BY PriceAssumption DEF Base, ThreadsOK
<1>2. \A c \in Calls : job[c].buyerBalance \in Nat /\ job[c].sellerBalance \in Nat
  BY <1>1 DEF Job
<1>3. ASSUME NEW u \in Users, NEW b \in Nat, credits' = [credits EXCEPT ![u] = b] \/ UNCHANGED credits
      PROVE  credits' \in [Users -> Nat]
  BY <1>1, <1>3
<1>4. ASSUME NEW c \in Calls, pc[c] \in Saga
      PROVE  /\ Buyer(job[c].transfer) \in Users /\ Seller(job[c].transfer) \in Users
             /\ job[c].buyerBalance >= Price
  <2>1. pc[c] \in OfTransfer
    BY <1>4 DEF OfTransfer, OfSale
  <2>2. Fits(pc[c], job[c])
    BY DEF Base, JobInv
  <2>3. QED
    BY <1>4, <2>1, <2>2, JobParties DEF Fits
<1>5. ASSUME NEW c \in Calls, PayBuyer(c) PROVE credits' \in [Users -> Nat]
  <2>1. pc[c] \in Saga
    BY <1>5 DEF PayBuyer, Saga
  <2>2. job[c].buyerBalance - Price \in Nat
    BY <1>1, <1>2, <1>4, <2>1
  <2>3. \/ credits' = [credits EXCEPT ![Buyer(job[c].transfer)] = job[c].buyerBalance - Price]
        \/ UNCHANGED credits
    BY <1>5 DEF PayBuyer, WriteBalance
  <2>4. QED
    BY <1>3, <1>4, <2>1, <2>2, <2>3
<1>6. ASSUME NEW c \in Calls, CreditSeller(c) PROVE credits' \in [Users -> Nat]
  <2>1. pc[c] \in Saga
    BY <1>6 DEF CreditSeller, Saga
  <2>2. job[c].sellerBalance + Price \in Nat
    BY <1>1, <1>2
  <2>3. \/ credits' = [credits EXCEPT ![Seller(job[c].transfer)] = job[c].sellerBalance + Price]
        \/ UNCHANGED credits
    BY <1>6 DEF CreditSeller, WriteBalance
  <2>4. QED
    BY <1>3, <1>4, <2>1, <2>2, <2>3
<1>7. ASSUME NEW c \in Calls, UndoSellerCredit(c) \/ UndoBuyerPayment(c)
      PROVE  credits' \in [Users -> Nat]
  <2>1. pc[c] \in Saga
    BY <1>7 DEF UndoSellerCredit, UndoBuyerPayment, Saga
  <2>2. \/ credits' = [credits EXCEPT ![Seller(job[c].transfer)] = job[c].sellerBalance]
        \/ credits' = [credits EXCEPT ![Buyer(job[c].transfer)] = job[c].buyerBalance]
        \/ UNCHANGED credits
    BY <1>7 DEF UndoSellerCredit, UndoBuyerPayment, RestoreBalance
  <2>3. QED
    BY <1>2, <1>3, <1>4, <2>1, <2>2
<1>8. QED
  BY <1>1, <1>5, <1>6, <1>7, Frames DEF Frame

\* Rows and requests fit one another in every reachable state.
THEOREM Basics == Spec => []Base
<1>1. Init => Base
  <2>1. SUFFICES ASSUME Init PROVE Base
    OBVIOUS
  <2>2. NoListing \in Listing /\ NoTransfer \in TransferRow
    BY DEF NoListing, NoTransfer, Listing, TransferRow
  <2>3. RowsOK /\ RowInv
    BY <2>1, <2>2 DEF Init, RowsOK, RowInv, Known, Opened
  <2>4. ThreadsOK
    BY <2>1, Jobs DEF Init, ThreadsOK, Pc
  <2>5. JobInv
    BY <2>1 DEF Init, JobInv, Fits, OfTransfer, OfSale, Saga
  <2>6. credits \in [Users -> Nat]
    BY <2>1, PriceAssumption DEF Init
  <2>7. QED
    BY <2>3, <2>4, <2>5, <2>6 DEF Base
<1>2. Base /\ [Next]_vars => Base'
  BY RowStep, ThreadStep, CreditsStep DEF Base
<1>3. QED
  BY <1>1, <1>2, PTL DEF Spec

-------------------------------------------------------------------------------
(* The other tables, the queue and the history. *)

History ==
  /\ confirmed \subseteq TransferIds \X {"buyer", "seller"}
  /\ moved \subseteq TransferIds /\ settled \in [TransferIds -> Nat]
  /\ net \in [Users -> Int]
  /\ raced \subseteq Users /\ misreported \subseteq Users
  /\ doubled \subseteq TransferIds /\ unmarked \subseteq TransferIds

Rest ==
  /\ tickets \in [Tickets -> Ticket]
  /\ timeouts \subseteq TransferIds /\ mishaps \in 0..MaxMishaps
  /\ History

\* A ticket always has an owner and one of the four statuses.
LEMMA TicketsStep ==
  ASSUME Base, [Next]_vars, tickets \in [Tickets -> Ticket]
  PROVE  tickets' \in [Tickets -> Ticket]
<1>1. ASSUME NEW k \in Tickets, NEW u \in Users, NEW st, update_ticket(k, u, st) \/ UNCHANGED tickets
      PROVE  tickets' \in [Tickets -> Ticket]
  BY <1>1 DEF update_ticket, Ticket
<1>2. \A k \in Tickets : tickets[k].owner \in Users
  BY DEF Ticket
<1>3. ASSUME NEW c \in Calls, MarkListed(c) \/ UnmarkListed(c) PROVE tickets' \in [Tickets -> Ticket]
  <2>1. job[c].ticket \in Tickets
    BY <1>3 DEF MarkListed, UnmarkListed, Base, JobInv, Fits
  <2>2. \E st \in {"listed", "active"} :
          \/ update_ticket(job[c].ticket, tickets[job[c].ticket].owner, st)
          \/ UNCHANGED tickets
    BY <1>3 DEF MarkListed, UnmarkListed, Attempt
  <2>3. QED
    BY <1>1, <1>2, <2>1, <2>2
<1>4. ASSUME NEW c \in Calls, Unlist(c) PROVE tickets' \in [Tickets -> Ticket]
  <2> DEFINE k == listings[job[c].listing].ticket
  <2>1. k \in Tickets
    BY <1>4 DEF Unlist, Base, JobInv, Fits, RowInv, Known
  <2>2. update_ticket(k, tickets[k].owner, "active") \/ UNCHANGED tickets
    BY <1>4 DEF Unlist, Attempt
  <2>3. QED
    BY <1>1, <1>2, <2>1, <2>2
<1>5. ASSUME NEW c \in Calls, Relist(c) PROVE tickets' \in [Tickets -> Ticket]
  <2> DEFINE k == TicketOf(job[c].transfer)
  <2>1. pc[c] \in OfTransfer
    BY <1>5 DEF Relist, OfTransfer
  <2>2. k \in Tickets
    BY <2>1, JobParties
  <2>3. update_ticket(k, tickets[k].owner, "listed") \/ UNCHANGED tickets
    BY <1>5 DEF Relist, Attempt
  <2>4. QED
    BY <1>1, <1>2, <2>2, <2>3
<1>6. ASSUME NEW c \in Calls, MoveTicket(c) PROVE tickets' \in [Tickets -> Ticket]
  <2>1. pc[c] \in OfTransfer
    BY <1>6 DEF MoveTicket, OfTransfer, OfSale, Saga
  <2>2. \/ UNCHANGED tickets
        \/ job[c].ticket # Null /\ update_ticket(job[c].ticket, Buyer(job[c].transfer), "active")
    BY <1>6 DEF MoveTicket
  <2>3. job[c].ticket \in Tickets \cup {Null}
    BY DEF Base, ThreadsOK, Job
  <2>4. QED
    BY <1>1, <2>1, <2>2, <2>3, JobParties
<1>7. ASSUME NEW c \in Calls, UndoMove(c) PROVE tickets' \in [Tickets -> Ticket]
  BY <1>7 DEF UndoMove, Attempt, update_ticket, ALLOWED_STATUS_VALUES
<1>8. QED
  BY <1>3, <1>4, <1>5, <1>6, <1>7, Frames DEF Frame

\* The queue holds transfers.
LEMMA TimeoutsStep ==
  ASSUME Base, [Next]_vars, timeouts \subseteq TransferIds
  PROVE  timeouts' \subseteq TransferIds
<1>1. ASSUME NEW c \in Calls, AskBuyer(c) PROVE timeouts' \subseteq TransferIds
  <2>1. pc[c] \in OfTransfer
    BY <1>1 DEF AskBuyer, OfTransfer
  <2>2. timeouts' \subseteq timeouts \cup {job[c].transfer}
    BY <1>1 DEF AskBuyer, publish_transfer_timeout
  <2>3. QED
    BY <2>1, <2>2, JobOpened
<1>2. ASSUME NEW c \in Calls, TimeoutListing(c) PROVE timeouts' \subseteq TransferIds
  BY <1>2 DEF TimeoutListing
<1>3. ASSUME NEW c \in Calls, NEW t \in TransferIds, on_timeout_message(c, t)
      PROVE  timeouts' \subseteq TransferIds
  BY <1>3 DEF on_timeout_message, Starts
<1>4. QED
  BY <1>1, <1>2, <1>3, Frames DEF Frame

\* The history is about transfers and users.
LEMMA HistoryStep ==
  ASSUME Base, [Next]_vars, History
  PROVE  History'
<1> USE DEF History
<1>1. confirmed' \subseteq TransferIds \X {"buyer", "seller"} /\ unmarked' \subseteq TransferIds
  <2>1. ASSUME NEW c \in Calls, CheckBuyerOtp(c) \/ CheckSellerOtp(c)
        PROVE  /\ confirmed' \subseteq confirmed \cup ({job[c].transfer} \X {"buyer", "seller"})
               /\ unmarked' \subseteq unmarked \cup {job[c].transfer}
               /\ job[c].transfer \in TransferIds
    <3>1. pc[c] \in OfTransfer
      BY <2>1 DEF CheckBuyerOtp, CheckSellerOtp, OfTransfer
    <3>2. job[c].transfer \in TransferIds
      BY <3>1, JobOpened
    <3>3. unmarked' \subseteq unmarked \cup {job[c].transfer}
      BY <2>1 DEF CheckBuyerOtp, CheckSellerOtp
    <3>4. confirmed' \subseteq confirmed \cup ({job[c].transfer} \X {"buyer", "seller"})
      BY <2>1 DEF CheckBuyerOtp, CheckSellerOtp
    <3>5. QED
      BY <3>2, <3>3, <3>4
  <2>2. QED
    BY <2>1, Frames DEF Frame
<1>2. moved' \subseteq TransferIds
  <2>1. ASSUME NEW c \in Calls, MoveTicket(c) PROVE moved' \subseteq TransferIds
    <3>1. pc[c] \in OfTransfer
      BY <2>1 DEF MoveTicket, OfTransfer, OfSale, Saga
    <3>2. moved' \subseteq moved \cup {job[c].transfer}
      BY <2>1 DEF MoveTicket
    <3>3. QED
      BY <3>1, <3>2, JobOpened
  <2>2. QED
    BY <2>1, Frames DEF Frame
<1>3. settled' \in [TransferIds -> Nat] /\ net' \in [Users -> Int]
  <2>1. ASSUME NEW c \in Calls, CompleteTransfer(c)
        PROVE  settled' \in [TransferIds -> Nat] /\ net' \in [Users -> Int]
    <3>1. pc[c] \in OfTransfer
      BY <2>1 DEF CompleteTransfer, OfTransfer, OfSale, Saga
    <3> DEFINE t == job[c].transfer
    <3>2. t \in TransferIds /\ Buyer(t) \in Users /\ Seller(t) \in Users
      BY <3>1, JobOpened, JobParties
    <3>3. \/ UNCHANGED <<settled, net>>
          \/ /\ settled' = [settled EXCEPT ![t] = @ + 1]
             /\ net' = [net EXCEPT ![Buyer(t)] = @ - 1, ![Seller(t)] = @ + 1]
      BY <2>1 DEF CompleteTransfer
    <3> HIDE DEF t
    <3>4. [net EXCEPT ![Buyer(t)] = @ - 1, ![Seller(t)] = @ + 1] \in [Users -> Int]
      <4> DEFINE n == [net EXCEPT ![Buyer(t)] = @ - 1]
      <4>1. n \in [Users -> Int]
        BY <3>2
      <4> HIDE DEF n
      <4>2. [n EXCEPT ![Seller(t)] = @ + 1] \in [Users -> Int]
        BY <3>2, <4>1
      <4>3. QED
        BY <4>2 DEF n
    <3>5. [settled EXCEPT ![t] = @ + 1] \in [TransferIds -> Nat]
      BY <3>2
    <3>6. QED
      BY <3>3, <3>4, <3>5
  <2>2. QED
    BY <2>1, Frames DEF Frame
<1>4. raced' \subseteq Users
  <2>1. ASSUME NEW c \in Calls, ReadBuyerBalance(c) \/ ReadSellerBalance(c) PROVE raced' \subseteq Users
    <3>1. pc[c] \in OfTransfer
      BY <2>1 DEF ReadBuyerBalance, ReadSellerBalance, OfTransfer, OfSale
    <3>2. raced' \subseteq raced \cup Parties(c)
      BY <2>1 DEF ReadBuyerBalance, ReadSellerBalance, Parties
    <3>3. QED
      BY <3>1, <3>2, JobParties DEF Parties
  <2>2. QED
    BY <2>1, Frames DEF Frame
<1>5. misreported' \subseteq Users
  <2>1. ASSUME NEW c \in Calls,
               PayBuyer(c) \/ CreditSeller(c) \/ UndoSellerCredit(c) \/ UndoBuyerPayment(c)
        PROVE  misreported' \subseteq Users
    <3>1. pc[c] \in OfTransfer
      BY <2>1 DEF PayBuyer, CreditSeller, UndoSellerCredit, UndoBuyerPayment, OfTransfer, OfSale, Saga
    <3>2. misreported' \subseteq misreported \cup Parties(c)
      BY <2>1 DEF PayBuyer, CreditSeller, UndoSellerCredit, UndoBuyerPayment, WriteBalance,
                  RestoreBalance, Parties
    <3>3. QED
      BY <3>1, <3>2, JobParties DEF Parties
  <2>2. QED
    BY <2>1, Frames DEF Frame
<1>6. doubled' \subseteq TransferIds
  BY Frames DEF Frame, Meets
<1>7. QED
  BY <1>1, <1>2, <1>3, <1>4, <1>5, <1>6

\* Tables, requests and history hold what their columns and fields allow; in
\* particular no balance falls below zero (PATCH of a stale balance less the price)
\* and a ticket has one of the four statuses of ticket-service.
THEOREM TypeCorrect == Spec => []TypeOK
<1>1. Init => Rest
  <2>1. SUFFICES ASSUME Init PROVE Rest
    OBVIOUS
  <2>2. tickets \in [Tickets -> Ticket]
    BY <2>1 DEF Init, Ticket, ALLOWED_STATUS_VALUES
  <2>3. mishaps \in 0..MaxMishaps
    BY <2>1, MishapAssumption DEF Init
  <2>4. QED
    BY <2>1, <2>2, <2>3 DEF Init, Rest, History
<1>2. Base /\ Rest /\ [Next]_vars => Rest'
  <2>1. SUFFICES ASSUME Base, Rest, [Next]_vars PROVE Rest'
    OBVIOUS
  <2>2. mishaps' \in 0..MaxMishaps
    BY <2>1, Frames, MishapAssumption DEF Frame, Mishap, Rest
  <2>3. QED
    BY <2>1, <2>2, TicketsStep, TimeoutsStep, HistoryStep DEF Rest
<1>3. Base /\ Rest => TypeOK
  BY DEF Base, Rest, RowsOK, ThreadsOK, History, TypeOK
<1>4. QED
  BY <1>1, <1>2, <1>3, Basics, PTL DEF Spec

-------------------------------------------------------------------------------
(* The sale: how a request comes to its steps, and what it does there. *)

Confirming == OfSale \cup {"ask_seller", "check_seller_otp"}

\* The steps of a sale.
SaleStep(c) ==
  \/ ReadBuyerBalance(c) \/ ReadSellerBalance(c) \/ PayBuyer(c) \/ CreditSeller(c) \/ MoveTicket(c)
  \/ CloseListing(c) \/ CompleteTransfer(c) \/ UndoListing(c) \/ UndoMove(c) \/ UndoSellerCredit(c)
  \/ UndoBuyerPayment(c) \/ MarkFailed(c)

\* The acting request is the only one that moves.
Alone(c) == \A d \in Calls \ {c} : pc'[d] = pc[d] /\ job'[d] = job[d]

\* One request has moved, to an end, along its confirmations or along its sale.
Moved(c) ==
  /\ Alone(c)
  /\ \/ pc'[c] \notin Confirming /\ (pc[c] \in OfSale => SaleStep(c))
     \/ CheckBuyerOtp(c) /\ pc'[c] = "ask_seller" /\ job'[c].transfer = job[c].transfer
     \/ \E t \in TransferIds : /\ seller_verify(c, t) /\ pc[c] = "idle"
                               /\ pc'[c] = "check_seller_otp" /\ job'[c].transfer = t
     \/ CheckSellerOtp(c) /\ pc'[c] = "buyer_balance" /\ job'[c].transfer = job[c].transfer
     \/ /\ SaleStep(c) /\ pc[c] \in OfSale /\ pc'[c] \in OfSale \ {"buyer_balance"}
        /\ job'[c].transfer = job[c].transfer

\* A sale moves on or ends.
LEMMA SaleMoves ==
  ASSUME Base, NEW c \in Calls, SaleStep(c)
  PROVE  Moved(c)
<1>1. pc \in [Calls -> Pc] /\ job \in [Calls -> Job]
  BY DEF Base, ThreadsOK
<1>2. ASSUME Answer(c) PROVE Moved(c)
  <2>1. Alone(c) /\ pc'[c] = "idle"
    BY <1>1, <1>2 DEF Answer, Alone
  <2>2. QED
    BY <2>1 DEF Moved, Confirming, OfSale, Saga
<1>3. ASSUME NEW step, Goto(c, step)
      PROVE  Alone(c) /\ pc'[c] = step /\ job'[c].transfer = job[c].transfer
  BY <1>1, <1>3 DEF Alone, Goto
<1>4. pc[c] \in OfSale
  BY DEF SaleStep, ReadBuyerBalance, ReadSellerBalance, PayBuyer, CreditSeller, MoveTicket,
               CloseListing, CompleteTransfer, UndoListing, UndoMove, UndoSellerCredit,
               UndoBuyerPayment, MarkFailed, OfSale, Saga
<1>5. ASSUME NEW step \in OfSale \ {"buyer_balance"}, Goto(c, step) PROVE Moved(c)
  BY <1>3, <1>4, <1>5 DEF Moved
<1>6. {"mark_failed", "earn", "move", "close_listing", "complete", "undo_listing", "undo_move",
       "undo_earn", "undo_pay"} \subseteq OfSale \ {"buyer_balance"}
  BY DEF OfSale, Saga
<1>7. CASE ReadBuyerBalance(c) /\ ~ Goto(c, "mark_failed")
  <2> DEFINE b == credits[Buyer(job[c].transfer)]
  <2>1. pc' = [pc EXCEPT ![c] = "seller_balance"] /\ job' = [job EXCEPT ![c].buyerBalance = b]
    BY <1>7 DEF ReadBuyerBalance, get_credit_balance
  <2> HIDE DEF b
  <2>2. Alone(c) /\ pc'[c] = "seller_balance" /\ job'[c].transfer = job[c].transfer
    BY <1>1, <2>1 DEF Alone, Job
  <2>3. QED
    BY <1>4, <2>2 DEF Moved, OfSale
<1>8. CASE ReadSellerBalance(c) /\ ~ Answer(c)
  <2> DEFINE b == credits[Seller(job[c].transfer)]
  <2>1. pc' = [pc EXCEPT ![c] = "pay"] /\ job' = [job EXCEPT ![c].sellerBalance = b]
    BY <1>8 DEF ReadSellerBalance, get_credit_balance
  <2> HIDE DEF b
  <2>2. Alone(c) /\ pc'[c] = "pay" /\ job'[c].transfer = job[c].transfer
    BY <1>1, <2>1 DEF Alone, Job
  <2>3. QED
    BY <1>4, <2>2 DEF Moved, OfSale, Saga
<1>9. \/ Answer(c)
      \/ \E step \in {"mark_failed", "earn", "move", "close_listing", "complete", "undo_listing",
                      "undo_move", "undo_earn", "undo_pay"} : Goto(c, step)
      \/ ReadBuyerBalance(c) /\ ~ Goto(c, "mark_failed")
      \/ ReadSellerBalance(c) /\ ~ Answer(c)
  BY DEF SaleStep, PayBuyer, CreditSeller, WriteBalance, MoveTicket, CloseListing,
               CompleteTransfer, UndoListing, UndoMove, UndoSellerCredit, UndoBuyerPayment,
               RestoreBalance, MarkFailed
<1>10. QED
  BY <1>2, <1>5, <1>6, <1>7, <1>8, <1>9

\* Every step of a request is one of these moves.
LEMMA Moves ==
  ASSUME Base, [Next]_vars
  PROVE  UNCHANGED <<pc, job>> \/ \E c \in Calls : Moved(c)
<1>1. pc \in [Calls -> Pc] /\ job \in [Calls -> Job]
  BY DEF Base, ThreadsOK
<1>2. ASSUME NEW c \in Calls, Answer(c), pc[c] \in OfSale => SaleStep(c) PROVE Moved(c)
  <2>1. Alone(c) /\ pc'[c] = "idle"
    BY <1>1, <1>2 DEF Answer, Alone
  <2>2. QED
    BY <1>2, <2>1 DEF Moved, Confirming, OfSale, Saga
<1>3. ASSUME NEW c \in Calls, NEW step, step \notin Confirming, NEW j,
             Begin(c, step, j) \/ (Goto(c, step) /\ pc[c] \notin OfSale)
      PROVE  Moved(c)
  <2>1. Alone(c) /\ pc'[c] = step
    BY <1>1, <1>3 DEF Begin, Goto, Alone
  <2>2. pc[c] \notin OfSale
    BY <1>3 DEF Begin, OfSale, Saga
  <2>3. QED
    BY <1>3, <2>1, <2>2 DEF Moved
<1>4. ASSUME NEW c \in Calls, NEW step, Goto(c, step)
      PROVE  Alone(c) /\ pc'[c] = step /\ job'[c].transfer = job[c].transfer
  BY <1>1, <1>4 DEF Alone, Goto
<1>5. CASE Market
  <2>1. PICK c \in Calls : \E step \in {"mark_listed", "cancel_listing", "post_transfer"} :
                              \E j : Begin(c, step, j)
    <3>1. ASSUME NEW c \in Calls, NEW u \in Users, NEW k \in Tickets, list_ticket(c, u, k)
          PROVE  \E j : Begin(c, "mark_listed", j)
      BY <3>1 DEF list_ticket
    <3>2. ASSUME NEW c \in Calls, NEW l \in ListingIds, delist(c, l)
          PROVE  \E j : Begin(c, "cancel_listing", j)
      BY <3>2 DEF delist
    <3>3. ASSUME NEW c \in Calls, NEW u \in Users, NEW l \in ListingIds, initiate(c, u, l)
          PROVE  \E j : Begin(c, "post_transfer", j)
      BY <3>3 DEF initiate
    <3>4. QED
      BY <1>5, <3>1, <3>2, <3>3 DEF Market
  <2>2. QED
    BY <1>3, <2>1 DEF Confirming, OfSale, Saga
<1>6. ASSUME NEW c \in Calls, NEW t \in TransferIds, seller_verify(c, t) PROVE Moved(c)
  <2> DEFINE j == [NoJob EXCEPT !.transfer = t]
  <2>1. j.transfer = t
    BY Jobs
  <2>2. pc[c] = "idle" /\ pc' = [pc EXCEPT ![c] = "check_seller_otp"] /\ job' = [job EXCEPT ![c] = j]
    BY <1>6 DEF seller_verify, Starts, Begin
  <2> HIDE DEF j
  <2>3. Alone(c) /\ pc'[c] = "check_seller_otp" /\ job'[c].transfer = t
    BY <1>1, <2>1, <2>2 DEF Alone
  <2>4. QED
    BY <1>6, <2>2, <2>3 DEF Moved
<1>7. ASSUME NEW c \in Calls, NEW t \in TransferIds,
             \/ seller_accept(c, t) \/ buyer_verify(c, t) \/ seller_reject(c, t)
             \/ cancel_transfer(c, t) \/ on_timeout_message(c, t)
      PROVE  UNCHANGED <<pc, job>> \/ Moved(c)
  <2>1. \/ UNCHANGED <<pc, job>>
        \/ \E step \in {"accept", "check_buyer_otp", "end_transfer", "timeout_listing"} :
             Begin(c, step, [NoJob EXCEPT !.transfer = t])
    BY <1>7 DEF seller_accept, buyer_verify, seller_reject, cancel_transfer, on_timeout_message, Starts
  <2>2. QED
    BY <1>3, <2>1 DEF Confirming, OfSale, Saga
<1>8. ASSUME NEW c \in Calls, \/ MarkListed(c) \/ PostListing(c) \/ UnmarkListed(c)
                              \/ CancelListing(c) \/ Unlist(c) \/ AskBuyer(c) \/ AcceptTransfer(c)
                              \/ AskSeller(c) \/ EndTransfer(c) \/ ReopenListing(c) \/ Relist(c)
                              \/ TimeoutListing(c)
      PROVE  Moved(c)
  <2>1. \/ Answer(c)
        \/ \E step \in {"post_listing", "unmark_listed", "unlist", "reopen_listing", "relist"} :
             Goto(c, step)
    BY <1>8 DEF MarkListed, PostListing, UnmarkListed, CancelListing, Unlist, AskBuyer,
                AcceptTransfer, AskSeller, EndTransfer, ReopenListing, Relist, TimeoutListing
  <2>2. pc[c] \notin OfSale
    BY <1>8 DEF MarkListed, PostListing, UnmarkListed, CancelListing, Unlist, AskBuyer,
                AcceptTransfer, AskSeller, EndTransfer, ReopenListing, Relist, TimeoutListing,
                OfSale, Saga
  <2>3. QED
    BY <1>2, <1>3, <2>1, <2>2 DEF Confirming, OfSale, Saga
<1>9. ASSUME NEW c \in Calls, PostTransfer(c) PROVE Moved(c)
  <2> pc[c] \notin OfSale
    BY <1>9 DEF PostTransfer, OfSale, Saga
  <2>1. CASE Answer(c)
    BY <1>2, <2>1
  <2>2. ASSUME NEW t, pc' = [pc EXCEPT ![c] = "ask_buyer"], job' = [job EXCEPT ![c].transfer = t]
        PROVE  Moved(c)
    <3>1. Alone(c) /\ pc'[c] = "ask_buyer"
      BY <1>1, <2>2 DEF Alone
    <3>2. QED
      BY <3>1 DEF Moved, Confirming, OfSale, Saga
  <2>3. QED
    BY <1>9, <2>1, <2>2 DEF PostTransfer
<1>10. ASSUME NEW c \in Calls, CheckBuyerOtp(c) PROVE Moved(c)
  <2>1. Answer(c) \/ Goto(c, "ask_seller")
    BY <1>10 DEF CheckBuyerOtp
  <2>2. pc[c] \notin OfSale
    BY <1>10 DEF CheckBuyerOtp, OfSale, Saga
  <2>3. QED
    BY <1>2, <1>4, <1>10, <2>1, <2>2 DEF Moved
<1>11. ASSUME NEW c \in Calls, CheckSellerOtp(c) PROVE Moved(c)
  <2> DEFINE k == TicketOf(job[c].transfer)
  <2>1. \/ Answer(c)
        \/ Goto(c, "buyer_balance")
        \/ pc' = [pc EXCEPT ![c] = "buyer_balance"] /\ job' = [job EXCEPT ![c].ticket = k]
    BY <1>11 DEF CheckSellerOtp, Goto
  <2> HIDE DEF k
  <2>2. CASE pc' = [pc EXCEPT ![c] = "buyer_balance"] /\ job' = [job EXCEPT ![c].ticket = k]
    <3>1. Alone(c) /\ pc'[c] = "buyer_balance" /\ job'[c].transfer = job[c].transfer
      BY <1>1, <2>2 DEF Alone, Job
    <3>2. QED
      BY <1>11, <3>1 DEF Moved
  <2>3. pc[c] \notin OfSale
    BY <1>11 DEF CheckSellerOtp, OfSale, Saga
  <2>4. QED
    BY <1>2, <1>4, <1>11, <2>1, <2>2, <2>3 DEF Moved
<1>12. ASSUME NEW c \in Calls, SaleStep(c) PROVE Moved(c)
  BY <1>12, SaleMoves
<1>13. CASE \/ UNCHANGED vars
            \/ \E t \in TransferIds : TimePasses(t) \/ read_transfer(t) \/ resend_otp(t)
  BY <1>13 DEF vars, TimePasses, read_transfer, resend_otp
<1>14. QED
  BY <1>5, <1>6, <1>7, <1>8, <1>9, <1>10, <1>11, <1>12, <1>13
     DEF Next, Confirmation, Step, SaleStep

-------------------------------------------------------------------------------
(* Consent: both sides have confirmed what a sale is about. *)

ConsentInv ==
  /\ \A t \in TransferIds : transfers[t].buyerOtpVerified = TRUE => <<t, "buyer">> \in confirmed
  /\ \A c \in Calls : pc[c] \in Confirming => <<job[c].transfer, "buyer">> \in confirmed
  /\ \A c \in Calls : pc[c] \in OfSale => <<job[c].transfer, "seller">> \in confirmed
  /\ ConsentBeforeMove

\* buyerOtpVerified is written by the two steps of buyer_verify only.
LEMMA BuyerFlag ==
  ASSUME Base, [Next]_vars, NEW x \in TransferIds,
         transfers'[x].buyerOtpVerified = TRUE, transfers[x].buyerOtpVerified # TRUE
  PROVE  \E c \in Calls : /\ (CheckBuyerOtp(c) /\ ~ UNCHANGED transfers) \/ AskSeller(c)
                          /\ job[c].transfer = x
<1>1. transfers \in [TransferIds -> TransferRow] /\ RowsOK
  BY DEF Base, RowsOK
<1>2. ~ UNCHANGED transfers
  OBVIOUS
<1>3. ~ \E t \in TransferIds : Opened(t) /\ Retitled(t)
  BY <1>1, RetitledIsPatched
<1>4. ASSUME NEW c \in Calls, CheckBuyerOtp(c) \/ AskSeller(c) PROVE job[c].transfer = x
  <2>1. pc[c] \in OfTransfer
    BY <1>4 DEF CheckBuyerOtp, AskSeller, OfTransfer
  <2>2. job[c].transfer \in TransferIds /\ Patched(job[c].transfer)
    BY <1>2, <1>4, <2>1, ConfirmationWrites, JobOpened
  <2>3. QED
    BY <1>1, <2>2 DEF Patched
<1>5. ASSUME NEW c \in Calls, CheckSellerOtp(c) PROVE FALSE
  <2> DEFINE t == job[c].transfer
             r == [transfers[t] EXCEPT !.sellerOtpVerified = TRUE]
  <2>1. pc[c] \in OfTransfer
    BY <1>5 DEF CheckSellerOtp, OfTransfer
  <2>2. t \in TransferIds /\ transfers[t] \in TransferRow /\ transfers[t].status # "none"
    BY <2>1, JobOpened
  <2>3. r.buyerOtpVerified = transfers[t].buyerOtpVerified
    BY <2>2, SellerLater
  <2>4. patch_transfer(t, r)
    BY <1>2, <1>5 DEF CheckSellerOtp, Attempt
  <2> HIDE DEF r, t
  <2>5. transfers' = [transfers EXCEPT ![t] = r] \/ Retitled(t)
    BY <2>4, PatchWrites
  <2>6. QED
    BY <1>1, <2>2, <2>3, <2>5, RetitledIsPatched
<1>6. ASSUME NEW c \in Calls, PostTransfer(c) PROVE FALSE
  <2>1. PICK l \in ListingIds, u \in Users : l = job[c].listing /\ u = job[c].user
    BY <1>6, PostKnows
  <2>2. PICK t \in TransferIds : transfers' = [transfers EXCEPT ![t] = NewRow(l, u)]
    BY <1>2, <1>6, <2>1, PostWrites
  <2>3. NewRow(l, u).buyerOtpVerified = FALSE
    BY NewRows
  <2>4. QED
    BY <1>1, <2>2, <2>3
<1>7. QED
  BY <1>2, <1>3, <1>4, <1>5, <1>6, TransferWrites

\* What has been confirmed stays so, and a correct password is recorded.
LEMMA ConfirmedGrows ==
  ASSUME Base, [Next]_vars
  PROVE  /\ confirmed \subseteq confirmed'
         /\ \A c \in Calls : CheckBuyerOtp(c) /\ (pc'[c] = "ask_seller" \/ ~ UNCHANGED transfers) =>
                               <<job[c].transfer, "buyer">> \in confirmed'
         /\ \A c \in Calls : CheckSellerOtp(c) /\ pc'[c] = "buyer_balance" =>
                               <<job[c].transfer, "seller">> \in confirmed'
<1>1. pc \in [Calls -> Pc]
  BY DEF Base, ThreadsOK
<1>2. ASSUME NEW c \in Calls, CheckBuyerOtp(c)
      PROVE  /\ confirmed \subseteq confirmed'
             /\ pc'[c] = "ask_seller" \/ ~ UNCHANGED transfers =>
                  <<job[c].transfer, "buyer">> \in confirmed'
  BY <1>1, <1>2 DEF CheckBuyerOtp, Answer
<1>3. ASSUME NEW c \in Calls, CheckSellerOtp(c)
      PROVE  /\ confirmed \subseteq confirmed'
             /\ pc'[c] = "buyer_balance" => <<job[c].transfer, "seller">> \in confirmed'
  BY <1>1, <1>3 DEF CheckSellerOtp, Answer
<1>4. confirmed \subseteq confirmed'
  BY <1>2, <1>3, Frames DEF Frame
<1>5. QED
  BY <1>2, <1>3, <1>4

\* Consent is kept by every step.
LEMMA ConsentStep ==
  ASSUME Base, [Next]_vars, ConsentInv
  PROVE  ConsentInv'
<1>1. confirmed \subseteq confirmed'
  BY ConfirmedGrows
<1>2. ASSUME NEW t \in TransferIds, transfers'[t].buyerOtpVerified = TRUE
      PROVE  <<t, "buyer">> \in confirmed'
  <2>1. CASE transfers[t].buyerOtpVerified = TRUE
    BY <1>1, <2>1 DEF ConsentInv
  <2>2. CASE transfers[t].buyerOtpVerified # TRUE
    <3>1. PICK c \in Calls : /\ (CheckBuyerOtp(c) /\ ~ UNCHANGED transfers) \/ AskSeller(c)
                             /\ job[c].transfer = t
      BY <1>2, <2>2, BuyerFlag
    <3>2. CASE AskSeller(c)
      BY <1>1, <3>1, <3>2 DEF ConsentInv, AskSeller, Confirming
    <3>3. QED
      BY <3>1, <3>2, ConfirmedGrows
  <2>3. QED
    BY <2>1, <2>2
<1>3. ASSUME NEW d \in Calls
      PROVE  /\ pc'[d] \in Confirming => <<job'[d].transfer, "buyer">> \in confirmed'
             /\ pc'[d] \in OfSale => <<job'[d].transfer, "seller">> \in confirmed'
  <2> DEFINE G == /\ pc'[d] \in Confirming => <<job'[d].transfer, "buyer">> \in confirmed'
                  /\ pc'[d] \in OfSale => <<job'[d].transfer, "seller">> \in confirmed'
  <2>1. CASE pc'[d] = pc[d] /\ job'[d] = job[d]
    BY <1>1, <2>1 DEF ConsentInv
  <2>2. CASE Moved(d)
    <3>1. CASE pc'[d] \notin Confirming
      BY <3>1 DEF Confirming
    <3>2. CASE CheckBuyerOtp(d) /\ pc'[d] = "ask_seller" /\ job'[d].transfer = job[d].transfer
      <4>1. pc'[d] \notin OfSale
        BY <3>2 DEF OfSale, Saga
      <4>2. QED
        BY <3>2, <4>1, ConfirmedGrows
    <3>3. ASSUME NEW t \in TransferIds, seller_verify(d, t), pc'[d] = "check_seller_otp",
                 job'[d].transfer = t
          PROVE  G
      <4>1. pc'[d] \notin OfSale
        BY <3>3 DEF OfSale, Saga
      <4>2. transfers[t].buyerOtpVerified \in BOOLEAN /\ transfers[t].buyerOtpVerified
        BY <3>3 DEF seller_verify, Base, RowsOK, TransferRow
      <4>3. <<t, "buyer">> \in confirmed
        BY <4>2 DEF ConsentInv
      <4>4. QED
        BY <1>1, <3>3, <4>1, <4>3
    <3>4. CASE CheckSellerOtp(d) /\ pc'[d] = "buyer_balance" /\ job'[d].transfer = job[d].transfer
      <4>1. <<job[d].transfer, "buyer">> \in confirmed
        BY <3>4 DEF ConsentInv, CheckSellerOtp, Confirming
      <4>2. QED
        BY <1>1, <3>4, <4>1, ConfirmedGrows
    <3>5. CASE pc[d] \in OfSale /\ job'[d].transfer = job[d].transfer
      BY <1>1, <3>5 DEF ConsentInv, Confirming
    <3>6. QED
      BY <2>2, <3>1, <3>2, <3>3, <3>4, <3>5 DEF Moved
  <2>3. \/ pc'[d] = pc[d] /\ job'[d] = job[d]
        \/ Moved(d)
    BY Moves DEF Moved, Alone
  <2>4. QED
    BY <2>1, <2>2, <2>3
<1>4. ConsentBeforeMove'
  <2>1. moved \X {"buyer", "seller"} \subseteq confirmed
    BY DEF ConsentInv, ConsentBeforeMove
  <2>2. ASSUME NEW c \in Calls, MoveTicket(c)
        PROVE  moved' \X {"buyer", "seller"} \subseteq confirmed'
    <3>1. pc[c] \in Confirming /\ pc[c] \in OfSale
      BY <2>2 DEF MoveTicket, Confirming, OfSale, Saga
    <3>2. {job[c].transfer} \X {"buyer", "seller"} \subseteq confirmed
      BY <3>1 DEF ConsentInv
    <3>3. moved' \subseteq moved \cup {job[c].transfer}
      BY <2>2 DEF MoveTicket
    <3>4. QED
      BY <1>1, <2>1, <3>2, <3>3
  <2>3. UNCHANGED moved \/ \E c \in Calls : MoveTicket(c)
    BY Frames DEF Frame
  <2>4. QED
    BY <1>1, <2>1, <2>2, <2>3 DEF ConsentBeforeMove
<1>5. QED
  BY <1>2, <1>3, <1>4 DEF ConsentInv

\* A ticket is given to a buyer only by a transfer that this buyer and the seller
\* of the listing have both confirmed with their one-time password (the checks of
\* buyer_verify and seller_verify), however the requests interleave.
THEOREM ConsentSafe == Spec => []ConsentBeforeMove
<1>1. Init => ConsentInv
  BY DEF Init, ConsentInv, NoTransfer, Confirming, OfSale, Saga, ConsentBeforeMove
<1>2. Base /\ ConsentInv /\ [Next]_vars => ConsentInv'
  BY ConsentStep
<1>3. ConsentInv => ConsentBeforeMove
  BY DEF ConsentInv
<1>4. QED
  BY <1>1, <1>2, <1>3, Basics, PTL DEF Spec

-------------------------------------------------------------------------------
(* A transfer charges once: sellerOtpVerified keeps later requests out. *)

Selling == OfSale \cup {"check_seller_otp"}
Sells(c, t) == pc[c] \in Selling /\ job[c].transfer = t
Marked(t) == transfers[t].sellerOtpVerified = TRUE

Charge(t) ==
  /\ \A c, d \in Calls : Sells(c, t) /\ Sells(d, t) => c = d
  /\ \A c \in Calls : pc[c] \in OfSale /\ job[c].transfer = t => Marked(t)
  /\ settled[t] > 0 => Marked(t) /\ \A c \in Calls : ~ Sells(c, t)
  /\ settled[t] <= 1

ChargeInv == \A t \in TransferIds \ (doubled \cup unmarked) : Charge(t)

\* A seller's confirmation that is written stays.
LEMMA MarkedStays ==
  ASSUME Base, [Next]_vars, NEW t \in TransferIds, Marked(t)
  PROVE  Marked(t)'
<1>1. Opened(t)
  BY DEF Marked, Opened, NoTransfer
<1>2. QED
  BY <1>1, TransfersPersist DEF Marked, Later

\* Exceptions stay exceptions.
LEMMA ExceptionsGrow ==
  ASSUME [Next]_vars
  PROVE  doubled \subseteq doubled' /\ unmarked \subseteq unmarked'
<1>1. ASSUME NEW t \in TransferIds, NEW step \in Pc, Meets(t, step) PROVE doubled \subseteq doubled'
  BY <1>1 DEF Meets
<1>2. ASSUME NEW c \in Calls, CheckSellerOtp(c) PROVE unmarked \subseteq unmarked'
  BY <1>2 DEF CheckSellerOtp
<1>3. QED
  BY <1>1, <1>2, Frames DEF Frame

\* Who is selling was so before or has just begun; who is past the password was so
\* before or has just been marked.
LEMMA SellsBefore ==
  ASSUME Base, [Next]_vars, NEW c \in Calls, NEW t \in TransferIds, Sells(c, t)'
  PROVE  /\ Sells(c, t) \/ (seller_verify(c, t) /\ Moved(c) /\ pc[c] = "idle")
         /\ pc'[c] \in OfSale => \/ pc[c] \in OfSale /\ job[c].transfer = t
                                 \/ CheckSellerOtp(c) /\ job[c].transfer = t /\ pc'[c] = "buyer_balance"
<1>1. pc'[c] \in Confirming /\ pc'[c] # "ask_seller" /\ job'[c].transfer = t
  BY DEF Sells, Selling, Confirming, OfSale, Saga
<1>2. CASE pc'[c] = pc[c] /\ job'[c] = job[c]
  BY <1>2 DEF Sells
<1>3. CASE Moved(c)
  <2>1. ASSUME NEW x \in TransferIds, seller_verify(c, x), pc[c] = "idle",
               pc'[c] = "check_seller_otp", job'[c].transfer = x
        PROVE  seller_verify(c, t) /\ pc'[c] \notin OfSale
    <3>1. x = t
      BY <1>1, <2>1
    <3>2. pc'[c] \notin OfSale
      BY <2>1 DEF OfSale, Saga
    <3>3. QED
      BY <2>1, <3>1, <3>2
  <2>2. CASE CheckSellerOtp(c) /\ pc'[c] = "buyer_balance" /\ job'[c].transfer = job[c].transfer
    BY <1>1, <2>2 DEF CheckSellerOtp, Sells, Selling
  <2>3. CASE pc[c] \in OfSale /\ job'[c].transfer = job[c].transfer
    BY <1>1, <2>3 DEF Sells, Selling
  <2>4. QED
    BY <1>1, <1>3, <2>1, <2>2, <2>3 DEF Moved
<1>4. (pc'[c] = pc[c] /\ job'[c] = job[c]) \/ Moved(c)
  BY Moves DEF Moved, Alone
<1>5. QED
  BY <1>2, <1>3, <1>4

\* A seller_verify that begins while another is under way is an exception, and it
\* does not begin once the transfer is marked.
LEMMA BeginsAlone ==
  ASSUME Base, NEW c \in Calls, NEW t \in TransferIds, seller_verify(c, t), t \notin doubled'
  PROVE  ~ Marked(t) /\ \A d \in Calls : ~ Sells(d, t)
<1>1. ~ Marked(t)
  BY DEF seller_verify, Marked
<1>2. ~ Verifying(t)
  BY DEF seller_verify, Starts, Meets
<1>3. QED
  BY <1>1, <1>2 DEF Verifying, Sells, Selling, OfSale

\* What settles a transfer.
LEMMA Settles ==
  ASSUME Base, [Next]_vars, History, NEW t \in TransferIds
  PROVE  \/ settled'[t] = settled[t]
         \/ \E c \in Calls : /\ CompleteTransfer(c) /\ Answer(c) /\ job[c].transfer = t
                             /\ settled'[t] = settled[t] + 1
<1>1. settled \in [TransferIds -> Nat]
  BY DEF History
<1>2. ASSUME NEW c \in Calls, CompleteTransfer(c)
      PROVE  \/ settled'[t] = settled[t]
             \/ Answer(c) /\ job[c].transfer = t /\ settled'[t] = settled[t] + 1
  <2>1. UNCHANGED settled \/ (Answer(c) /\ settled' = [settled EXCEPT ![job[c].transfer] = @ + 1])
    BY <1>2 DEF CompleteTransfer
  <2>2. CASE job[c].transfer = t
    BY <1>1, <2>1, <2>2
  <2>3. CASE job[c].transfer # t
    BY <1>1, <2>1, <2>3
  <2>4. QED
    BY <2>2, <2>3
<1>3. QED
  BY <1>2, Frames DEF Frame

\* One charge per transfer is kept by every step.
LEMMA ChargeStep ==
  ASSUME Base, Base', [Next]_vars, History, ChargeInv
  PROVE  ChargeInv'
<1>1. SUFFICES ASSUME NEW t \in TransferIds, t \notin doubled', t \notin unmarked'
               PROVE  Charge(t)'
  BY DEF ChargeInv
<1>2. Charge(t) /\ settled[t] \in Nat
  BY <1>1, ExceptionsGrow DEF ChargeInv, History
<1>3. Marked(t) => Marked(t)'
  BY MarkedStays
<1>4. ASSUME NEW c \in Calls, Sells(c, t)'
      PROVE  Sells(c, t) \/ (~ Marked(t) /\ Moved(c) /\ pc[c] = "idle" /\ \A d \in Calls : ~ Sells(d, t))
  BY <1>1, <1>4, SellsBefore, BeginsAlone
<1>5. ASSUME NEW c \in Calls, NEW d \in Calls, Sells(c, t)', Sells(d, t)' PROVE c = d
  <2>1. CASE Sells(c, t) /\ Sells(d, t)
    BY <1>2, <2>1 DEF Charge
  <2>2. CASE ~ Sells(c, t)
    <3>1. Moved(c) /\ ~ Sells(d, t)
      BY <1>4, <1>5, <2>2
    <3>2. pc[d] = "idle"
      BY <1>4, <1>5, <3>1
    <3>3. pc'[d] # "idle"
      BY <1>5 DEF Sells, Selling, OfSale, Saga
    <3>4. QED
      BY <3>1, <3>2, <3>3 DEF Moved, Alone
  <2>3. CASE ~ Sells(d, t)
    <3>1. Moved(d) /\ ~ Sells(c, t)
      BY <1>4, <1>5, <2>3
    <3>2. pc[c] = "idle"
      BY <1>4, <1>5, <3>1
    <3>3. pc'[c] # "idle"
      BY <1>5 DEF Sells, Selling, OfSale, Saga
    <3>4. QED
      BY <3>1, <3>2, <3>3 DEF Moved, Alone
  <2>4. QED
    BY <2>1, <2>2, <2>3
<1>6. ASSUME NEW c \in Calls, pc'[c] \in OfSale, job'[c].transfer = t PROVE Marked(t)'
  <2>1. Sells(c, t)'
    BY <1>6 DEF Sells, Selling
  <2>2. CASE pc[c] \in OfSale /\ job[c].transfer = t
    BY <1>2, <1>3, <2>2 DEF Charge
  <2>3. CASE CheckSellerOtp(c) /\ job[c].transfer = t /\ pc'[c] = "buyer_balance"
    <3>1. unmarked' = IF transfers'[t].sellerOtpVerified THEN unmarked ELSE unmarked \cup {t}
      <4>1. ~ Answer(c)
        BY <2>3 DEF Answer, Base, ThreadsOK
      <4>2. QED
        BY <2>3, <4>1 DEF CheckSellerOtp
    <3>2. transfers'[t].sellerOtpVerified \in BOOLEAN
      BY DEF Base, RowsOK, TransferRow
    <3>3. QED
      BY <1>1, <3>1, <3>2 DEF Marked
  <2>4. QED
    BY <1>6, <2>1, <2>2, <2>3, SellsBefore
<1>7. CASE settled'[t] = settled[t]
  <2>1. ASSUME settled'[t] > 0 PROVE Marked(t)' /\ \A c \in Calls : ~ Sells(c, t)'
    <3>1. Marked(t) /\ \A c \in Calls : ~ Sells(c, t)
      BY <1>2, <1>7, <2>1 DEF Charge
    <3>2. QED
      BY <1>3, <1>4, <3>1
  <2>2. settled'[t] <= 1
    BY <1>2, <1>7 DEF Charge
  <2>3. QED
    BY <1>5, <1>6, <2>1, <2>2 DEF Charge
<1>8. ASSUME NEW c \in Calls, CompleteTransfer(c), Answer(c), job[c].transfer = t,
             settled'[t] = settled[t] + 1
      PROVE  Charge(t)'
  <2>1. pc[c] \in OfSale /\ Sells(c, t)
    BY <1>8 DEF CompleteTransfer, OfSale, Saga, Sells, Selling
  <2>2. Marked(t) /\ settled[t] = 0
    BY <1>2, <1>8, <2>1 DEF Charge
  <2>3. ASSUME NEW d \in Calls, Sells(d, t)' PROVE FALSE
    <3>1. d = c
      BY <1>2, <1>4, <2>1, <2>2, <2>3 DEF Charge
    <3>2. pc'[d] = "idle"
      BY <1>8, <3>1 DEF Answer, Base, ThreadsOK
    <3>3. QED
      BY <2>3, <3>2 DEF Sells, Selling, OfSale, Saga
  <2>4. settled'[t] <= 1
    BY <1>8, <2>2
  <2>5. QED
    BY <1>3, <1>5, <1>6, <2>2, <2>3, <2>4 DEF Charge
<1>9. QED
  BY <1>7, <1>8, Settles

\* No transfer charges its buyer twice, even if a stale buyer_verify sets its status
\* back after it was completed, unless two seller_verify requests ran at once or the
\* ignored write of sellerOtpVerified was lost.
THEOREM ChargeSafe == Spec => []ChargedOnce
<1>1. Init => ChargeInv
  BY DEF Init, ChargeInv, Charge, Sells, Selling, OfSale, Saga
<1>2. Base /\ Base' /\ TypeOK /\ ChargeInv /\ [Next]_vars => ChargeInv'
  BY ChargeStep DEF TypeOK, History
<1>3. ChargeInv => ChargedOnce
  BY DEF ChargeInv, Charge, ChargedOnce
<1>4. QED
  BY <1>1, <1>2, <1>3, Basics, TypeCorrect, PTL DEF Spec

-------------------------------------------------------------------------------
(* Balances: who has one in hand knows how far it is from what is due. *)

Due(u) == InitialCredits + Price * net[u]

\* The saga of c has u's balance in hand, to take the price from or to add it to.
Pays(c, u) == pc[c] \in Saga \cup {"seller_balance"} /\ u = Buyer(job[c].transfer)
Earns(c, u) == pc[c] \in Saga /\ u = Seller(job[c].transfer)
Holds(c, u) == Pays(c, u) \/ Earns(c, u)

\* What it has read is what is due, and the balance is that or off by the price.
PayOK(c, u) ==
  /\ job[c].buyerBalance = Due(u)
  /\ credits[u] = IF pc[c] \in {"seller_balance", "pay"} THEN Due(u) ELSE Due(u) - Price
EarnOK(c, u) ==
  /\ job[c].sellerBalance = Due(u)
  /\ credits[u] = IF pc[c] \in {"pay", "earn", "undo_pay"} THEN Due(u) ELSE Due(u) + Price

Exact(u) ==
  /\ \A c, d \in Calls : Holds(c, u) /\ Holds(d, u) => c = d
  /\ credits[u] = Due(u) \/ \E c \in Calls : Holds(c, u)
  /\ \A c \in Calls : Pays(c, u) => PayOK(c, u)
  /\ \A c \in Calls : Earns(c, u) => EarnOK(c, u)

BalanceInv == \A u \in Users \ (raced \cup misreported) : Exact(u)

\* The sides of a sale are the same before and after a step.
LEMMA SidesStay ==
  ASSUME Base, [Next]_vars, NEW c \in Calls, pc[c] \in OfTransfer, job'[c].transfer = job[c].transfer
  PROVE  /\ Buyer(job[c].transfer)' = Buyer(job[c].transfer)
         /\ Seller(job[c].transfer)' = Seller(job[c].transfer)
<1>1. PICK t \in TransferIds : t = job[c].transfer /\ Opened(t)
  BY JobOpened
<1>2. Buyer(t)' = Buyer(t) /\ Seller(t)' = Seller(t)
  BY <1>1, PartiesStay
<1>3. QED
  BY <1>1, <1>2 DEF Buyer, Seller

\* A request that does not move keeps the balances it has in hand.
LEMMA HoldsStay ==
  ASSUME Base, [Next]_vars, NEW d \in Calls, pc'[d] = pc[d], job'[d] = job[d], NEW u
  PROVE  (Pays(d, u)' <=> Pays(d, u)) /\ (Earns(d, u)' <=> Earns(d, u))
<1>1. CASE pc[d] \in Saga \cup {"seller_balance"}
  <2>1. pc[d] \in OfTransfer
    BY <1>1 DEF OfTransfer, OfSale
  <2>2. Buyer(job[d].transfer)' = Buyer(job[d].transfer) /\ Seller(job[d].transfer)' = Seller(job[d].transfer)
    BY <2>1, SidesStay
  <2>3. QED
    BY <2>2 DEF Pays, Earns
<1>2. CASE pc[d] \notin Saga \cup {"seller_balance"}
  BY <1>2 DEF Pays, Earns
<1>3. QED
  BY <1>1, <1>2

\* A step of requests that do not have u's balance in hand, before or after.
LEMMA Elsewhere ==
  ASSUME Base, [Next]_vars, NEW u \in Users, Exact(u),
         \A d \in Calls : \/ pc'[d] = pc[d] /\ job'[d] = job[d]
                          \/ ~ Holds(d, u) /\ ~ Holds(d, u)',
         credits'[u] = credits[u], Due(u)' = Due(u)
  PROVE  Exact(u)'
<1>1. ASSUME NEW d \in Calls PROVE (Pays(d, u)' <=> Pays(d, u)) /\ (Earns(d, u)' <=> Earns(d, u))
  BY HoldsStay DEF Holds
<1>2. ASSUME NEW d \in Calls, Pays(d, u)' PROVE PayOK(d, u)'
  <2>1. Pays(d, u) /\ PayOK(d, u) /\ pc'[d] = pc[d] /\ job'[d] = job[d]
    BY <1>1, <1>2 DEF Exact, Holds
  <2>2. QED
    BY <2>1 DEF PayOK
<1>3. ASSUME NEW d \in Calls, Earns(d, u)' PROVE EarnOK(d, u)'
  <2>1. Earns(d, u) /\ EarnOK(d, u) /\ pc'[d] = pc[d] /\ job'[d] = job[d]
    BY <1>1, <1>3 DEF Exact, Holds
  <2>2. QED
    BY <2>1 DEF EarnOK
<1>4. QED
  BY <1>1, <1>2, <1>3 DEF Exact, Holds

\* A step of the only request that has u's balance in hand.
LEMMA InHand ==
  ASSUME Base, [Next]_vars, NEW u \in Users, NEW c \in Calls, Alone(c),
         \A d \in Calls \ {c} : ~ Holds(d, u),
         Pays(c, u)' => PayOK(c, u)', Earns(c, u)' => EarnOK(c, u)',
         ~ Holds(c, u)' => credits'[u] = Due(u)'
  PROVE  Exact(u)'
<1>1. ASSUME NEW d \in Calls \ {c} PROVE ~ Pays(d, u)' /\ ~ Earns(d, u)'
  BY HoldsStay DEF Alone, Holds
<1>2. QED
  BY <1>1 DEF Exact, Holds

\* Users two of whose sagas overlapped, or with a write misreported, remain so.
LEMMA ExcludedGrow ==
  ASSUME [Next]_vars
  PROVE  raced \subseteq raced' /\ misreported \subseteq misreported'
<1>1. ASSUME NEW c \in Calls, ReadBuyerBalance(c) \/ ReadSellerBalance(c) PROVE raced \subseteq raced'
  BY <1>1 DEF ReadBuyerBalance, ReadSellerBalance
<1>2. ASSUME NEW c \in Calls,
             PayBuyer(c) \/ CreditSeller(c) \/ UndoSellerCredit(c) \/ UndoBuyerPayment(c)
      PROVE  misreported \subseteq misreported'
  BY <1>2 DEF PayBuyer, CreditSeller, UndoSellerCredit, UndoBuyerPayment, WriteBalance,
              RestoreBalance
<1>3. QED
  BY <1>1, <1>2, Frames DEF Frame

\* A balance that is read while another saga has it in hand is an exception.
LEMMA InUse ==
  ASSUME NEW c \in Calls, NEW u, ~ BalanceInUse(c, u)
  PROVE  \A d \in Calls \ {c} : ~ Holds(d, u)
  BY DEF BalanceInUse, Holds, Pays, Earns

\* The steps of a sale at which the price is taken and added.
Exchanged == {"move", "close_listing", "complete", "undo_listing", "undo_move", "undo_earn"}

\* Where the acting sale stands with its two sides, before and after its step.
LEMMA SaleSides ==
  ASSUME Base, [Next]_vars, NEW c \in Calls, SaleStep(c)
  PROVE  /\ Alone(c)
         /\ Buyer(job[c].transfer) \in Users /\ Seller(job[c].transfer) \in Users
         /\ Buyer(job[c].transfer) # Seller(job[c].transfer)
         /\ \A u : Pays(c, u)' <=> /\ pc'[c] \in Saga \cup {"seller_balance"}
                                   /\ u = Buyer(job[c].transfer)
         /\ \A u : Earns(c, u)' <=> pc'[c] \in Saga /\ u = Seller(job[c].transfer)
<1>1. pc[c] \in OfTransfer
  BY DEF SaleStep, ReadBuyerBalance, ReadSellerBalance, PayBuyer, CreditSeller, MoveTicket,
         CloseListing, CompleteTransfer, UndoListing, UndoMove, UndoSellerCredit,
         UndoBuyerPayment, MarkFailed, OfTransfer, OfSale, Saga
<1>2. Moved(c) /\ Alone(c)
  BY SaleMoves DEF Moved
<1>3. CASE pc'[c] \in Saga \cup {"seller_balance"}
  <2>1. /\ pc'[c] \in Confirming
        /\ pc'[c] \notin {"ask_seller", "check_seller_otp", "buyer_balance"}
    BY <1>3 DEF Confirming, OfSale, Saga
  <2>2. job'[c].transfer = job[c].transfer
    BY <1>2, <2>1 DEF Moved
  <2>3. /\ Buyer(job[c].transfer)' = Buyer(job[c].transfer)
        /\ Seller(job[c].transfer)' = Seller(job[c].transfer)
    BY <1>1, <2>2, SidesStay
  <2>4. QED
    BY <1>1, <1>2, <2>3, JobParties DEF Pays, Earns
<1>4. CASE pc'[c] \notin Saga \cup {"seller_balance"}
  BY <1>1, <1>2, <1>4, JobParties DEF Pays, Earns
<1>5. QED
  BY <1>3, <1>4

\* A sale leaves the balances of the two sides as its next step expects them.
LEMMA SaleExact ==
  ASSUME Base, [Next]_vars, History, NEW c \in Calls, SaleStep(c),
         NEW u \in Users, u \notin raced', u \notin misreported', Exact(u)
  PROVE  Exact(u)'
<1> DEFINE b == Buyer(job[c].transfer)
           s == Seller(job[c].transfer)
           Hand == \A d \in Calls \ {c} : ~ Holds(d, u)
<1>1. /\ Alone(c) /\ b \in Users /\ s \in Users /\ b # s
      /\ Pays(c, u)' <=> pc'[c] \in Saga \cup {"seller_balance"} /\ u = b
      /\ Earns(c, u)' <=> pc'[c] \in Saga /\ u = s
  BY SaleSides
<1>2. /\ Pays(c, u) <=> pc[c] \in Saga \cup {"seller_balance"} /\ u = b
      /\ Earns(c, u) <=> pc[c] \in Saga /\ u = s
  BY DEF Pays, Earns
<1>3. /\ Price \in Nat /\ InitialCredits \in Nat /\ net \in [Users -> Int]
      /\ credits \in [Users -> Nat] /\ pc \in [Calls -> Pc] /\ job \in [Calls -> Job]
  BY PriceAssumption DEF Base, ThreadsOK, History
<1>4. Due(u) \in Int
  BY <1>3 DEF Due
<1>5. /\ Holds(c, u) => Hand
      /\ Pays(c, u) => PayOK(c, u)
      /\ Earns(c, u) => EarnOK(c, u)
      /\ Hand /\ ~ Holds(c, u) => credits[u] = Due(u)
  BY DEF Exact
<1>6. net'[u] = net[u] => Due(u)' = Due(u)
  BY DEF Due
<1>7. ASSUME ~ Holds(c, u), ~ Holds(c, u)', credits'[u] = credits[u], net'[u] = net[u]
      PROVE  Exact(u)'
  BY <1>1, <1>6, <1>7, Elsewhere DEF Alone
<1>8. ASSUME Hand, Pays(c, u)' => PayOK(c, u)', Earns(c, u)' => EarnOK(c, u)',
             ~ Holds(c, u)' => credits'[u] = Due(u)'
      PROVE  Exact(u)'
  BY <1>1, <1>8, InHand
<1>9. ASSUME NEW step, Goto(c, step) PROVE pc'[c] = step /\ job'[c] = job[c]
  BY <1>3, <1>9 DEF Goto
<1>10. ASSUME Answer(c) PROVE pc'[c] = "idle"
  BY <1>3, <1>10 DEF Answer
<1>11. ASSUME NEW v \in Users, NEW x, credits' = [credits EXCEPT ![v] = x]
       PROVE  credits'[v] = x /\ (u # v => credits'[u] = credits[u])
  BY <1>3, <1>11
<1> HIDE DEF b, s, Hand
<1>12. CASE ReadBuyerBalance(c)
  <2>1. pc[c] = "buyer_balance" /\ UNCHANGED <<credits, net>>
    BY <1>12 DEF ReadBuyerBalance, tables
  <2>2. ~ Holds(c, u)
    BY <1>2, <2>1 DEF Holds, Saga
  <2>3. CASE Goto(c, "mark_failed")
    <3>1. ~ Holds(c, u)'
      BY <1>1, <1>9, <2>3 DEF Holds, Saga
    <3>2. QED
      BY <1>7, <2>1, <2>2, <3>1
  <2>4. CASE ~ Goto(c, "mark_failed")
    <3>1. /\ pc' = [pc EXCEPT ![c] = "seller_balance"]
          /\ job' = [job EXCEPT ![c].buyerBalance = credits[b]]
          /\ raced' = IF BalanceInUse(c, b) THEN raced \cup {b} ELSE raced
      BY <1>12, <2>4 DEF ReadBuyerBalance, get_credit_balance, b
    <3>2. pc'[c] = "seller_balance" /\ job'[c].buyerBalance = credits[b]
      BY <1>1, <1>3, <3>1 DEF Job
    <3>3. CASE u = b
      <4>1. Hand
        BY <3>1, <3>3, InUse DEF Hand
      <4>2. credits[u] = Due(u) /\ credits'[u] = Due(u) /\ Due(u)' = Due(u)
        BY <1>5, <1>6, <2>1, <2>2, <4>1
      <4>3. PayOK(c, u)'
        BY <3>2, <3>3, <4>2 DEF PayOK
      <4>4. ~ Earns(c, u)'
        BY <1>1, <3>2 DEF Saga
      <4>5. QED
        BY <1>8, <4>1, <4>2, <4>3, <4>4
    <3>4. CASE u # b
      <4>1. ~ Holds(c, u)'
        BY <1>1, <3>2, <3>4 DEF Holds, Saga
      <4>2. QED
        BY <1>7, <2>1, <2>2, <4>1
    <3>5. QED
      BY <3>3, <3>4
  <2>5. QED
    BY <2>3, <2>4
<1>13. CASE ReadSellerBalance(c)
  <2>1. pc[c] = "seller_balance" /\ UNCHANGED <<credits, net>>
    BY <1>13 DEF ReadSellerBalance, tables
  <2>2. Due(u)' = Due(u) /\ credits'[u] = credits[u]
    BY <1>6, <2>1
  <2>3. u = b => Hand /\ job[c].buyerBalance = Due(u) /\ credits[u] = Due(u)
    BY <1>2, <1>5, <2>1 DEF Holds, PayOK
  <2>4. u # b => ~ Holds(c, u)
    BY <1>2, <2>1 DEF Holds, Saga
  <2>5. CASE Answer(c)
    <3>1. ~ Holds(c, u)' /\ ~ Pays(c, u)' /\ ~ Earns(c, u)'
      BY <1>1, <1>10, <2>5 DEF Holds, Saga
    <3>2. CASE u = b
      BY <1>8, <2>2, <2>3, <3>1, <3>2
    <3>3. CASE u # b
      BY <1>7, <2>1, <2>4, <3>1, <3>3
    <3>4. QED
      BY <3>2, <3>3
  <2>6. CASE ~ Answer(c)
    <3>1. /\ pc' = [pc EXCEPT ![c] = "pay"]
          /\ job' = [job EXCEPT ![c].sellerBalance = credits[s]]
          /\ raced' = IF BalanceInUse(c, s) THEN raced \cup {s} ELSE raced
      BY <1>13, <2>6 DEF ReadSellerBalance, get_credit_balance, s
    <3>2. /\ pc'[c] = "pay" /\ job'[c].sellerBalance = credits[s]
          /\ job'[c].buyerBalance = job[c].buyerBalance
      BY <1>1, <1>3, <3>1 DEF Job
    <3>3. CASE u = b
      <4>1. PayOK(c, u)'
        BY <2>2, <2>3, <3>2, <3>3 DEF PayOK
      <4>2. ~ Earns(c, u)'
        BY <1>1, <3>3
      <4>3. Pays(c, u)'
        BY <1>1, <3>2, <3>3 DEF Saga
      <4>4. QED
        BY <1>8, <2>3, <3>3, <4>1, <4>2, <4>3 DEF Holds
    <3>4. CASE u = s
      <4>1. Hand
        BY <3>1, <3>4, InUse DEF Hand
      <4>2. credits[u] = Due(u)
        BY <1>1, <1>5, <2>4, <3>4, <4>1
      <4>3. EarnOK(c, u)'
        BY <2>2, <3>2, <3>4, <4>2 DEF EarnOK
      <4>4. ~ Pays(c, u)'
        BY <1>1, <3>4
      <4>5. QED
        BY <1>8, <2>2, <4>1, <4>2, <4>3, <4>4
    <3>5. CASE u # b /\ u # s
      <4>1. ~ Holds(c, u)'
        BY <1>1, <3>5 DEF Holds
      <4>2. QED
        BY <1>7, <2>1, <2>4, <3>5, <4>1
    <3>6. QED
      BY <3>3, <3>4, <3>5
  <2>7. QED
    BY <2>5, <2>6
<1>14. CASE MarkFailed(c)
  <2>1. pc[c] = "mark_failed" /\ UNCHANGED <<credits, net>> /\ pc'[c] = "idle"
    BY <1>10, <1>14 DEF MarkFailed, history
  <2>2. ~ Holds(c, u) /\ ~ Holds(c, u)'
    BY <1>1, <1>2, <2>1 DEF Holds, Saga
  <2>3. QED
    BY <1>7, <2>1, <2>2
<1>15. ASSUME pc[c] \in Saga, u # b, u # s, credits'[u] = credits[u], net'[u] = net[u]
       PROVE  Exact(u)'
  <2>1. ~ Holds(c, u) /\ ~ Holds(c, u)'
    BY <1>1, <1>2, <1>15 DEF Holds
  <2>2. QED
    BY <1>7, <1>15, <2>1
<1>16. ASSUME pc[c] \in Saga, u = b, Due(u)' = Due(u), job'[c] = job[c],
              pc'[c] \in Saga \cup {"mark_failed"},
              credits'[u] = IF pc'[c] \in {"pay", "mark_failed"} THEN Due(u) ELSE Due(u) - Price
       PROVE  Exact(u)'
  <2>1. Hand /\ job[c].buyerBalance = Due(u)
    BY <1>2, <1>5, <1>16 DEF Holds, PayOK
  <2>2. CASE pc'[c] = "mark_failed"
    <3>1. ~ Pays(c, u)' /\ ~ Earns(c, u)'
      BY <1>1, <2>2 DEF Saga
    <3>2. QED
      BY <1>8, <1>16, <2>1, <2>2, <3>1
  <2>3. CASE pc'[c] \in Saga
    <3>1. Pays(c, u)' /\ ~ Earns(c, u)'
      BY <1>1, <1>16, <2>3
    <3>2. pc'[c] # "mark_failed" /\ pc'[c] # "seller_balance"
      BY <2>3 DEF Saga
    <3>3. PayOK(c, u)'
      BY <1>16, <2>1, <3>2 DEF PayOK
    <3>4. QED
      BY <1>8, <2>1, <3>1, <3>3 DEF Holds
  <2>4. QED
    BY <1>16, <2>2, <2>3
<1>17. ASSUME pc[c] \in Saga, u = s, Due(u)' = Due(u), job'[c] = job[c],
              pc'[c] \in Saga \cup {"mark_failed"},
              credits'[u] = IF pc'[c] \in {"pay", "earn", "undo_pay", "mark_failed"} THEN Due(u)
                              ELSE Due(u) + Price
       PROVE  Exact(u)'
  <2>1. Hand /\ job[c].sellerBalance = Due(u)
    BY <1>2, <1>5, <1>17 DEF Holds, EarnOK
  <2>2. CASE pc'[c] = "mark_failed"
    <3>1. ~ Pays(c, u)' /\ ~ Earns(c, u)'
      BY <1>1, <2>2 DEF Saga
    <3>2. QED
      BY <1>8, <1>17, <2>1, <2>2, <3>1
  <2>3. CASE pc'[c] \in Saga
    <3>1. Earns(c, u)' /\ ~ Pays(c, u)'
      BY <1>1, <1>17, <2>3
    <3>2. pc'[c] # "mark_failed"
      BY <2>3 DEF Saga
    <3>3. EarnOK(c, u)'
      BY <1>17, <2>1, <3>2 DEF EarnOK
    <3>4. QED
      BY <1>8, <2>1, <3>1, <3>3 DEF Holds
  <2>4. QED
    BY <1>17, <2>2, <2>3
<1>18. pc[c] \in Saga => /\ u = b => /\ job[c].buyerBalance = Due(u)
                                     /\ credits[u] = IF pc[c] = "pay" THEN Due(u) ELSE Due(u) - Price
                         /\ u = s => /\ job[c].sellerBalance = Due(u)
                                     /\ credits[u] = IF pc[c] \in {"pay", "earn", "undo_pay"}
                                                       THEN Due(u) ELSE Due(u) + Price
  <2>1. pc[c] \in Saga => pc[c] # "seller_balance"
    BY DEF Saga
  <2>2. QED
    BY <1>2, <1>5, <2>1 DEF PayOK, EarnOK
<1>19. CASE PayBuyer(c)
  <2>1. /\ pc[c] = "pay" /\ UNCHANGED net
        /\ \/ credits' = [credits EXCEPT ![b] = job[c].buyerBalance - Price] /\ Goto(c, "earn")
           \/ UNCHANGED credits /\ Goto(c, "mark_failed")
           \/ /\ credits' = [credits EXCEPT ![b] = job[c].buyerBalance - Price]
              /\ Goto(c, "mark_failed") /\ b \in misreported'
    BY <1>19 DEF PayBuyer, WriteBalance, b
  <2>2. pc[c] \in Saga /\ "earn" \in Saga /\ Due(u)' = Due(u)
    BY <1>6, <2>1 DEF Saga
  <2>3. CASE u = b
    <3>1. \/ credits'[u] = Due(u) - Price /\ pc'[c] = "earn" /\ job'[c] = job[c]
          \/ credits'[u] = Due(u) /\ pc'[c] = "mark_failed" /\ job'[c] = job[c]
      BY <1>1, <1>9, <1>11, <1>18, <2>1, <2>2, <2>3
    <3>2. QED
      BY <1>16, <2>2, <2>3, <3>1
  <2>4. CASE u # b
    <3>1. credits'[u] = credits[u] /\ pc'[c] \in {"earn", "mark_failed"} /\ job'[c] = job[c]
      BY <1>1, <1>9, <1>11, <2>1, <2>4
    <3>2. CASE u = s
      BY <1>17, <1>18, <2>1, <2>2, <3>1, <3>2
    <3>3. QED
      BY <1>15, <2>1, <2>2, <2>4, <3>1, <3>2
  <2>5. QED
    BY <2>3, <2>4
<1>20. CASE CreditSeller(c)
  <2>1. /\ pc[c] = "earn" /\ UNCHANGED net
        /\ \/ /\ credits' = [credits EXCEPT ![s] = job[c].sellerBalance + Price]
              /\ Goto(c, "move") \/ Goto(c, "undo_earn")
           \/ UNCHANGED credits /\ Goto(c, "undo_pay")
           \/ /\ credits' = [credits EXCEPT ![s] = job[c].sellerBalance + Price]
              /\ Goto(c, "undo_pay") /\ s \in misreported'
    BY <1>20 DEF CreditSeller, WriteBalance, s
  <2>2. /\ pc[c] \in Saga /\ {"move", "undo_earn", "undo_pay"} \subseteq Saga /\ Due(u)' = Due(u)
    BY <1>6, <2>1 DEF Saga
  <2>3. CASE u = s
    <3>1. /\ \/ credits'[u] = Due(u) + Price /\ pc'[c] \in {"move", "undo_earn"}
             \/ credits'[u] = Due(u) /\ pc'[c] = "undo_pay"
          /\ job'[c] = job[c]
      BY <1>1, <1>9, <1>11, <1>18, <2>1, <2>2, <2>3
    <3>2. QED
      BY <1>17, <2>2, <2>3, <3>1
  <2>4. CASE u # s
    <3>1. credits'[u] = credits[u] /\ pc'[c] \in {"move", "undo_earn", "undo_pay"} /\ job'[c] = job[c]
      BY <1>1, <1>9, <1>11, <2>1, <2>4
    <3>2. CASE u = b
      BY <1>16, <1>18, <2>1, <2>2, <3>1, <3>2
    <3>3. QED
      BY <1>15, <2>1, <2>2, <2>4, <3>1, <3>2
  <2>5. QED
    BY <2>3, <2>4
<1>21. ASSUME pc[c] \in Exchanged, NEW step \in Exchanged, Goto(c, step), UNCHANGED <<credits, net>>
       PROVE  Exact(u)'
  <2>1. pc[c] \in Saga /\ step \in Saga /\ Due(u)' = Due(u)
    BY <1>6, <1>21 DEF Saga, Exchanged
  <2>2. pc'[c] = step /\ job'[c] = job[c]
    BY <1>9, <1>21
  <2>3. pc[c] \notin {"pay", "earn", "undo_pay"} /\ step \notin {"pay", "earn", "undo_pay", "mark_failed"}
    BY <1>21 DEF Exchanged
  <2>4. CASE u = b
    BY <1>16, <1>18, <1>21, <2>1, <2>2, <2>3, <2>4
  <2>5. CASE u = s
    BY <1>17, <1>18, <1>21, <2>1, <2>2, <2>3, <2>5
  <2>6. QED
    BY <1>15, <1>21, <2>1, <2>4, <2>5
<1>22. CASE MoveTicket(c) \/ CloseListing(c) \/ UndoListing(c) \/ UndoMove(c)
  <2>1. /\ pc[c] \in Exchanged /\ UNCHANGED <<credits, net>>
        /\ \E step \in Exchanged : Goto(c, step)
    BY <1>22 DEF MoveTicket, CloseListing, UndoListing, UndoMove, Exchanged, history
  <2>2. QED
    BY <1>21, <2>1
<1>23. CASE UndoSellerCredit(c)
  <2>1. /\ pc[c] = "undo_earn" /\ UNCHANGED net /\ Goto(c, "undo_pay")
        /\ \/ credits' = [credits EXCEPT ![s] = job[c].sellerBalance]
           \/ UNCHANGED credits /\ s \in misreported'
    BY <1>23 DEF UndoSellerCredit, RestoreBalance, s
  <2>2. /\ pc[c] \in Saga /\ "undo_pay" \in Saga /\ Due(u)' = Due(u)
        /\ pc'[c] = "undo_pay" /\ job'[c] = job[c]
    BY <1>6, <1>9, <2>1 DEF Saga
  <2>3. CASE u = s
    <3>1. credits'[u] = Due(u)
      BY <1>1, <1>11, <1>18, <2>1, <2>2, <2>3
    <3>2. QED
      BY <1>17, <2>2, <2>3, <3>1
  <2>4. CASE u # s
    <3>1. credits'[u] = credits[u]
      BY <1>1, <1>11, <2>1, <2>4
    <3>2. CASE u = b
      BY <1>16, <1>18, <2>1, <2>2, <3>1, <3>2
    <3>3. QED
      BY <1>15, <2>1, <2>2, <2>4, <3>1, <3>2
  <2>5. QED
    BY <2>3, <2>4
<1>24. CASE UndoBuyerPayment(c)
  <2>1. /\ pc[c] = "undo_pay" /\ UNCHANGED net /\ Goto(c, "mark_failed")
        /\ \/ credits' = [credits EXCEPT ![b] = job[c].buyerBalance]
           \/ UNCHANGED credits /\ b \in misreported'
    BY <1>24 DEF UndoBuyerPayment, RestoreBalance, b
  <2>2. /\ pc[c] \in Saga /\ Due(u)' = Due(u)
        /\ pc'[c] = "mark_failed" /\ job'[c] = job[c]
    BY <1>6, <1>9, <2>1 DEF Saga
  <2>3. CASE u = b
    <3>1. credits'[u] = Due(u)
      BY <1>1, <1>11, <1>18, <2>1, <2>2, <2>3
    <3>2. QED
      BY <1>16, <2>2, <2>3, <3>1
  <2>4. CASE u # b
    <3>1. credits'[u] = credits[u]
      BY <1>1, <1>11, <2>1, <2>4
    <3>2. CASE u = s
      BY <1>17, <1>18, <2>1, <2>2, <3>1, <3>2
    <3>3. QED
      BY <1>15, <2>1, <2>2, <2>4, <3>1, <3>2
  <2>5. QED
    BY <2>3, <2>4
<1>25. CASE CompleteTransfer(c)
  <2>1. /\ pc[c] = "complete" /\ UNCHANGED credits
        /\ \/ Goto(c, "undo_listing") /\ UNCHANGED net
           \/ Answer(c) /\ net' = [net EXCEPT ![b] = @ - 1, ![s] = @ + 1]
    BY <1>25 DEF CompleteTransfer, b, s
  <2>2. pc[c] \in Exchanged /\ pc[c] \in Saga /\ "undo_listing" \in Exchanged
    BY <2>1 DEF Exchanged, Saga
  <2>3. CASE Goto(c, "undo_listing") /\ UNCHANGED net
    BY <1>21, <2>1, <2>2, <2>3
  <2>4. CASE Answer(c) /\ net' = [net EXCEPT ![b] = @ - 1, ![s] = @ + 1]
    <3>1. net'[b] = net[b] - 1 /\ net'[s] = net[s] + 1 /\ (u # b /\ u # s => net'[u] = net[u])
      <4> DEFINE n == [net EXCEPT ![b] = @ - 1]
      <4>1. n \in [Users -> Int] /\ n[b] = net[b] - 1 /\ n[s] = net[s] /\ (u # b => n[u] = net[u])
        BY <1>1, <1>3
      <4>2. net' = [n EXCEPT ![s] = @ + 1]
        BY <1>1, <1>3, <2>4, <4>1
      <4> HIDE DEF n
      <4>3. QED
        BY <1>1, <4>1, <4>2
    <3>2. pc'[c] = "idle" /\ ~ Pays(c, u)' /\ ~ Earns(c, u)'
      BY <1>1, <1>10, <2>4 DEF Saga
    <3>3. CASE u = b
      <4>1. Hand /\ credits'[u] = Due(u) - Price
        BY <1>2, <1>5, <1>18, <2>1, <2>2, <3>3 DEF Holds
      <4>2. Due(u)' = Due(u) - Price
        BY <1>3, <3>1, <3>3 DEF Due
      <4>3. QED
        BY <1>8, <3>2, <4>1, <4>2
    <3>4. CASE u = s
      <4>1. Hand /\ credits'[u] = Due(u) + Price
        BY <1>2, <1>5, <1>18, <2>1, <2>2, <3>4 DEF Holds
      <4>2. Due(u)' = Due(u) + Price
        <5>1. \A k \in Int : Price * (k + 1) = Price * k + Price
          BY <1>3
        <5>2. net'[u] = net[u] + 1 /\ net[u] \in Int
          BY <1>1, <1>3, <3>1, <3>4
        <5>3. Price * net'[u] = Price * net[u] + Price
          BY <5>1, <5>2
        <5>4. Price * net[u] \in Int
          BY <1>3, <5>2
        <5>5. QED
          BY <1>3, <5>3, <5>4 DEF Due
      <4>3. QED
        BY <1>8, <3>2, <4>1, <4>2
    <3>5. QED
      BY <1>15, <2>1, <2>2, <3>1, <3>3, <3>4
  <2>5. QED
    BY <2>1, <2>3, <2>4
<1>26. QED
  BY <1>12, <1>13, <1>14, <1>19, <1>20, <1>22, <1>23, <1>24, <1>25 DEF SaleStep

\* Every step keeps the balances exact.
LEMMA BalanceStep ==
  ASSUME Base, [Next]_vars, History, BalanceInv
  PROVE  BalanceInv'
<1>1. SUFFICES ASSUME NEW u \in Users, u \notin raced', u \notin misreported'
               PROVE  Exact(u)'
  BY DEF BalanceInv
<1>2. Exact(u)
  BY <1>1, ExcludedGrow DEF BalanceInv
<1>3. CASE \E c \in Calls : SaleStep(c)
  BY <1>1, <1>2, <1>3, SaleExact
<1>4. CASE \A c \in Calls : ~ SaleStep(c)
  <2>1. UNCHANGED <<credits, net>>
    BY <1>4, Frames DEF Frame, SaleStep
  <2>2. ASSUME NEW c \in Calls, Moved(c) PROVE ~ Holds(c, u) /\ ~ Holds(c, u)'
    <3>1. pc[c] \notin Saga \cup {"seller_balance"}
      <4>1. pc[c] \in Saga \cup {"seller_balance"} =>
              pc[c] \in OfSale /\ pc[c] \notin {"idle", "check_buyer_otp", "check_seller_otp"}
        BY DEF OfSale, Saga
      <4>2. QED
        BY <1>4, <2>2, <4>1 DEF Moved, CheckBuyerOtp, CheckSellerOtp
    <3>2. pc'[c] \notin Saga \cup {"seller_balance"}
      <4>1. pc'[c] \in Saga \cup {"seller_balance"} =>
              pc'[c] \in Confirming /\ pc'[c] \notin {"ask_seller", "check_seller_otp", "buyer_balance"}
        BY DEF Confirming, OfSale, Saga
      <4>2. QED
        BY <1>4, <2>2, <4>1 DEF Moved
    <3>3. QED
      BY <3>1, <3>2 DEF Holds, Pays, Earns
  <2>3. ASSUME NEW d \in Calls
        PROVE  \/ pc'[d] = pc[d] /\ job'[d] = job[d]
               \/ ~ Holds(d, u) /\ ~ Holds(d, u)'
    BY <2>2, Moves DEF Moved, Alone
  <2>4. credits'[u] = credits[u] /\ Due(u)' = Due(u)
    BY <2>1 DEF Due
  <2>5. QED
    BY <1>2, <2>3, <2>4, Elsewhere
<1>5. QED
  BY <1>3, <1>4

\* Whoever is in no running saga has exactly the initial credits plus the price of
\* each ticket sold less that of each ticket bought, however far sagas came before
\* they failed and were compensated by _execute_saga, except users two of whose
\* sagas overlapped and users with a credit write that was reported wrongly.
THEOREM BalancesSafe == Spec => []TransferBalancesExact
<1>1. Init => BalanceInv
  <2>1. SUFFICES ASSUME Init PROVE BalanceInv
    OBVIOUS
  <2>2. \A u \in Users : credits[u] = Due(u)
    BY <2>1, PriceAssumption DEF Init, Due
  <2>3. \A c \in Calls : \A u : ~ Pays(c, u) /\ ~ Earns(c, u)
    BY <2>1 DEF Init, Pays, Earns, Saga
  <2>4. QED
    BY <2>2, <2>3 DEF BalanceInv, Exact, Holds
<1>2. Base /\ TypeOK /\ BalanceInv /\ [Next]_vars => BalanceInv'
  BY BalanceStep DEF TypeOK, History
<1>3. BalanceInv => TransferBalancesExact
  <2>1. SUFFICES ASSUME BalanceInv, NEW u \in Users \ (raced \cup misreported),
                        \A c \in Calls : pc[c] \in Saga => u \notin Parties(c)
                 PROVE  credits[u] = Due(u)
    BY DEF TransferBalancesExact, Due
  <2>2. Exact(u)
    BY <2>1 DEF BalanceInv
  <2>3. ASSUME NEW c \in Calls, Holds(c, u) PROVE credits[u] = Due(u)
    <3>1. Pays(c, u) /\ pc[c] = "seller_balance"
      BY <2>1, <2>3 DEF Holds, Pays, Earns, Parties
    <3>2. QED
      BY <2>2, <3>1 DEF Exact, PayOK
  <2>4. QED
    BY <2>2, <2>3 DEF Exact
<1>4. QED
  BY <1>1, <1>2, <1>3, Basics, TypeCorrect, PTL DEF Spec
===============================================================================
