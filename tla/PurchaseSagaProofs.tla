-------------------------- MODULE PurchaseSagaProofs --------------------------
(***************************************************************************)
(* Proofs of safety properties of PurchaseSaga for any number of seats,    *)
(* users, holds, requests and tickets.                                     *)
(***************************************************************************)
EXTENDS PurchaseSaga, FiniteSetTheorems, TLAPS

-------------------------------------------------------------------------------
(* The ledger. *)

\* A held row is one of the holds granted; any other row has no holder left in it.
RowInv ==
  \A s \in Seats :
     IF ledger[s].status = "held"
       THEN [seat |-> s, user |-> ledger[s].heldByUserId, token |-> ledger[s].holdToken] \in granted
       ELSE ledger[s] = Bare(ledger[s].status)

\* No two holds share a token.
TokenInv == \A g, h \in granted : g.token = h.token => g = h

\* A request only uses tokens that were granted.
JobInv ==
  \A c \in Calls : pc[c] # "idle" /\ job[c].token # Null =>
     \E h \in granted : h.token = job[c].token

\* From the sale on, the token a request has sold with is in no row any more.
SpentInv ==
  \A c \in Calls : pc[c] \in {"ticket", "undo_ticket", "pay", "undo_pay", "log"} =>
     /\ job[c].token \in Tokens
     /\ \A s \in Seats : ledger[s].holdToken # job[c].token

\* A seat sold by a request that has not made its ticket yet has no ticket, and no
\* other request is selling it.
SaleInv ==
  \A c \in Calls : pc[c] = "ticket" /\ job[c].seat \notin overwritten =>
     /\ ledger[job[c].seat].status = "sold"
     /\ \A x \in tickets : x.seat # job[c].seat
     /\ \A d \in Calls : pc[d] = "ticket" /\ job[d].seat = job[c].seat => d = c
     /\ \E h \in granted : h.seat = job[c].seat /\ h.user = job[c].user

\* A receipt is for a payment that was made, and that for a ticket that exists.
ChargedInv ==
  /\ receipts \subseteq charged
  /\ \A k \in charged : \E x \in tickets : x.id = k

\* Payments under way or late are for tickets that exist, and a request only logs
\* a payment that was made.
PaidInv ==
  /\ \A c \in Calls : pc[c] \in {"pay", "undo_pay", "log"} => \E x \in tickets : x.id = job[c].ticket
  /\ \A c \in Calls : pc[c] = "log" => job[c].ticket \in charged
  /\ \A e \in late : \E x \in tickets : x.id = e.ticket

\* While u's balance updates do not overlap, at most one of them is under way, in a
\* request or as a late write, and it still agrees with the balance.
WindowInv ==
  \A u \in Users \ raced :
     /\ \A c \in Calls : job[c].user = u /\ pc[c] \in {"sell", "ticket", "pay"} =>
          /\ job[c].balance = credits[u]
          /\ \A d \in Calls : job[d].user = u /\ pc[d] \in {"sell", "ticket", "pay"} => d = c
          /\ \A e \in late : e.user # u
     /\ \A e \in late : e.user = u =>
          /\ e.balance = credits[u] - Price
          /\ \A f \in late : f.user = u => f = e

\* Ticket ids are unique, and a payment under way or late is its owner's, not made
\* yet, and the only one for its ticket.
UnpaidInv ==
  /\ IsFiniteSet(tickets)
  /\ \A x, y \in tickets : x.id = y.id => x = y
  /\ \A c \in Calls : pc[c] = "pay" =>
       /\ job[c].ticket \notin charged
       /\ \A x \in tickets : x.id = job[c].ticket => x.owner = job[c].user
       /\ \A d \in Calls : pc[d] = "pay" /\ job[d].ticket = job[c].ticket => d = c
       /\ \A e \in late : e.ticket # job[c].ticket
  /\ \A e \in late :
       /\ e.ticket \notin charged
       /\ \A x \in tickets : x.id = e.ticket => x.owner = e.user
       /\ \A f \in late : f.ticket = e.ticket => f = e

-------------------------------------------------------------------------------
(* Records, and the three ways a request moves. *)

\* A row nobody holds is a row, with no holder in it.
LEMMA BareRow ==
  \A st : /\ st \in Status => Bare(st) \in Row
          /\ Bare(st).status = st /\ Bare(st).heldByUserId = Null /\ Bare(st).holdToken = Null
  BY DEF Bare, Row

\* The row of a hold is a row, and has that hold's user and token.
LEMMA HeldRow ==
  \A u, t : LET r == [status |-> "held", heldByUserId |-> u, holdToken |-> t] IN
     /\ u \in Users /\ t \in Tokens => r \in Row
     /\ r.status = "held" /\ r.heldByUserId = u /\ r.holdToken = t
  BY DEF Row, Status

\* The fields of a row have their types.
LEMMA RowFields ==
  ASSUME NEW r \in Row
  PROVE  /\ r.status \in Status
         /\ r.heldByUserId \in Users \cup {Null} /\ r.holdToken \in Tokens \cup {Null}
  BY DEF Row

\* The fields of a job put together from its parts.
LEMMA WorkFields ==
  /\ \A s, u, t, b, k : /\ Work(s, u, t, b, k).seat = s /\ Work(s, u, t, b, k).user = u
                        /\ Work(s, u, t, b, k).token = t /\ Work(s, u, t, b, k).balance = b
                        /\ Work(s, u, t, b, k).ticket = k
  /\ NoJob.user = Null /\ NoJob.seat = Null /\ NoJob.token = Null
  BY DEF Work, NoJob

\* A job put together from well-typed parts is a job.
LEMMA WorkType ==
  /\ \A s \in Seats \cup {Null}, u \in Users \cup {Null}, t \in Tokens \cup {Null},
        b \in Nat, k \in TicketIds \cup {Null} : Work(s, u, t, b, k) \in Job
  /\ NoJob \in Job
  BY DEF Work, NoJob, Job

\* The fields of a job have their types.
LEMMA JobFields ==
  ASSUME NEW j \in Job
  PROVE  /\ j.user \in Users \cup {Null} /\ j.seat \in Seats \cup {Null}
         /\ j.token \in Tokens \cup {Null} /\ j.balance \in Nat
         /\ j.ticket \in TicketIds \cup {Null}
  BY DEF Job

\* The fields of a hold have their types.
LEMMA HoldFields ==
  ASSUME NEW h \in Hold
  PROVE  h.seat \in Seats /\ h.user \in Users /\ h.token \in Tokens
  BY DEF Hold

\* A request that answers is idle and well formed.
LEMMA AnswerOK ==
  ASSUME JobsOK, NEW c \in Calls, Answer(c)
  PROVE  JobsOK'
  BY WorkType DEF JobsOK, Answer, Pc

\* A request that goes on keeps its job, which must suit the next step.
LEMMA GotoOK ==
  ASSUME JobsOK, NEW c \in Calls, NEW step \in Pc, Goto(c, step), pc[c] # "idle", step # "publish",
         step \in {"sell", "ticket", "pay"} => job[c].balance >= Price,
         step \in {"pay", "undo_pay", "log"} => job[c].ticket \in TicketIds
  PROVE  JobsOK'
  BY DEF JobsOK, Goto

\* A request that goes on with what it has found keeps its seat and user.
LEMMA WorkOK ==
  ASSUME JobsOK, NEW c \in Calls, NEW step \in Pc, NEW j \in Job, j.user \in Users, j.seat \in Seats,
         step # "publish", step \in {"sell", "ticket", "pay"} => j.balance >= Price,
         step \in {"pay", "undo_pay", "log"} => j.ticket \in TicketIds,
         pc' = [pc EXCEPT ![c] = step], job' = [job EXCEPT ![c] = j]
  PROVE  JobsOK'
  BY DEF JobsOK

\* A request that is taken up has its seat and user, and the token of its hold.
LEMMA AcceptOK ==
  ASSUME JobsOK, NEW c \in Calls, NEW step \in {"publish", "check"}, NEW s \in Seats, NEW u \in Users,
         NEW t \in Tokens \cup {Null}, step = "publish" => t \in Tokens, Accept(c, step, s, u, t)
  PROVE  JobsOK'
  BY WorkType, WorkFields DEF JobsOK, Accept, Pc

\* The ReleaseSeat RPC leaves well-formed rows.
LEMMA ReleaseOK ==
  ASSUME LedgerOK, NEW s \in Seats, NEW u, NEW t, ReleaseSeat(s, u, t)
  PROVE  LedgerOK'
<1>1. Misdirected(s, u, t) => t \in Tokens
  BY HoldFields DEF Misdirected, LedgerOK
<1>2. refused' \subseteq Tokens
  BY <1>1 DEF LedgerOK, ReleaseSeat
<1>3. QED
  BY <1>2, BareRow DEF LedgerOK, ReleaseSeat, Status

\* Every step keeps the tables, the queue and the requests well formed.
LEMMA TypeStep ==
  ASSUME TypeOK, Next
  PROVE  TypeOK'
<1> USE DEF TypeOK, services, history, seatService, ledgerVars
<1>1. ASSUME NEW S \in SUBSET Seats, OpenSeats(S) PROVE TypeOK'
  <2>1. LedgerOK'
    BY <1>1, BareRow DEF OpenSeats, AddSeats, LedgerOK, Status
  <2>2. QED
    BY <1>1, <2>1 DEF OpenSeats, ServicesOK, JobsOK, HistoryOK
<1>2. ASSUME NEW T \in SUBSET Tokens, TimePasses(T) PROVE TypeOK'
  <2>1. LedgerOK'
    BY <1>2 DEF TimePasses, Lapse, LedgerOK
  <2>2. QED
    BY <1>2, <2>1 DEF TimePasses, ServicesOK, JobsOK, HistoryOK
<1>3. ASSUME NEW s \in Seats, NEW u \in Users, NEW t \in Tokens, release_hold(s, u, t)
        PROVE TypeOK'
  <2>1. LedgerOK'
    BY <1>3, ReleaseOK DEF release_hold
  <2>2. QED
    BY <1>3, <2>1 DEF release_hold, ServicesOK, JobsOK, HistoryOK
<1>4. ASSUME NEW c \in Calls, NEW s \in Seats, NEW u \in Users, NEW t \in Tokens, hold_seat(c, s, u, t)
        PROVE TypeOK'
  <2>1. [seat |-> s, user |-> u, token |-> t] \in Hold
    BY DEF Hold
  <2>2. LedgerOK'
    BY <1>4, <2>1, HeldRow DEF hold_seat, Grant, LedgerOK
  <2>3. JobsOK'
    BY <1>4, AcceptOK DEF hold_seat, JobsOK
  <2>4. QED
    BY <1>4, <2>2, <2>3 DEF hold_seat, ServicesOK, HistoryOK
<1>5. ASSUME NEW c \in Calls, NEW s \in Seats, NEW u \in Users, NEW t \in Tokens \cup {Null}, confirm_purchase(c, s, u, t)
        PROVE TypeOK'
  <2>1. JobsOK'
    BY <1>5, AcceptOK DEF confirm_purchase
  <2>2. QED
    BY <1>5, <2>1 DEF confirm_purchase, LedgerOK, ServicesOK, HistoryOK
<1>6. ASSUME NEW c \in Calls, publish_hold_ttl(c) PROVE TypeOK'
  <2>1. JobsOK'
    BY <1>6, AnswerOK DEF publish_hold_ttl
  <2>2. /\ job[c].seat \in Seats /\ job[c].user \in Users /\ job[c].token \in Tokens
        /\ [seat |-> job[c].seat, user |-> job[c].user, token |-> job[c].token] \in Hold
    BY <1>6 DEF publish_hold_ttl, JobsOK, Hold
  <2>3. QED
    BY <1>6, <2>1, <2>2 DEF publish_hold_ttl, LedgerOK, ServicesOK, HistoryOK
<1>7. ASSUME NEW c \in Calls, CheckHold(c) PROVE TypeOK'
  <2>1. JobsOK' /\ job[c].seat \in Seats
    BY <1>7, AnswerOK, GotoOK DEF CheckHold, JobsOK, Pc
  <2>2. LedgerOK'
    BY <1>7, <2>1, BareRow DEF CheckHold, Clear, LedgerOK, Status
  <2>3. QED
    BY <1>7, <2>1, <2>2 DEF CheckHold, ServicesOK, HistoryOK
<1>8. ASSUME NEW c \in Calls, CheckBalance(c) PROVE TypeOK'
  <2>1. /\ job[c].user \in Users /\ job[c].seat \in Seats /\ job[c].token \in Tokens \cup {Null}
        /\ credits[job[c].user] \in Nat
    BY <1>8, JobFields DEF CheckBalance, JobsOK, ServicesOK
  <2>2. CASE Answer(c) /\ UNCHANGED raced
    BY <1>8, <2>2, AnswerOK DEF CheckBalance, LedgerOK, ServicesOK, HistoryOK
  <2>3. CASE ~(Answer(c) /\ UNCHANGED raced)
    <3> DEFINE j == Work(job[c].seat, job[c].user, job[c].token, credits[job[c].user], Null)
    <3>1. j \in Job /\ j.user \in Users /\ j.seat \in Seats /\ j.balance = credits[job[c].user]
      BY <2>1 DEF Work, Job
    <3>2. /\ pc' = [pc EXCEPT ![c] = "sell"] /\ job' = [job EXCEPT ![c] = j]
          /\ credits[job[c].user] >= Price
      BY <1>8, <2>3 DEF CheckBalance
    <3> HIDE DEF j
    <3>3. JobsOK'
      BY <3>1, <3>2, WorkOK DEF Pc
    <3>4. QED
      BY <1>8, <2>1, <2>3, <3>3 DEF CheckBalance, LedgerOK, ServicesOK, HistoryOK
  <2>4. QED
    BY <2>2, <2>3
<1>9. ASSUME NEW c \in Calls, SellSeat(c) PROVE TypeOK'
  <2>1. JobsOK' /\ job[c].seat \in Seats
    BY <1>9, AnswerOK, GotoOK DEF SellSeat, JobsOK, Pc
  <2>2. LedgerOK'
    BY <1>9, <2>1, BareRow DEF SellSeat, Sell, LedgerOK, Status
  <2>3. QED
    BY <1>9, <2>1, <2>2 DEF SellSeat, ServicesOK, HistoryOK
<1>10. ASSUME NEW c \in Calls, PostTicket(c) PROVE TypeOK'
  <2>1. /\ pc[c] = "ticket" /\ job[c].user \in Users /\ job[c].seat \in Seats
        /\ job[c].token \in Tokens \cup {Null}
        /\ job[c].balance \in Nat /\ job[c].balance >= Price
    BY <1>10, JobFields DEF PostTicket, JobsOK
  <2>2. \A k \in TicketIds :
          [id |-> k, seat |-> job[c].seat, owner |-> job[c].user, status |-> "active"] \in Ticket
    BY <2>1 DEF Ticket, ALLOWED_STATUS_VALUES
  <2>3. ServicesOK'
    BY <1>10, <2>2 DEF PostTicket, create_ticket, ServicesOK
  <2>4. CASE Goto(c, "undo_ticket")
    BY <1>10, <2>1, <2>3, <2>4, GotoOK DEF PostTicket, LedgerOK, HistoryOK, Pc
  <2>5. CASE ~Goto(c, "undo_ticket")
    <3>1. PICK k \in TicketIds :
            /\ pc' = [pc EXCEPT ![c] = "pay"]
            /\ job' = [job EXCEPT ![c] =
                 Work(job[c].seat, job[c].user, job[c].token, job[c].balance, k)]
      BY <1>10, <2>5 DEF PostTicket
    <3> DEFINE j == Work(job[c].seat, job[c].user, job[c].token, job[c].balance, k)
    <3>2. /\ j \in Job /\ j.user \in Users /\ j.seat \in Seats /\ j.ticket \in TicketIds
          /\ j.balance >= Price
      BY <2>1 DEF Work, Job
    <3>3. pc' = [pc EXCEPT ![c] = "pay"] /\ job' = [job EXCEPT ![c] = j]
      BY <3>1
    <3> HIDE DEF j
    <3>4. JobsOK'
      BY <3>2, <3>3, WorkOK DEF Pc
    <3>5. QED
      BY <1>10, <2>3, <3>4 DEF PostTicket, LedgerOK, HistoryOK
  <2>6. QED
    BY <2>4, <2>5
<1>11. ASSUME NEW c \in Calls, UndoTicket(c) PROVE TypeOK'
  <2>1. JobsOK' /\ job[c].seat \in Seats
    BY <1>11, AnswerOK DEF UndoTicket, JobsOK
  <2>2. LedgerOK'
    BY <1>11, <2>1, ReleaseOK DEF UndoTicket
  <2>3. QED
    BY <1>11, <2>1, <2>2 DEF UndoTicket, ServicesOK, HistoryOK
<1>12. ASSUME NEW c \in Calls, PatchCredits(c) PROVE TypeOK'
  <2>1. /\ pc[c] = "pay" /\ job[c].user \in Users /\ job[c].ticket \in TicketIds
        /\ job[c].balance - Price \in Nat
    BY <1>12, PriceAssumption, JobFields DEF PatchCredits, JobsOK
  <2>2. JobsOK'
    BY <1>12, <2>1, GotoOK DEF PatchCredits, Pc
  <2>3. [user |-> job[c].user, balance |-> job[c].balance - Price, ticket |-> job[c].ticket] \in CreditWrite
    BY <2>1 DEF CreditWrite
  <2>4. QED
    BY <1>12, <2>1, <2>2, <2>3 DEF PatchCredits, LedgerOK, ServicesOK, HistoryOK
<1>13. ASSUME NEW c \in Calls, UndoPay(c) PROVE TypeOK'
  <2>1. JobsOK' /\ job[c].seat \in Seats
    BY <1>13, AnswerOK DEF UndoPay, JobsOK
  <2>2. LedgerOK'
    BY <1>13, <2>1, ReleaseOK DEF UndoPay
  <2>3. tickets' = tickets
    BY <1>13 DEF UndoPay, update_ticket, ALLOWED_STATUS_VALUES
  <2>4. QED
    BY <1>13, <2>1, <2>2, <2>3 DEF UndoPay, ServicesOK, HistoryOK
<1>14. ASSUME NEW c \in Calls, LogPurchase(c) PROVE TypeOK'
  <2>1. JobsOK' /\ job[c].ticket \in TicketIds
    BY <1>14, AnswerOK DEF LogPurchase, JobsOK
  <2>2. QED
    BY <1>14, <2>1 DEF LogPurchase, LedgerOK, ServicesOK, HistoryOK
<1>15. ASSUME NEW m \in ttl, on_expired(m) PROVE TypeOK'
  <2>1. m \in Hold
    BY DEF ServicesOK
  <2>2. LedgerOK'
    BY <1>15, <2>1, HoldFields, ReleaseOK DEF on_expired, LedgerOK
  <2>3. QED
    BY <1>15, <2>1, <2>2, HoldFields DEF on_expired, ServicesOK, JobsOK, HistoryOK
<1>16. ASSUME NEW e \in late, LateCredit(e) PROVE TypeOK'
  <2>1. e.user \in Users /\ e.balance \in Nat /\ e.ticket \in TicketIds
    BY DEF ServicesOK, CreditWrite
  <2>2. QED
    BY <1>16, <2>1 DEF LateCredit, LedgerOK, ServicesOK, JobsOK, HistoryOK
<1>17. QED
  BY <1>1, <1>2, <1>3, <1>4, <1>5, <1>6, <1>7, <1>8,
     <1>9, <1>10, <1>11, <1>12, <1>13, <1>14, <1>15, <1>16 DEF Next, Step

\* The saga keeps the tables it writes to well formed; in particular no balance
\* becomes negative, however calls fail or overlap.
THEOREM SagaTypeCorrect == Spec => []TypeOK
<1>1. Init => TypeOK
  BY BareRow, WorkType, PriceAssumption DEF Init, LedgerInit, TypeOK, LedgerOK, ServicesOK, JobsOK,
     HistoryOK, Status, Pc
<1>2. TypeOK /\ [Next]_vars => TypeOK'
  <2>1. CASE Next
    BY <2>1, TypeStep
  <2>2. CASE UNCHANGED vars
    BY <2>2 DEF vars, TypeOK, LedgerOK, ServicesOK, JobsOK, HistoryOK
  <2>3. QED
    BY <2>1, <2>2
<1>3. QED
  BY <1>1, <1>2, PTL DEF Spec

-------------------------------------------------------------------------------
(* The ledger, its tokens, and the requests that use them. *)

\* Only a held row has a token in it.
LEMMA RowToken ==
  ASSUME RowInv, NEW s \in Seats, ledger[s].holdToken \in Tokens
  PROVE  ledger[s].status = "held"
<1>1. SUFFICES ASSUME ledger[s].status # "held" PROVE FALSE
  OBVIOUS
<1>2. ledger[s] = Bare(ledger[s].status)
  BY <1>1 DEF RowInv
<1>3. Bare(ledger[s].status).holdToken = Null
  BY DEF Bare
<1>4. QED
  BY <1>2, <1>3, LedgerNull

\* Only HoldSeat makes a held row, and records the hold.
LEMMA RowStep ==
  ASSUME TypeOK, RowInv, Next
  PROVE  RowInv'
<1> USE BareRow DEF TypeOK, LedgerOK, JobsOK, RowInv, services, history, seatService, ledgerVars
<1>1. ASSUME NEW S \in SUBSET Seats, OpenSeats(S) PROVE RowInv'
  BY <1>1 DEF OpenSeats, AddSeats
<1>2. ASSUME NEW T \in SUBSET Tokens, TimePasses(T) PROVE RowInv'
  BY <1>2 DEF TimePasses, Lapse
<1>3. ASSUME NEW s \in Seats, NEW u \in Users, NEW t \in Tokens, release_hold(s, u, t)
        PROVE RowInv'
  BY <1>3 DEF release_hold, ReleaseSeat, HeldBy
<1>4. ASSUME NEW c \in Calls, NEW s \in Seats, NEW u \in Users, NEW t \in Tokens, hold_seat(c, s, u, t)
        PROVE RowInv'
  <2> DEFINE r == [status |-> "held", heldByUserId |-> u, holdToken |-> t]
  <2>1. ledger' = [ledger EXCEPT ![s] = r] /\ r.heldByUserId = u /\ r.holdToken = t
    BY <1>4 DEF hold_seat, Grant
  <2>2. [seat |-> s, user |-> u, token |-> t] \in granted' /\ granted \subseteq granted'
    BY <1>4 DEF hold_seat, Grant
  <2>3. r.status = "held"
    OBVIOUS
  <2> HIDE DEF r
  <2>4. QED
    BY <2>1, <2>2, <2>3
<1>5. ASSUME NEW c \in Calls, NEW s \in Seats, NEW u \in Users, NEW t \in Tokens \cup {Null}, confirm_purchase(c, s, u, t)
        PROVE RowInv'
  BY <1>5 DEF confirm_purchase, Accept
<1>6. ASSUME NEW c \in Calls, publish_hold_ttl(c) PROVE RowInv'
  BY <1>6 DEF publish_hold_ttl, Answer
<1>7. ASSUME NEW c \in Calls, CheckHold(c) PROVE RowInv'
  BY <1>7 DEF CheckHold, Clear, Goto, Answer
<1>8. ASSUME NEW c \in Calls, CheckBalance(c) PROVE RowInv'
  BY <1>8 DEF CheckBalance, Answer
<1>9. ASSUME NEW c \in Calls, SellSeat(c) PROVE RowInv'
  BY <1>9 DEF SellSeat, Sell, HeldBy, Goto, Answer
<1>10. ASSUME NEW c \in Calls, PostTicket(c) PROVE RowInv'
  BY <1>10 DEF PostTicket, create_ticket, Goto
<1>11. ASSUME NEW c \in Calls, UndoTicket(c) PROVE RowInv'
  BY <1>11 DEF UndoTicket, ReleaseSeat, HeldBy, Answer
<1>12. ASSUME NEW c \in Calls, PatchCredits(c) PROVE RowInv'
  BY <1>12 DEF PatchCredits, Goto
<1>13. ASSUME NEW c \in Calls, UndoPay(c) PROVE RowInv'
  BY <1>13 DEF UndoPay, ReleaseSeat, HeldBy
<1>14. ASSUME NEW c \in Calls, LogPurchase(c) PROVE RowInv'
  BY <1>14 DEF LogPurchase, Answer
<1>15. ASSUME NEW m \in ttl, on_expired(m) PROVE RowInv'
  <2>1. m.seat \in Seats
    BY HoldFields DEF ServicesOK
  <2>2. QED
    BY <1>15, <2>1 DEF on_expired, ReleaseSeat, HeldBy
<1>16. ASSUME NEW e \in late, LateCredit(e) PROVE RowInv'
  BY <1>16 DEF LateCredit
<1>17. QED
  BY <1>1, <1>2, <1>3, <1>4, <1>5, <1>6, <1>7, <1>8,
     <1>9, <1>10, <1>11, <1>12, <1>13, <1>14, <1>15, <1>16 DEF Next, Step

\* HoldSeat grants only tokens that no hold has.
LEMMA TokenStep ==
  ASSUME TypeOK, TokenInv, Next
  PROVE  TokenInv'
<1> USE DEF TypeOK, LedgerOK, TokenInv, services, history, seatService, ledgerVars
<1>1. ASSUME NEW S \in SUBSET Seats, OpenSeats(S) PROVE TokenInv'
  BY <1>1 DEF OpenSeats, AddSeats
<1>2. ASSUME NEW T \in SUBSET Tokens, TimePasses(T) PROVE TokenInv'
  BY <1>2 DEF TimePasses, Lapse
<1>3. ASSUME NEW s \in Seats, NEW u \in Users, NEW t \in Tokens, release_hold(s, u, t)
        PROVE TokenInv'
  BY <1>3 DEF release_hold, ReleaseSeat, HeldBy
<1>4. ASSUME NEW c \in Calls, NEW s \in Seats, NEW u \in Users, NEW t \in Tokens, hold_seat(c, s, u, t)
        PROVE TokenInv'
  <2> DEFINE n == [seat |-> s, user |-> u, token |-> t]
  <2>1. granted' = granted \cup {n} /\ \A h \in granted : h.token # t
    BY <1>4 DEF hold_seat, Grant, Unissued
  <2>2. n.token = t
    OBVIOUS
  <2> HIDE DEF n
  <2>3. QED
    BY <2>1, <2>2
<1>5. ASSUME NEW c \in Calls, NEW s \in Seats, NEW u \in Users, NEW t \in Tokens \cup {Null}, confirm_purchase(c, s, u, t)
        PROVE TokenInv'
  BY <1>5 DEF confirm_purchase, Accept
<1>6. ASSUME NEW c \in Calls, publish_hold_ttl(c) PROVE TokenInv'
  BY <1>6 DEF publish_hold_ttl, Answer
<1>7. ASSUME NEW c \in Calls, CheckHold(c) PROVE TokenInv'
  BY <1>7 DEF CheckHold, Clear, Goto, Answer
<1>8. ASSUME NEW c \in Calls, CheckBalance(c) PROVE TokenInv'
  BY <1>8 DEF CheckBalance, Answer
<1>9. ASSUME NEW c \in Calls, SellSeat(c) PROVE TokenInv'
  BY <1>9 DEF SellSeat, Sell, HeldBy, Goto, Answer
<1>10. ASSUME NEW c \in Calls, PostTicket(c) PROVE TokenInv'
  BY <1>10 DEF PostTicket, create_ticket, Goto
<1>11. ASSUME NEW c \in Calls, UndoTicket(c) PROVE TokenInv'
  BY <1>11 DEF UndoTicket, ReleaseSeat, HeldBy, Answer
<1>12. ASSUME NEW c \in Calls, PatchCredits(c) PROVE TokenInv'
  BY <1>12 DEF PatchCredits, Goto
<1>13. ASSUME NEW c \in Calls, UndoPay(c) PROVE TokenInv'
  BY <1>13 DEF UndoPay, ReleaseSeat, HeldBy, update_ticket, Answer
<1>14. ASSUME NEW c \in Calls, LogPurchase(c) PROVE TokenInv'
  BY <1>14 DEF LogPurchase, Answer
<1>15. ASSUME NEW m \in ttl, on_expired(m) PROVE TokenInv'
  BY <1>15 DEF on_expired, ReleaseSeat, HeldBy
<1>16. ASSUME NEW e \in late, LateCredit(e) PROVE TokenInv'
  BY <1>16 DEF LateCredit
<1>17. QED
  BY <1>1, <1>2, <1>3, <1>4, <1>5, <1>6, <1>7, <1>8,
     <1>9, <1>10, <1>11, <1>12, <1>13, <1>14, <1>15, <1>16 DEF Next, Step

\* A request carries a token somebody was granted, or none.
LEMMA JobStep ==
  ASSUME TypeOK, JobInv, Next
  PROVE  JobInv'
<1> USE WorkFields DEF TypeOK, LedgerOK, JobsOK, JobInv, services, history, seatService, ledgerVars
<1>1. ASSUME NEW S \in SUBSET Seats, OpenSeats(S) PROVE JobInv'
  BY <1>1 DEF OpenSeats, AddSeats
<1>2. ASSUME NEW T \in SUBSET Tokens, TimePasses(T) PROVE JobInv'
  BY <1>2 DEF TimePasses, Lapse
<1>3. ASSUME NEW s \in Seats, NEW u \in Users, NEW t \in Tokens, release_hold(s, u, t)
        PROVE JobInv'
  BY <1>3 DEF release_hold, ReleaseSeat, HeldBy
<1>4. ASSUME NEW c \in Calls, NEW s \in Seats, NEW u \in Users, NEW t \in Tokens, hold_seat(c, s, u, t)
        PROVE JobInv'
  <2> DEFINE n == [seat |-> s, user |-> u, token |-> t]
  <2>1. n \in granted' /\ granted \subseteq granted'
    BY <1>4 DEF hold_seat, Grant
  <2>2. n.token = t
    OBVIOUS
  <2> HIDE DEF n
  <2>3. QED
    BY <1>4, <2>1, <2>2 DEF hold_seat, Accept
<1>5. ASSUME NEW c \in Calls, NEW s \in Seats, NEW u \in Users, NEW t \in Tokens \cup {Null}, confirm_purchase(c, s, u, t)
        PROVE JobInv'
  <2>1. t # Null => \E h \in granted : h.token = t
    BY <1>5 DEF confirm_purchase, KnownTokens
  <2>2. QED
    BY <1>5, <2>1 DEF confirm_purchase, Accept
<1>6. ASSUME NEW c \in Calls, publish_hold_ttl(c) PROVE JobInv'
  BY <1>6 DEF publish_hold_ttl, Answer
<1>7. ASSUME NEW c \in Calls, CheckHold(c) PROVE JobInv'
  <2>1. granted' = granted
    BY <1>7 DEF CheckHold, Clear
  <2>2. CASE Answer(c)
    BY <2>1, <2>2 DEF Answer
  <2>3. CASE Goto(c, "balance")
    BY <1>7, <2>1, <2>3 DEF CheckHold, Goto
  <2>4. QED
    BY <1>7, <2>2, <2>3 DEF CheckHold
<1>8. ASSUME NEW c \in Calls, CheckBalance(c) PROVE JobInv'
  BY <1>8 DEF CheckBalance, Answer
<1>9. ASSUME NEW c \in Calls, SellSeat(c) PROVE JobInv'
  BY <1>9 DEF SellSeat, Sell, HeldBy, Goto, Answer
<1>10. ASSUME NEW c \in Calls, PostTicket(c) PROVE JobInv'
  BY <1>10 DEF PostTicket, create_ticket, Goto
<1>11. ASSUME NEW c \in Calls, UndoTicket(c) PROVE JobInv'
  BY <1>11 DEF UndoTicket, ReleaseSeat, HeldBy, Answer
<1>12. ASSUME NEW c \in Calls, PatchCredits(c) PROVE JobInv'
  BY <1>12 DEF PatchCredits, Goto
<1>13. ASSUME NEW c \in Calls, UndoPay(c) PROVE JobInv'
  BY <1>13 DEF UndoPay, ReleaseSeat, HeldBy, update_ticket, Answer
<1>14. ASSUME NEW c \in Calls, LogPurchase(c) PROVE JobInv'
  BY <1>14 DEF LogPurchase, Answer
<1>15. ASSUME NEW m \in ttl, on_expired(m) PROVE JobInv'
  BY <1>15 DEF on_expired, ReleaseSeat, HeldBy
<1>16. ASSUME NEW e \in late, LateCredit(e) PROVE JobInv'
  BY <1>16 DEF LateCredit
<1>17. QED
  BY <1>1, <1>2, <1>3, <1>4, <1>5, <1>6, <1>7, <1>8,
     <1>9, <1>10, <1>11, <1>12, <1>13, <1>14, <1>15, <1>16 DEF Next, Step

\* Once a request has sold the seat, its token never comes back into a row: a grant
\* needs a token nobody was ever given.
LEMMA SpentStep ==
  ASSUME TypeOK, RowInv, TokenInv, JobInv, SpentInv, Next
  PROVE  SpentInv'
<1> USE LedgerNull, WorkFields, BareRow DEF TypeOK, LedgerOK, JobsOK, SpentInv, services, history, seatService, ledgerVars
<1>1. ASSUME NEW S \in SUBSET Seats, OpenSeats(S) PROVE SpentInv'
  BY <1>1 DEF OpenSeats, AddSeats
<1>2. ASSUME NEW T \in SUBSET Tokens, TimePasses(T) PROVE SpentInv'
  BY <1>2 DEF TimePasses, Lapse
<1>3. ASSUME NEW s \in Seats, NEW u \in Users, NEW t \in Tokens, release_hold(s, u, t)
        PROVE SpentInv'
  BY <1>3 DEF release_hold, ReleaseSeat, HeldBy
<1>4. ASSUME NEW c \in Calls, NEW s \in Seats, NEW u \in Users, NEW t \in Tokens, hold_seat(c, s, u, t)
        PROVE SpentInv'
  <2> DEFINE r == [status |-> "held", heldByUserId |-> u, holdToken |-> t]
  <2>1. /\ ledger' = [ledger EXCEPT ![s] = r] /\ r.holdToken = t
        /\ \A h \in granted : h.token # t
    BY <1>4 DEF hold_seat, Grant, Unissued
  <2> HIDE DEF r
  <2>2. \A d \in Calls : pc[d] # "idle" => job[d].token # t
    BY <2>1 DEF JobInv
  <2>3. QED
    BY <1>4, <2>1, <2>2 DEF hold_seat, Accept
<1>5. ASSUME NEW c \in Calls, NEW s \in Seats, NEW u \in Users, NEW t \in Tokens \cup {Null}, confirm_purchase(c, s, u, t)
        PROVE SpentInv'
  BY <1>5 DEF confirm_purchase, Accept
<1>6. ASSUME NEW c \in Calls, publish_hold_ttl(c) PROVE SpentInv'
  BY <1>6 DEF publish_hold_ttl, Answer
<1>7. ASSUME NEW c \in Calls, CheckHold(c) PROVE SpentInv'
  BY <1>7 DEF CheckHold, Clear, Goto, Answer
<1>8. ASSUME NEW c \in Calls, CheckBalance(c) PROVE SpentInv'
  BY <1>8 DEF CheckBalance, Answer
<1>9. ASSUME NEW c \in Calls, SellSeat(c) PROVE SpentInv'
  <2>1. CASE Answer(c) /\ UNCHANGED ledgerVars
    BY <1>9, <2>1 DEF Answer, SellSeat
  <2>2. CASE Sell(job[c].seat, job[c].user, job[c].token)
    <3> DEFINE t == job[c].token
    <3>1. /\ pc[c] = "sell" /\ job[c].seat \in Seats
          /\ ledger[job[c].seat] = [status |-> "held", heldByUserId |-> job[c].user, holdToken |-> t]
          /\ ledger' = [ledger EXCEPT ![job[c].seat] = Bare("sold")]
      BY <1>9, <2>2 DEF SellSeat, Sell, HeldBy
    <3>2. [seat |-> job[c].seat, user |-> job[c].user, token |-> t] \in granted
      BY <3>1 DEF RowInv
    <3>3. t \in Tokens
      BY <3>2 DEF Hold
    <3>4. ASSUME NEW s \in Seats PROVE ledger'[s].holdToken # t
      <4>1. CASE s = job[c].seat
        BY <3>1, <3>3, <4>1
      <4>2. CASE s # job[c].seat
        <5>1. SUFFICES ASSUME ledger[s].holdToken = t PROVE FALSE
          BY <3>1, <4>2
        <5>2. ledger[s].status = "held"
          BY <5>1, <3>3, RowToken
        <5>3. [seat |-> s, user |-> ledger[s].heldByUserId, token |-> t] \in granted
          BY <5>1, <5>2 DEF RowInv
        <5>4. QED
          BY <3>2, <5>3, <4>2 DEF TokenInv
      <4>3. QED
        BY <4>1, <4>2
    <3>5. \A d \in Calls, s \in Seats : ledger[s].holdToken # job[d].token /\ job[d].token \in Tokens
             => ledger'[s].holdToken # job[d].token
      BY <3>1
    <3>6. QED
      BY <1>9, <2>2, <3>3, <3>4, <3>5 DEF SellSeat, Goto, Answer
  <2>3. QED
    BY <1>9, <2>1, <2>2 DEF SellSeat
<1>10. ASSUME NEW c \in Calls, PostTicket(c) PROVE SpentInv'
  BY <1>10 DEF PostTicket, create_ticket, Goto
<1>11. ASSUME NEW c \in Calls, UndoTicket(c) PROVE SpentInv'
  BY <1>11 DEF UndoTicket, ReleaseSeat, HeldBy, Answer
<1>12. ASSUME NEW c \in Calls, PatchCredits(c) PROVE SpentInv'
  BY <1>12 DEF PatchCredits, Goto
<1>13. ASSUME NEW c \in Calls, UndoPay(c) PROVE SpentInv'
  BY <1>13 DEF UndoPay, ReleaseSeat, HeldBy, update_ticket, Answer
<1>14. ASSUME NEW c \in Calls, LogPurchase(c) PROVE SpentInv'
  BY <1>14 DEF LogPurchase, Answer
<1>15. ASSUME NEW m \in ttl, on_expired(m) PROVE SpentInv'
  <2>1. m.seat \in Seats
    BY HoldFields DEF ServicesOK
  <2>2. QED
    BY <1>15, <2>1 DEF on_expired, ReleaseSeat, HeldBy
<1>16. ASSUME NEW e \in late, LateCredit(e) PROVE SpentInv'
  BY <1>16 DEF LateCredit
<1>17. QED
  BY <1>1, <1>2, <1>3, <1>4, <1>5, <1>6, <1>7, <1>8,
     <1>9, <1>10, <1>11, <1>12, <1>13, <1>14, <1>15, <1>16 DEF Next, Step

-------------------------------------------------------------------------------
(* One ticket per seat. *)

\* Whatever becomes of the ledger, a step that makes no ticket and starts no sale
\* keeps SaleInv and OneTicketPerSeat, if sold seats stay sold or are overwritten.
LEMMA SaleFrame ==
  ASSUME TypeOK, SaleInv, OneTicketPerSeat, tickets' = tickets,
         \A c \in Calls : pc'[c] = "ticket" => pc[c] = "ticket" /\ job'[c] = job[c],
         granted \subseteq granted', overwritten \subseteq overwritten',
         \A s \in Seats : ledger[s].status = "sold" => ledger'[s].status = "sold" \/ s \in overwritten'
  PROVE  SaleInv' /\ OneTicketPerSeat'
<1> USE DEF TypeOK, ServicesOK, JobsOK
<1>1. SaleInv'
  BY DEF SaleInv
<1>2. \A x \in tickets : x.seat \in Seats
  BY DEF Ticket
<1>3. OneTicketPerSeat'
  BY <1>2 DEF OneTicketPerSeat
<1>4. QED
  BY <1>1, <1>3

\* A ticket is made only by the one request that sold the seat, and sold seats leave
\* that state only by being overwritten.
LEMMA SaleStep ==
  ASSUME TypeOK, RowInv, SaleInv, OneTicketPerSeat, Next
  PROVE  SaleInv' /\ OneTicketPerSeat'
<1> USE BareRow DEF TypeOK, LedgerOK, JobsOK, services, history, seatService, ledgerVars
<1>1. ASSUME NEW S \in SUBSET Seats, OpenSeats(S) PROVE SaleInv' /\ OneTicketPerSeat'
  <2>1. /\ tickets' = tickets /\ granted \subseteq granted' /\ overwritten \subseteq overwritten'
        /\ \A d \in Calls : pc'[d] = "ticket" => pc[d] = "ticket" /\ job'[d] = job[d]
    BY <1>1 DEF OpenSeats, AddSeats
  <2>2. \A s1 \in Seats : ledger[s1].status = "sold" => ledger'[s1].status = "sold" \/ s1 \in overwritten'
    BY <1>1 DEF OpenSeats, AddSeats
  <2>3. QED
    BY <2>1, <2>2, SaleFrame
<1>2. ASSUME NEW T \in SUBSET Tokens, TimePasses(T) PROVE SaleInv' /\ OneTicketPerSeat'
  <2>1. /\ tickets' = tickets /\ granted \subseteq granted' /\ overwritten \subseteq overwritten'
        /\ \A d \in Calls : pc'[d] = "ticket" => pc[d] = "ticket" /\ job'[d] = job[d]
    BY <1>2 DEF TimePasses, Lapse
  <2>2. \A s1 \in Seats : ledger[s1].status = "sold" => ledger'[s1].status = "sold" \/ s1 \in overwritten'
    BY <1>2 DEF TimePasses, Lapse
  <2>3. QED
    BY <2>1, <2>2, SaleFrame
<1>3. ASSUME NEW s \in Seats, NEW u \in Users, NEW t \in Tokens, release_hold(s, u, t)
        PROVE SaleInv' /\ OneTicketPerSeat'
  <2>1. /\ tickets' = tickets /\ granted \subseteq granted' /\ overwritten \subseteq overwritten'
        /\ \A d \in Calls : pc'[d] = "ticket" => pc[d] = "ticket" /\ job'[d] = job[d]
    BY <1>3 DEF release_hold, ReleaseSeat, HeldBy
  <2>2. \A s1 \in Seats : ledger[s1].status = "sold" => ledger'[s1].status = "sold" \/ s1 \in overwritten'
    BY <1>3 DEF release_hold, ReleaseSeat, HeldBy
  <2>3. QED
    BY <2>1, <2>2, SaleFrame
<1>4. ASSUME NEW c \in Calls, NEW s \in Seats, NEW u \in Users, NEW t \in Tokens, hold_seat(c, s, u, t)
        PROVE SaleInv' /\ OneTicketPerSeat'
  <2>1. /\ tickets' = tickets /\ granted \subseteq granted' /\ overwritten \subseteq overwritten'
        /\ \A d \in Calls : pc'[d] = "ticket" => pc[d] = "ticket" /\ job'[d] = job[d]
    BY <1>4 DEF hold_seat, Grant, Accept
  <2>2. \A s1 \in Seats : ledger[s1].status = "sold" => ledger'[s1].status = "sold" \/ s1 \in overwritten'
    BY <1>4 DEF hold_seat, Grant, Accept
  <2>3. QED
    BY <2>1, <2>2, SaleFrame
<1>5. ASSUME NEW c \in Calls, NEW s \in Seats, NEW u \in Users, NEW t \in Tokens \cup {Null}, confirm_purchase(c, s, u, t)
        PROVE SaleInv' /\ OneTicketPerSeat'
  <2>1. /\ tickets' = tickets /\ granted \subseteq granted' /\ overwritten \subseteq overwritten'
        /\ \A d \in Calls : pc'[d] = "ticket" => pc[d] = "ticket" /\ job'[d] = job[d]
    BY <1>5 DEF confirm_purchase, Accept
  <2>2. \A s1 \in Seats : ledger[s1].status = "sold" => ledger'[s1].status = "sold" \/ s1 \in overwritten'
    BY <1>5 DEF confirm_purchase, Accept
  <2>3. QED
    BY <2>1, <2>2, SaleFrame
<1>6. ASSUME NEW c \in Calls, publish_hold_ttl(c) PROVE SaleInv' /\ OneTicketPerSeat'
  <2>1. /\ tickets' = tickets /\ granted \subseteq granted' /\ overwritten \subseteq overwritten'
        /\ \A d \in Calls : pc'[d] = "ticket" => pc[d] = "ticket" /\ job'[d] = job[d]
    BY <1>6 DEF publish_hold_ttl, Answer
  <2>2. \A s1 \in Seats : ledger[s1].status = "sold" => ledger'[s1].status = "sold" \/ s1 \in overwritten'
    BY <1>6 DEF publish_hold_ttl, Answer
  <2>3. QED
    BY <2>1, <2>2, SaleFrame
<1>7. ASSUME NEW c \in Calls, CheckHold(c) PROVE SaleInv' /\ OneTicketPerSeat'
  <2>1. /\ tickets' = tickets /\ granted \subseteq granted' /\ overwritten \subseteq overwritten'
        /\ \A d \in Calls : pc'[d] = "ticket" => pc[d] = "ticket" /\ job'[d] = job[d]
    BY <1>7 DEF CheckHold, Clear, Goto, Answer
  <2>2. ASSUME NEW s \in Seats, ledger[s].status = "sold"
        PROVE ledger'[s].status = "sold" \/ s \in overwritten'
    <3>1. ledger[s].holdToken \notin lapsed
      BY <2>2, LedgerNull DEF RowInv, LedgerOK, Bare
    <3>2. QED
      BY <1>7, <2>2, <3>1 DEF CheckHold, Clear, LedgerOK
  <2>3. QED
    BY <2>1, <2>2, SaleFrame
<1>8. ASSUME NEW c \in Calls, CheckBalance(c) PROVE SaleInv' /\ OneTicketPerSeat'
  <2>1. /\ tickets' = tickets /\ granted \subseteq granted' /\ overwritten \subseteq overwritten'
        /\ \A d \in Calls : pc'[d] = "ticket" => pc[d] = "ticket" /\ job'[d] = job[d]
    BY <1>8 DEF CheckBalance, Answer
  <2>2. \A s1 \in Seats : ledger[s1].status = "sold" => ledger'[s1].status = "sold" \/ s1 \in overwritten'
    BY <1>8 DEF CheckBalance, Answer
  <2>3. QED
    BY <2>1, <2>2, SaleFrame
<1>9. ASSUME NEW c \in Calls, SellSeat(c) PROVE SaleInv' /\ OneTicketPerSeat'
  <2>1. CASE Answer(c)
    <3>1. /\ tickets' = tickets /\ granted \subseteq granted' /\ overwritten \subseteq overwritten'
          /\ \A d \in Calls : pc'[d] = "ticket" => pc[d] = "ticket" /\ job'[d] = job[d]
      BY <1>9, <2>1 DEF SellSeat, Sell, Answer
    <3>2. \A s \in Seats : ledger[s].status = "sold" => ledger'[s].status = "sold"
      BY <1>9, BareRow DEF SellSeat, Sell
    <3>3. QED
      BY <3>1, <3>2, SaleFrame
  <2>2. CASE Sell(job[c].seat, job[c].user, job[c].token) /\ Goto(c, "ticket")
    <3> DEFINE s == job[c].seat
    <3>1. /\ s \in Seats /\ ledger[s].status = "held" /\ ledger[s].heldByUserId = job[c].user
          /\ ledger[s].holdToken = job[c].token
          /\ ledger' = [ledger EXCEPT ![s] = Bare("sold")]
          /\ pc' = [pc EXCEPT ![c] = "ticket"] /\ job' = job
          /\ UNCHANGED <<granted, tickets, overwritten>>
      BY <1>9, <2>2 DEF SellSeat, Sell, HeldBy, Goto
    <3>2. \E h \in granted : h.seat = s /\ h.user = job[c].user
      BY <3>1 DEF RowInv
    <3>3. s \notin overwritten => /\ \A x \in tickets : x.seat # s
                                  /\ \A d \in Calls : pc[d] = "ticket" => job[d].seat # s
      BY <3>1 DEF SaleInv, OneTicketPerSeat
    <3>4. \A s2 \in Seats : ledger'[s2].status = "sold" \/ ledger'[s2] = ledger[s2]
      BY <3>1, BareRow
    <3>5. ledger'[s].status = "sold"
      BY <3>1, BareRow
    <3> HIDE DEF s
    <3>6. SaleInv'
      BY <3>1, <3>2, <3>3, <3>4, <3>5 DEF SaleInv, s
    <3>7. \A x \in tickets : x.seat \in Seats
      BY DEF ServicesOK, Ticket
    <3>8. OneTicketPerSeat'
      BY <3>1, <3>4, <3>7 DEF OneTicketPerSeat
    <3>9. QED
      BY <3>6, <3>8
  <2>3. QED
    BY <1>9, <2>1, <2>2 DEF SellSeat
<1>10. ASSUME NEW c \in Calls, PostTicket(c) PROVE SaleInv' /\ OneTicketPerSeat'
  <2>1. CASE tickets' = tickets
    <3>1. QED
      BY <1>10, <2>1, SaleFrame DEF PostTicket, Goto
  <2>2. CASE tickets' # tickets
    <3> DEFINE s == job[c].seat
    <3>1. PICK k \in TicketIds : create_ticket(k, s, job[c].user)
      BY <1>10, <2>2 DEF PostTicket
    <3> DEFINE n == [id |-> k, seat |-> s, owner |-> job[c].user, status |-> "active"]
    <3>2. /\ tickets' = tickets \cup {n} /\ n.seat = s /\ n.owner = job[c].user
          /\ pc[c] = "ticket" /\ s \in Seats
          /\ UNCHANGED <<ledger, granted, overwritten>>
      BY <1>10, <3>1 DEF PostTicket, create_ticket
    <3> HIDE DEF n
    <3>3. \A d \in Calls : pc'[d] = "ticket" => d # c /\ pc[d] = "ticket" /\ job'[d] = job[d]
      BY <1>10, <2>2 DEF PostTicket, Goto
    <3>4. s \notin overwritten =>
            /\ ledger[s].status = "sold" /\ \A x \in tickets : x.seat # s
            /\ \A d \in Calls : pc[d] = "ticket" /\ job[d].seat = s => d = c
            /\ \E h \in granted : h.seat = s /\ h.user = job[c].user
      BY <3>2 DEF SaleInv
    <3> HIDE DEF s
    <3>5. SaleInv'
      BY <3>2, <3>3, <3>4 DEF SaleInv
    <3>6. OneTicketPerSeat'
      BY <3>2, <3>4 DEF OneTicketPerSeat
    <3>7. QED
      BY <3>5, <3>6
  <2>3. QED
    BY <2>1, <2>2
<1>11. ASSUME NEW c \in Calls, UndoTicket(c) PROVE SaleInv' /\ OneTicketPerSeat'
  <2>1. /\ tickets' = tickets /\ granted \subseteq granted' /\ overwritten \subseteq overwritten'
        /\ \A d \in Calls : pc'[d] = "ticket" => pc[d] = "ticket" /\ job'[d] = job[d]
    BY <1>11 DEF UndoTicket, ReleaseSeat, HeldBy, Answer
  <2>2. \A s1 \in Seats : ledger[s1].status = "sold" => ledger'[s1].status = "sold" \/ s1 \in overwritten'
    BY <1>11 DEF UndoTicket, ReleaseSeat, HeldBy, Answer
  <2>3. QED
    BY <2>1, <2>2, SaleFrame
<1>12. ASSUME NEW c \in Calls, PatchCredits(c) PROVE SaleInv' /\ OneTicketPerSeat'
  <2>1. /\ tickets' = tickets /\ granted \subseteq granted' /\ overwritten \subseteq overwritten'
        /\ \A d \in Calls : pc'[d] = "ticket" => pc[d] = "ticket" /\ job'[d] = job[d]
    BY <1>12 DEF PatchCredits, Goto
  <2>2. \A s1 \in Seats : ledger[s1].status = "sold" => ledger'[s1].status = "sold" \/ s1 \in overwritten'
    BY <1>12 DEF PatchCredits, Goto
  <2>3. QED
    BY <2>1, <2>2, SaleFrame
<1>13. ASSUME NEW c \in Calls, UndoPay(c) PROVE SaleInv' /\ OneTicketPerSeat'
  <2>1. /\ tickets' = tickets /\ granted \subseteq granted' /\ overwritten \subseteq overwritten'
        /\ \A d \in Calls : pc'[d] = "ticket" => pc[d] = "ticket" /\ job'[d] = job[d]
    BY <1>13 DEF ALLOWED_STATUS_VALUES, UndoPay, ReleaseSeat, HeldBy, update_ticket, Answer
  <2>2. \A s1 \in Seats : ledger[s1].status = "sold" => ledger'[s1].status = "sold" \/ s1 \in overwritten'
    BY <1>13 DEF UndoPay, ReleaseSeat, HeldBy, update_ticket, Answer
  <2>3. QED
    BY <2>1, <2>2, SaleFrame
<1>14. ASSUME NEW c \in Calls, LogPurchase(c) PROVE SaleInv' /\ OneTicketPerSeat'
  <2>1. /\ tickets' = tickets /\ granted \subseteq granted' /\ overwritten \subseteq overwritten'
        /\ \A d \in Calls : pc'[d] = "ticket" => pc[d] = "ticket" /\ job'[d] = job[d]
    BY <1>14 DEF LogPurchase, Answer
  <2>2. \A s1 \in Seats : ledger[s1].status = "sold" => ledger'[s1].status = "sold" \/ s1 \in overwritten'
    BY <1>14 DEF LogPurchase, Answer
  <2>3. QED
    BY <2>1, <2>2, SaleFrame
<1>15. ASSUME NEW m \in ttl, on_expired(m) PROVE SaleInv' /\ OneTicketPerSeat'
  <2>1. /\ tickets' = tickets /\ granted \subseteq granted' /\ overwritten \subseteq overwritten'
        /\ \A d \in Calls : pc'[d] = "ticket" => pc[d] = "ticket" /\ job'[d] = job[d]
    BY <1>15 DEF on_expired, ReleaseSeat, HeldBy
  <2>2. \A s1 \in Seats : ledger[s1].status = "sold" => ledger'[s1].status = "sold" \/ s1 \in overwritten'
    BY <1>15 DEF on_expired, ReleaseSeat, HeldBy
  <2>3. QED
    BY <2>1, <2>2, SaleFrame
<1>16. ASSUME NEW e \in late, LateCredit(e) PROVE SaleInv' /\ OneTicketPerSeat'
  <2>1. /\ tickets' = tickets /\ granted \subseteq granted' /\ overwritten \subseteq overwritten'
        /\ \A d \in Calls : pc'[d] = "ticket" => pc[d] = "ticket" /\ job'[d] = job[d]
    BY <1>16 DEF LateCredit
  <2>2. \A s1 \in Seats : ledger[s1].status = "sold" => ledger'[s1].status = "sold" \/ s1 \in overwritten'
    BY <1>16 DEF LateCredit
  <2>3. QED
    BY <2>1, <2>2, SaleFrame
<1>17. QED
  BY <1>1, <1>2, <1>3, <1>4, <1>5, <1>6, <1>7, <1>8,
     <1>9, <1>10, <1>11, <1>12, <1>13, <1>14, <1>15, <1>16 DEF Next, Step

\* Payments are made only for tickets that exist, tickets are never deleted, and a
\* request reaches its last step only by paying.
LEMMA PaidStep ==
  ASSUME TypeOK, PaidInv, ChargedInv, Next
  PROVE  PaidInv' /\ ChargedInv'
<1> USE WorkFields DEF TypeOK, JobsOK, PaidInv, ChargedInv, services, history, seatService, ledgerVars
<1>1. ASSUME NEW S \in SUBSET Seats, OpenSeats(S) PROVE PaidInv' /\ ChargedInv'
  BY <1>1 DEF OpenSeats, AddSeats
<1>2. ASSUME NEW T \in SUBSET Tokens, TimePasses(T) PROVE PaidInv' /\ ChargedInv'
  BY <1>2 DEF TimePasses, Lapse
<1>3. ASSUME NEW s \in Seats, NEW u \in Users, NEW t \in Tokens, release_hold(s, u, t)
        PROVE PaidInv' /\ ChargedInv'
  BY <1>3 DEF release_hold, ReleaseSeat, HeldBy
<1>4. ASSUME NEW c \in Calls, NEW s \in Seats, NEW u \in Users, NEW t \in Tokens, hold_seat(c, s, u, t)
        PROVE PaidInv' /\ ChargedInv'
  BY <1>4 DEF hold_seat, Grant, Accept
<1>5. ASSUME NEW c \in Calls, NEW s \in Seats, NEW u \in Users, NEW t \in Tokens \cup {Null}, confirm_purchase(c, s, u, t)
        PROVE PaidInv' /\ ChargedInv'
  BY <1>5 DEF confirm_purchase, Accept
<1>6. ASSUME NEW c \in Calls, publish_hold_ttl(c) PROVE PaidInv' /\ ChargedInv'
  BY <1>6 DEF publish_hold_ttl, Answer
<1>7. ASSUME NEW c \in Calls, CheckHold(c) PROVE PaidInv' /\ ChargedInv'
  BY <1>7 DEF CheckHold, Clear, Goto, Answer
<1>8. ASSUME NEW c \in Calls, CheckBalance(c) PROVE PaidInv' /\ ChargedInv'
  BY <1>8 DEF CheckBalance, Answer
<1>9. ASSUME NEW c \in Calls, SellSeat(c) PROVE PaidInv' /\ ChargedInv'
  BY <1>9 DEF SellSeat, Sell, HeldBy, Goto, Answer
<1>10. ASSUME NEW c \in Calls, PostTicket(c) PROVE PaidInv' /\ ChargedInv'
  <2>1. tickets \subseteq tickets'
    BY <1>10 DEF PostTicket, create_ticket
  <2>2. CASE Goto(c, "undo_ticket")
    BY <1>10, <2>1, <2>2 DEF PostTicket, Goto
  <2>3. CASE ~Goto(c, "undo_ticket")
    <3>1. PICK k \in TicketIds :
            /\ create_ticket(k, job[c].seat, job[c].user)
            /\ pc' = [pc EXCEPT ![c] = "pay"]
            /\ job' = [job EXCEPT ![c] =
                 Work(job[c].seat, job[c].user, job[c].token, job[c].balance, k)]
      BY <1>10, <2>3 DEF PostTicket
    <3>2. job'[c].ticket = k /\ pc'[c] = "pay"
      BY <3>1 DEF Work
    <3>3. \E x \in tickets' : x.id = k
      <4>1. [id |-> k, seat |-> job[c].seat, owner |-> job[c].user, status |-> "active"] \in tickets'
        BY <3>1 DEF create_ticket
      <4>2. QED
        BY <4>1
    <3>4. \A d \in Calls : d # c => pc'[d] = pc[d] /\ job'[d] = job[d]
      BY <3>1
    <3>5. QED
      BY <1>10, <2>1, <3>2, <3>3, <3>4 DEF PostTicket
  <2>4. QED
    BY <2>2, <2>3
<1>11. ASSUME NEW c \in Calls, UndoTicket(c) PROVE PaidInv' /\ ChargedInv'
  BY <1>11 DEF UndoTicket, ReleaseSeat, HeldBy, Answer
<1>12. ASSUME NEW c \in Calls, PatchCredits(c) PROVE PaidInv' /\ ChargedInv'
  <2>1. CASE Goto(c, "log")
    BY <1>12, <2>1 DEF PatchCredits, Goto
  <2>2. CASE Goto(c, "undo_pay")
    <3> DEFINE n == [user |-> job[c].user, balance |-> job[c].balance - Price, ticket |-> job[c].ticket]
    <3>1. late' \in {late, late \cup {n}} /\ n.ticket = job[c].ticket
      BY <1>12, <2>2 DEF PatchCredits, Goto
    <3> HIDE DEF n
    <3>2. QED
      BY <1>12, <2>2, <3>1 DEF PatchCredits, Goto
  <2>3. QED
    BY <1>12, <2>1, <2>2 DEF PatchCredits
<1>13. ASSUME NEW c \in Calls, UndoPay(c) PROVE PaidInv' /\ ChargedInv'
  <2>1. tickets' = tickets
    BY <1>13 DEF UndoPay, update_ticket, ALLOWED_STATUS_VALUES
  <2>2. QED
    BY <1>13, <2>1 DEF UndoPay, Answer
<1>14. ASSUME NEW c \in Calls, LogPurchase(c) PROVE PaidInv' /\ ChargedInv'
  BY <1>14 DEF LogPurchase, Answer
<1>15. ASSUME NEW m \in ttl, on_expired(m) PROVE PaidInv' /\ ChargedInv'
  BY <1>15 DEF on_expired, ReleaseSeat, HeldBy
<1>16. ASSUME NEW e \in late, LateCredit(e) PROVE PaidInv' /\ ChargedInv'
  BY <1>16 DEF LateCredit
<1>17. QED
  BY <1>1, <1>2, <1>3, <1>4, <1>5, <1>6, <1>7, <1>8,
     <1>9, <1>10, <1>11, <1>12, <1>13, <1>14, <1>15, <1>16 DEF Next, Step

-------------------------------------------------------------------------------
(* What a step may do to a hold. *)

\* The fields of a row that is a hold.
LEMMA HeldByFields ==
  ASSUME NEW s, NEW u, NEW t, HeldBy(s, u, t)
  PROVE  ledger[s].status = "held" /\ ledger[s].heldByUserId = u /\ ledger[s].holdToken = t
  BY HeldRow DEF HeldBy

\* The ReleaseSeat RPC touches no hold but the one whose token it is given.
LEMMA ReleaseKeeps ==
  ASSUME LedgerOK, NEW s \in Seats, NEW u, NEW t, ReleaseSeat(s, u, t),
         NEW s2 \in Seats, ledger[s2].holdToken # t
  PROVE  ledger'[s2] = ledger[s2]
  BY HeldByFields DEF ReleaseSeat, LedgerOK

\* A hold in time is taken away only by a step that has its token, or overwrites its
\* row.  A compensation has only a token that is spent (SpentInv), an expiry
\* message only one that has run out.
LEMMA KeepStep ==
  ASSUME TypeOK, RowInv, SpentInv, Next
  PROVE  KeepsHolds
<1> USE DEF TypeOK
<1> DEFINE Kept(h) == \/ ledger'[h.seat] = ledger[h.seat]
                      \/ ledger'[h.seat].status = "sold"
                      \/ h.token \in givenBack'
                      \/ h.seat \in overwritten'
<1>1. SUFFICES ASSUME NEW h \in granted, HeldBy(h.seat, h.user, h.token), h.token \notin lapsed
               PROVE  Kept(h)
  BY DEF KeepsHolds
<1>2. /\ h.seat \in Seats /\ h.token \in Tokens
      /\ ledger[h.seat].status = "held" /\ ledger[h.seat].holdToken = h.token
      /\ h.token \notin lapsed /\ LedgerOK
  BY <1>1, HoldFields, HeldByFields DEF LedgerOK
<1> USE DEF services, history, seatService, ledgerVars
<1>3. ASSUME NEW S \in SUBSET Seats, OpenSeats(S) PROVE Kept(h)
  BY <1>3, <1>2 DEF OpenSeats, AddSeats
<1>4. ASSUME NEW T \in SUBSET Tokens, TimePasses(T) PROVE Kept(h)
  BY <1>4 DEF TimePasses, Lapse
<1>5. ASSUME NEW s \in Seats, NEW u \in Users, NEW t \in Tokens, release_hold(s, u, t)
        PROVE Kept(h)
  <2>1. CASE t = h.token /\ HeldBy(s, u, t)
    BY <1>5, <2>1 DEF release_hold
  <2>2. CASE t = h.token /\ ~HeldBy(s, u, t)
    BY <1>5, <2>2, <1>2 DEF release_hold, ReleaseSeat, LedgerOK
  <2>3. CASE t # h.token
    BY <1>5, <2>3, <1>2, ReleaseKeeps DEF release_hold
  <2>4. QED
    BY <2>1, <2>2, <2>3
<1>6. ASSUME NEW c \in Calls, NEW s \in Seats, NEW u \in Users, NEW t \in Tokens, hold_seat(c, s, u, t)
        PROVE Kept(h)
  BY <1>6, <1>2 DEF hold_seat, Grant, LedgerOK
<1>7. ASSUME NEW c \in Calls, NEW s \in Seats, NEW u \in Users, NEW t \in Tokens \cup {Null}, confirm_purchase(c, s, u, t)
        PROVE Kept(h)
  BY <1>7 DEF confirm_purchase, Accept
<1>8. ASSUME NEW c \in Calls, publish_hold_ttl(c) PROVE Kept(h)
  BY <1>8 DEF publish_hold_ttl, Answer
<1>9. ASSUME NEW c \in Calls, CheckHold(c) PROVE Kept(h)
  BY <1>9, <1>2 DEF CheckHold, Clear, LedgerOK
<1>10. ASSUME NEW c \in Calls, CheckBalance(c) PROVE Kept(h)
  BY <1>10 DEF CheckBalance, Answer
<1>11. ASSUME NEW c \in Calls, SellSeat(c) PROVE Kept(h)
  BY <1>11, <1>2, BareRow DEF SellSeat, Sell, LedgerOK
<1>12. ASSUME NEW c \in Calls, PostTicket(c) PROVE Kept(h)
  BY <1>12 DEF PostTicket, create_ticket, Goto
<1>13. ASSUME NEW c \in Calls, UndoTicket(c) PROVE Kept(h)
  <2>1. job[c].seat \in Seats /\ ledger[h.seat].holdToken # job[c].token
    BY <1>13, <1>2 DEF UndoTicket, SpentInv, JobsOK
  <2>2. ReleaseSeat(job[c].seat, job[c].user, job[c].token)
    BY <1>13 DEF UndoTicket
  <2>3. QED
    BY <1>2, <2>1, <2>2, ReleaseKeeps
<1>14. ASSUME NEW c \in Calls, PatchCredits(c) PROVE Kept(h)
  BY <1>14 DEF PatchCredits, Goto
<1>15. ASSUME NEW c \in Calls, UndoPay(c) PROVE Kept(h)
  <2>1. job[c].seat \in Seats /\ ledger[h.seat].holdToken # job[c].token
    BY <1>15, <1>2 DEF UndoPay, SpentInv, JobsOK
  <2>2. ReleaseSeat(job[c].seat, job[c].user, job[c].token)
    BY <1>15 DEF UndoPay
  <2>3. QED
    BY <1>2, <2>1, <2>2, ReleaseKeeps
<1>16. ASSUME NEW c \in Calls, LogPurchase(c) PROVE Kept(h)
  BY <1>16 DEF LogPurchase, Answer
<1>17. ASSUME NEW m \in ttl, on_expired(m) PROVE Kept(h)
  <2>1. m.seat \in Seats /\ m.token \in lapsed
    BY <1>17, HoldFields DEF on_expired, ServicesOK
  <2>2. QED
    BY <1>17, <1>2, <2>1, ReleaseKeeps DEF on_expired
<1>18. ASSUME NEW e \in late, LateCredit(e) PROVE Kept(h)
  BY <1>18 DEF LateCredit
<1>19. QED
  BY <1>3, <1>4, <1>5, <1>6, <1>7, <1>8, <1>9, <1>10,
     <1>11, <1>12, <1>13, <1>14, <1>15, <1>16, <1>17, <1>18 DEF Next, Step

-------------------------------------------------------------------------------
(* Balances. *)

BalanceInv == WindowInv /\ UnpaidInv /\ BalanceExact

\* Steps that touch no balance, ticket or payment, and take no request into the
\* stretch between reading a balance and writing it, keep the balances right.
LEMMA BalanceFrame ==
  ASSUME BalanceInv, UNCHANGED <<credits, tickets, charged, late>>, raced \subseteq raced',
         \A d \in Calls : /\ pc'[d] \in {"sell", "ticket", "pay"} =>
                               pc[d] \in {"sell", "ticket", "pay"} /\ job'[d] = job[d]
                          /\ pc'[d] = "pay" => pc[d] = "pay"
  PROVE  BalanceInv'
<1> USE DEF BalanceInv
<1>1. WindowInv'
  BY DEF WindowInv
<1>2. UnpaidInv'
  BY DEF UnpaidInv
<1>3. \A u : TicketsOf(u, charged)' = TicketsOf(u, charged)
  BY DEF TicketsOf
<1>4. BalanceExact'
  BY <1>3 DEF BalanceExact
<1>5. QED
  BY <1>1, <1>2, <1>4

\* Charging a ticket adds one to its owner's charged tickets and nothing to anybody
\* else's.
LEMMA ChargeOne ==
  ASSUME UnpaidInv, NEW x \in tickets, x.id \notin charged,
         tickets' = tickets, charged' = charged \cup {x.id}
  PROVE  /\ \A u : u # x.owner => TicketsOf(u, charged)' = TicketsOf(u, charged)
         /\ Cardinality(TicketsOf(x.owner, charged)') = Cardinality(TicketsOf(x.owner, charged)) + 1
         /\ Cardinality(TicketsOf(x.owner, charged)) \in Nat
<1>1. /\ IsFiniteSet(tickets)
      /\ \A y \in tickets : y.id = x.id => y = x
  BY DEF UnpaidInv
<1>2. ASSUME NEW u, u # x.owner PROVE TicketsOf(u, charged)' = TicketsOf(u, charged)
  BY <1>1, <1>2 DEF TicketsOf
<1> DEFINE A == TicketsOf(x.owner, charged)
<1>3. A' = A \cup {x} /\ x \notin A
  BY <1>1 DEF TicketsOf
<1>4. IsFiniteSet(A)
  BY <1>1, FS_Subset DEF TicketsOf
<1>5. Cardinality(A) \in Nat /\ Cardinality(A \cup {x}) = Cardinality(A) + 1
  BY <1>3, <1>4, FS_AddElement, FS_CardinalityType
<1> HIDE DEF A
<1>6. Cardinality(A') = Cardinality(A) + 1
  BY <1>3, <1>5
<1>7. QED
  BY <1>2, <1>5, <1>6 DEF A

\* A payment by the owner of a ticket, of its price, keeps the balance exact.
LEMMA PayOne ==
  ASSUME TypeOK, UnpaidInv, BalanceExact, NEW x \in tickets, x.id \notin charged,
         x.owner \in Users, tickets' = tickets, charged' = charged \cup {x.id}, raced' = raced,
         NEW b, x.owner \notin raced => b = credits[x.owner] - Price,
         credits' = [credits EXCEPT ![x.owner] = b]
  PROVE  BalanceExact'
<1> USE DEF TypeOK, ServicesOK
<1>1. SUFFICES ASSUME NEW u \in Users \ raced
               PROVE  credits'[u] = InitialCredits - Price * Cardinality(TicketsOf(u, charged)')
  BY DEF BalanceExact
<1>2. CASE u # x.owner
  BY <1>2, ChargeOne DEF BalanceExact
<1>3. CASE u = x.owner
  <2> DEFINE n == Cardinality(TicketsOf(x.owner, charged))
  <2>1. n \in Nat /\ Cardinality(TicketsOf(x.owner, charged)') = n + 1
    BY ChargeOne
  <2>2. credits[u] = InitialCredits - Price * n /\ credits'[u] = credits[u] - Price
    BY <1>3 DEF BalanceExact
  <2> HIDE DEF n
  <2>3. Price * (n + 1) = Price * n + Price /\ Price * n \in Int
    BY <2>1, PriceAssumption
  <2>4. QED
    BY <1>3, <2>1, <2>2, <2>3, PriceAssumption
<1>4. QED
  BY <1>2, <1>3

\* A balance is written with what was read for it, or the user has raced.
LEMMA BalanceStep ==
  ASSUME TypeOK, PaidInv, ChargedInv, BalanceInv, Next
  PROVE  BalanceInv'
<1> USE DEF TypeOK, JobsOK, BalanceInv, services, history, seatService, ledgerVars
<1>1. ASSUME NEW S \in SUBSET Seats, OpenSeats(S) PROVE BalanceInv'
  <2>1. /\ UNCHANGED <<credits, tickets, charged, late>> /\ raced \subseteq raced'
        /\ \A d \in Calls : /\ pc'[d] \in {"sell", "ticket", "pay"} =>
                                 pc[d] \in {"sell", "ticket", "pay"} /\ job'[d] = job[d]
                            /\ pc'[d] = "pay" => pc[d] = "pay"
    BY <1>1 DEF OpenSeats, AddSeats
  <2>2. QED
    BY <2>1, BalanceFrame
<1>2. ASSUME NEW T \in SUBSET Tokens, TimePasses(T) PROVE BalanceInv'
  <2>1. /\ UNCHANGED <<credits, tickets, charged, late>> /\ raced \subseteq raced'
        /\ \A d \in Calls : /\ pc'[d] \in {"sell", "ticket", "pay"} =>
                                 pc[d] \in {"sell", "ticket", "pay"} /\ job'[d] = job[d]
                            /\ pc'[d] = "pay" => pc[d] = "pay"
    BY <1>2 DEF TimePasses, Lapse
  <2>2. QED
    BY <2>1, BalanceFrame
<1>3. ASSUME NEW s \in Seats, NEW u \in Users, NEW t \in Tokens, release_hold(s, u, t)
        PROVE BalanceInv'
  <2>1. /\ UNCHANGED <<credits, tickets, charged, late>> /\ raced \subseteq raced'
        /\ \A d \in Calls : /\ pc'[d] \in {"sell", "ticket", "pay"} =>
                                 pc[d] \in {"sell", "ticket", "pay"} /\ job'[d] = job[d]
                            /\ pc'[d] = "pay" => pc[d] = "pay"
    BY <1>3 DEF release_hold, ReleaseSeat, HeldBy
  <2>2. QED
    BY <2>1, BalanceFrame
<1>4. ASSUME NEW c \in Calls, NEW s \in Seats, NEW u \in Users, NEW t \in Tokens, hold_seat(c, s, u, t)
        PROVE BalanceInv'
  <2>1. /\ UNCHANGED <<credits, tickets, charged, late>> /\ raced \subseteq raced'
        /\ \A d \in Calls : /\ pc'[d] \in {"sell", "ticket", "pay"} =>
                                 pc[d] \in {"sell", "ticket", "pay"} /\ job'[d] = job[d]
                            /\ pc'[d] = "pay" => pc[d] = "pay"
    BY <1>4 DEF hold_seat, Grant, Accept
  <2>2. QED
    BY <2>1, BalanceFrame
<1>5. ASSUME NEW c \in Calls, NEW s \in Seats, NEW u \in Users, NEW t \in Tokens \cup {Null}, confirm_purchase(c, s, u, t)
        PROVE BalanceInv'
  <2>1. /\ UNCHANGED <<credits, tickets, charged, late>> /\ raced \subseteq raced'
        /\ \A d \in Calls : /\ pc'[d] \in {"sell", "ticket", "pay"} =>
                                 pc[d] \in {"sell", "ticket", "pay"} /\ job'[d] = job[d]
                            /\ pc'[d] = "pay" => pc[d] = "pay"
    BY <1>5 DEF confirm_purchase, Accept
  <2>2. QED
    BY <2>1, BalanceFrame
<1>6. ASSUME NEW c \in Calls, publish_hold_ttl(c) PROVE BalanceInv'
  <2>1. /\ UNCHANGED <<credits, tickets, charged, late>> /\ raced \subseteq raced'
        /\ \A d \in Calls : /\ pc'[d] \in {"sell", "ticket", "pay"} =>
                                 pc[d] \in {"sell", "ticket", "pay"} /\ job'[d] = job[d]
                            /\ pc'[d] = "pay" => pc[d] = "pay"
    BY <1>6 DEF publish_hold_ttl, Answer
  <2>2. QED
    BY <2>1, BalanceFrame
<1>7. ASSUME NEW c \in Calls, CheckHold(c) PROVE BalanceInv'
  <2>1. /\ UNCHANGED <<credits, tickets, charged, late>> /\ raced \subseteq raced'
        /\ \A d \in Calls : /\ pc'[d] \in {"sell", "ticket", "pay"} =>
                                 pc[d] \in {"sell", "ticket", "pay"} /\ job'[d] = job[d]
                            /\ pc'[d] = "pay" => pc[d] = "pay"
    BY <1>7 DEF CheckHold, Clear, Goto, Answer
  <2>2. QED
    BY <2>1, BalanceFrame
<1>8. ASSUME NEW c \in Calls, CheckBalance(c) PROVE BalanceInv'
  <2>1. CASE Answer(c) /\ UNCHANGED raced
    BY <1>8, <2>1, BalanceFrame DEF CheckBalance, Answer
  <2>2. CASE ~(Answer(c) /\ UNCHANGED raced)
    <3> DEFINE u == job[c].user
               j == Work(job[c].seat, u, job[c].token, credits[u], Null)
    <3>1. /\ pc' = [pc EXCEPT ![c] = "sell"] /\ job' = [job EXCEPT ![c] = j]
          /\ raced' = IF BalanceInUse(u) THEN raced \cup {u} ELSE raced
          /\ UNCHANGED <<credits, tickets, charged, late>>
      BY <1>8, <2>2 DEF CheckBalance
    <3>2. j.user = u /\ j.balance = credits[u]
      BY WorkFields
    <3> HIDE DEF j, u
    <3>3. UnpaidInv'
      BY <3>1 DEF UnpaidInv
    <3>4. \A v : TicketsOf(v, charged)' = TicketsOf(v, charged)
      BY <3>1 DEF TicketsOf
    <3>5. BalanceExact'
      BY <3>1, <3>4 DEF BalanceExact
    <3>6. WindowInv'
      BY <3>1, <3>2 DEF WindowInv, BalanceInUse
    <3>7. QED
      BY <3>3, <3>5, <3>6
  <2>3. QED
    BY <2>1, <2>2
<1>9. ASSUME NEW c \in Calls, SellSeat(c) PROVE BalanceInv'
  <2>1. /\ UNCHANGED <<credits, tickets, charged, late>> /\ raced \subseteq raced'
        /\ \A d \in Calls : /\ pc'[d] \in {"sell", "ticket", "pay"} =>
                                 pc[d] \in {"sell", "ticket", "pay"} /\ job'[d] = job[d]
                            /\ pc'[d] = "pay" => pc[d] = "pay"
    BY <1>9 DEF SellSeat, Sell, HeldBy, Goto, Answer
  <2>2. QED
    BY <2>1, BalanceFrame
<1>10. ASSUME NEW c \in Calls, PostTicket(c) PROVE BalanceInv'
  <2>1. CASE Goto(c, "undo_ticket") /\ UNCHANGED tickets
    BY <1>10, <2>1, BalanceFrame DEF PostTicket, Goto
  <2>2. CASE ~(Goto(c, "undo_ticket") /\ UNCHANGED tickets)
    <3>1. PICK k \in TicketIds :
            /\ create_ticket(k, job[c].seat, job[c].user)
            /\ \/ /\ pc' = [pc EXCEPT ![c] = "pay"]
                  /\ job' = [job EXCEPT ![c] =
                       Work(job[c].seat, job[c].user, job[c].token, job[c].balance, k)]
               \/ Goto(c, "undo_ticket")
      BY <1>10, <2>2 DEF PostTicket
    <3> DEFINE n == [id |-> k, seat |-> job[c].seat, owner |-> job[c].user, status |-> "active"]
               j == Work(job[c].seat, job[c].user, job[c].token, job[c].balance, k)
    <3>2. /\ n.id = k /\ n.owner = job[c].user
          /\ j.user = job[c].user /\ j.balance = job[c].balance /\ j.ticket = k
      BY WorkFields
    <3>3. /\ tickets' = tickets \cup {n} /\ \A x \in tickets : x.id # k
          /\ \/ pc' = [pc EXCEPT ![c] = "pay"] /\ job' = [job EXCEPT ![c] = j]
             \/ pc' = [pc EXCEPT ![c] = "undo_ticket"] /\ job' = job
          /\ pc[c] = "ticket" /\ UNCHANGED <<credits, charged, late, raced>>
      BY <1>10, <3>1 DEF PostTicket, create_ticket, Goto
    <3> HIDE DEF n, j
    <3>4. /\ k \notin charged /\ \A e \in late : e.ticket # k
          /\ \A d \in Calls : pc[d] = "pay" => job[d].ticket # k
      BY <3>3 DEF PaidInv, ChargedInv
    <3>5. IsFiniteSet(tickets')
      BY <3>3, FS_AddElement DEF UnpaidInv
    <3>6. UnpaidInv'
      BY <3>2, <3>3, <3>4, <3>5 DEF UnpaidInv
    <3>7. WindowInv'
      BY <3>2, <3>3 DEF WindowInv
    <3>8. \A u : TicketsOf(u, charged)' = TicketsOf(u, charged)
      BY <3>2, <3>3, <3>4 DEF TicketsOf
    <3>9. BalanceExact'
      BY <3>3, <3>8 DEF BalanceExact
    <3>10. QED
      BY <3>6, <3>7, <3>9
  <2>3. QED
    BY <2>1, <2>2
<1>11. ASSUME NEW c \in Calls, UndoTicket(c) PROVE BalanceInv'
  <2>1. /\ UNCHANGED <<credits, tickets, charged, late>> /\ raced \subseteq raced'
        /\ \A d \in Calls : /\ pc'[d] \in {"sell", "ticket", "pay"} =>
                                 pc[d] \in {"sell", "ticket", "pay"} /\ job'[d] = job[d]
                            /\ pc'[d] = "pay" => pc[d] = "pay"
    BY <1>11 DEF UndoTicket, ReleaseSeat, HeldBy, Answer
  <2>2. QED
    BY <2>1, BalanceFrame
<1>12. ASSUME NEW c \in Calls, PatchCredits(c) PROVE BalanceInv'
  <2> DEFINE u == job[c].user
             left == job[c].balance - Price
  <2>1. pc[c] = "pay" /\ u \in Users /\ UNCHANGED <<tickets, raced>>
    BY <1>12 DEF PatchCredits
  <2>2. PICK x \in tickets : x.id = job[c].ticket
    BY <2>1 DEF PaidInv
  <2>3. x.owner = u /\ x.id \notin charged /\ (u \notin raced => job[c].balance = credits[u])
    BY <2>1, <2>2 DEF UnpaidInv, WindowInv
  <2>4. CASE Goto(c, "log")
    <3>1. /\ credits' = [credits EXCEPT ![u] = left] /\ charged' = charged \cup {x.id}
          /\ pc' = [pc EXCEPT ![c] = "log"] /\ UNCHANGED <<job, late>>
      BY <1>12, <2>2, <2>4 DEF PatchCredits, Goto
    <3>2. BalanceExact'
      BY <2>1, <2>3, <3>1, PayOne
    <3> HIDE DEF left
    <3>3. WindowInv'
      BY <2>1, <3>1 DEF WindowInv, ServicesOK
    <3>4. UnpaidInv'
      BY <2>1, <2>2, <3>1 DEF UnpaidInv
    <3>5. QED
      BY <3>2, <3>3, <3>4
  <2>5. CASE Goto(c, "undo_pay")
    <3> DEFINE n == [user |-> u, balance |-> left, ticket |-> job[c].ticket]
    <3>1. /\ late' \in {late, late \cup {n}} /\ UNCHANGED <<credits, charged, job>>
          /\ pc' = [pc EXCEPT ![c] = "undo_pay"]
      BY <1>12, <2>5 DEF PatchCredits, Goto
    <3>2. n.user = u /\ n.balance = left /\ n.ticket = job[c].ticket
      OBVIOUS
    <3> HIDE DEF n
    <3>3. WindowInv'
      BY <2>1, <2>3, <3>1, <3>2 DEF WindowInv
    <3>4. UnpaidInv'
      BY <2>1, <3>1, <3>2 DEF UnpaidInv
    <3>5. \A v : TicketsOf(v, charged)' = TicketsOf(v, charged)
      BY <2>1, <3>1 DEF TicketsOf
    <3>6. BalanceExact'
      BY <2>1, <3>1, <3>5 DEF BalanceExact
    <3>7. QED
      BY <3>3, <3>4, <3>6
  <2>6. QED
    BY <1>12, <2>4, <2>5 DEF PatchCredits
<1>13. ASSUME NEW c \in Calls, UndoPay(c) PROVE BalanceInv'
  <2>1. /\ UNCHANGED <<credits, tickets, charged, late>> /\ raced \subseteq raced'
        /\ \A d \in Calls : /\ pc'[d] \in {"sell", "ticket", "pay"} =>
                                 pc[d] \in {"sell", "ticket", "pay"} /\ job'[d] = job[d]
                            /\ pc'[d] = "pay" => pc[d] = "pay"
    BY <1>13 DEF UndoPay, update_ticket, ALLOWED_STATUS_VALUES, Answer
  <2>2. QED
    BY <2>1, BalanceFrame
<1>14. ASSUME NEW c \in Calls, LogPurchase(c) PROVE BalanceInv'
  <2>1. /\ UNCHANGED <<credits, tickets, charged, late>> /\ raced \subseteq raced'
        /\ \A d \in Calls : /\ pc'[d] \in {"sell", "ticket", "pay"} =>
                                 pc[d] \in {"sell", "ticket", "pay"} /\ job'[d] = job[d]
                            /\ pc'[d] = "pay" => pc[d] = "pay"
    BY <1>14 DEF LogPurchase, Answer
  <2>2. QED
    BY <2>1, BalanceFrame
<1>15. ASSUME NEW m \in ttl, on_expired(m) PROVE BalanceInv'
  <2>1. /\ UNCHANGED <<credits, tickets, charged, late>> /\ raced \subseteq raced'
        /\ \A d \in Calls : /\ pc'[d] \in {"sell", "ticket", "pay"} =>
                                 pc[d] \in {"sell", "ticket", "pay"} /\ job'[d] = job[d]
                            /\ pc'[d] = "pay" => pc[d] = "pay"
    BY <1>15 DEF on_expired, ReleaseSeat, HeldBy
  <2>2. QED
    BY <2>1, BalanceFrame
<1>16. ASSUME NEW e \in late, LateCredit(e) PROVE BalanceInv'
  <2>1. /\ credits' = [credits EXCEPT ![e.user] = e.balance] /\ charged' = charged \cup {e.ticket}
        /\ late' = late \ {e} /\ UNCHANGED <<tickets, raced, pc, job>> /\ e.user \in Users
    BY <1>16 DEF LateCredit, ServicesOK, CreditWrite
  <2>2. PICK x \in tickets : x.id = e.ticket
    BY DEF PaidInv
  <2>3. x.owner = e.user /\ x.id \notin charged /\ (e.user \notin raced => e.balance = credits[e.user] - Price)
    BY <2>1, <2>2 DEF UnpaidInv, WindowInv
  <2>4. BalanceExact'
    BY <2>1, <2>2, <2>3, PayOne
  <2>5. WindowInv'
    BY <2>1 DEF WindowInv, ServicesOK
  <2>6. UnpaidInv'
    BY <2>1, <2>2 DEF UnpaidInv
  <2>7. QED
    BY <2>4, <2>5, <2>6
<1>17. QED
  BY <1>1, <1>2, <1>3, <1>4, <1>5, <1>6, <1>7, <1>8,
     <1>9, <1>10, <1>11, <1>12, <1>13, <1>14, <1>15, <1>16 DEF Next, Step

-------------------------------------------------------------------------------
(* The theorems. *)

\* The inductive invariant: what is to be shown, with what makes it inductive.
SagaInv ==
  /\ TypeOK /\ RowInv /\ TokenInv /\ JobInv /\ SpentInv /\ SaleInv /\ OneTicketPerSeat
  /\ PaidInv /\ ChargedInv /\ BalanceInv

\* The invariant holds to begin with: nothing has been held, bought or paid.
LEMMA SagaInit ==
  ASSUME Init
  PROVE  SagaInv
<1> USE DEF Init, LedgerInit
<1>1. TypeOK
  BY BareRow, WorkType, PriceAssumption DEF TypeOK, LedgerOK, ServicesOK, JobsOK, HistoryOK, Status, Pc
<1>2. RowInv /\ TokenInv
  BY BareRow DEF RowInv, TokenInv
<1>3. JobInv /\ SpentInv /\ SaleInv /\ OneTicketPerSeat
  BY DEF JobInv, SpentInv, SaleInv, OneTicketPerSeat
<1>4. PaidInv /\ ChargedInv
  BY DEF PaidInv, ChargedInv
<1>5. WindowInv /\ UnpaidInv
  BY FS_EmptySet DEF WindowInv, UnpaidInv
<1>6. BalanceExact
  <2>1. \A u : TicketsOf(u, charged) = {}
    BY DEF TicketsOf
  <2>2. Cardinality({}) = 0
    BY FS_EmptySet
  <2>3. QED
    BY <2>1, <2>2, PriceAssumption DEF BalanceExact
<1>7. QED
  BY <1>1, <1>2, <1>3, <1>4, <1>5, <1>6 DEF SagaInv, BalanceInv

\* No step leaves the invariant.
LEMMA SagaStep ==
  ASSUME SagaInv, [Next]_vars
  PROVE  SagaInv'
<1>1. CASE Next
  BY <1>1, TypeStep, RowStep, TokenStep, JobStep, SpentStep, SaleStep, PaidStep, BalanceStep DEF SagaInv
<1>2. CASE UNCHANGED vars
  <2> USE <1>2 DEF SagaInv, vars
  <2>1. TypeOK'
    BY DEF TypeOK, LedgerOK, ServicesOK, JobsOK, HistoryOK
  <2>2. RowInv' /\ TokenInv' /\ JobInv' /\ SpentInv'
    BY DEF RowInv, TokenInv, JobInv, SpentInv
  <2>3. SaleInv' /\ OneTicketPerSeat'
    BY DEF SaleInv, OneTicketPerSeat
  <2>4. PaidInv' /\ ChargedInv'
    BY DEF PaidInv, ChargedInv
  <2>5. BalanceInv'
    BY BalanceFrame
  <2>6. QED
    BY <2>1, <2>2, <2>3, <2>4, <2>5
<1>3. QED
  BY <1>1, <1>2

\* The saga never leaves its invariant.
THEOREM SagaSafe == Spec => []SagaInv
  BY SagaInit, SagaStep, PTL DEF Spec

\* However many confirms, expiries and releases race for a seat, it gets at most one
\* ticket, only once it is sold and only for the user it was held for, unless
\* GetSeatStatus has overwritten its row.
THEOREM OneTicket == Spec => []OneTicketPerSeat
<1>1. SagaInv => OneTicketPerSeat
  BY DEF SagaInv
<1>2. QED
  BY <1>1, SagaSafe, PTL

\* A user whose balance is exact has paid for every receipt: the charged tickets are
\* at least the receipted ones.
LEMMA ReceiptsInBalance ==
  ASSUME SagaInv
  PROVE  ReceiptsArePaid
<1> USE DEF SagaInv, BalanceInv
<1>1. \A k \in receipts : \E x \in tickets : x.id = k
  BY DEF ChargedInv
<1>2. ASSUME NEW u \in Users \ raced
      PROVE  credits[u] <= InitialCredits - Price * Cardinality(TicketsOf(u, receipts))
  <2> DEFINE n == Cardinality(TicketsOf(u, charged))
             r == Cardinality(TicketsOf(u, receipts))
  <2>1. TicketsOf(u, receipts) \subseteq TicketsOf(u, charged)
    BY DEF ChargedInv, TicketsOf
  <2>2. IsFiniteSet(TicketsOf(u, charged))
    BY FS_Subset DEF UnpaidInv, TicketsOf
  <2>3. n \in Nat /\ r \in Nat /\ r <= n
    BY <2>1, <2>2, FS_Subset, FS_CardinalityType
  <2>4. credits[u] = InitialCredits - Price * n
    BY DEF BalanceExact
  <2> HIDE DEF n, r
  <2>5. /\ n - r \in Nat /\ Price * (n - r) \in Nat
        /\ Price * n = Price * r + Price * (n - r)
    BY <2>3, PriceAssumption
  <2>6. Price * n \in Nat /\ Price * r \in Nat
    BY <2>3, PriceAssumption
  <2>7. QED
    BY <2>4, <2>5, <2>6, PriceAssumption DEF r
<1>3. QED
  BY <1>1, <1>2 DEF ReceiptsArePaid

\* Whoever is told 201 has the ticket and has paid its price, unless two of their
\* balance updates overlapped.
THEOREM ReceiptsPaid == Spec => []ReceiptsArePaid
  BY ReceiptsInBalance, SagaSafe, PTL

\* Whoever's balance updates do not overlap has paid exactly the price of each
\* charged ticket, whatever calls failed or took effect late.
THEOREM BalancesAreExact == Spec => []BalanceExact
<1>1. SagaInv => BalanceExact
  BY DEF SagaInv, BalanceInv
<1>2. QED
  BY <1>1, SagaSafe, PTL

\* No expiry message, compensation or other user's call takes a hold away before its
\* time.
THEOREM HoldsAreKept == Spec => BuyerKeepsHold
<1>1. SagaInv /\ [Next]_vars => [KeepsHolds]_vars
  BY KeepStep DEF SagaInv
<1>2. QED
  BY <1>1, SagaSafe, PTL DEF Spec, BuyerKeepsHold
===============================================================================
