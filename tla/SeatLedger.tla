------------------------------ MODULE SeatLedger ------------------------------
(***************************************************************************)
(* What the seat-inventory service promises its callers, without threads,  *)
(* row locks, Redis or clocks: one row per seat and five ways to change    *)
(* it, each in one step.  SeatInventory implements this specification;     *)
(* PurchaseSaga is built on top of it.                                     *)
(*                                                                         *)
(* Time is reduced to the set of holds that have run out ("lapsed").  The  *)
(* names are those of services/seat-inventory-service/grpc_server.py.      *)
(***************************************************************************)
CONSTANTS Seats,    \* inventoryIds of one event
          Users,    \* authenticated user ids
          Tokens,   \* hold tokens (uuid4), each drawn at most once
          Null      \* SQL NULL

ASSUME LedgerNull == Null \notin Users /\ Null \notin Tokens

VARIABLES ledger,   \* ledger[s]: the row of seat s
          granted,  \* every hold ever granted
          lapsed    \* tokens of the holds whose heldUntil has passed

ledgerVars == <<ledger, granted, lapsed>>

Status == {"absent", "available", "held", "sold"}

Row == [status : Status, heldByUserId : Users \cup {Null}, holdToken : Tokens \cup {Null}]

Hold == [seat : Seats, user : Users, token : Tokens]

\* A row that nobody holds.
Bare(status) == [status |-> status, heldByUserId |-> Null, holdToken |-> Null]

HeldBy(s, u, t) == ledger[s] = [status |-> "held", heldByUserId |-> u, holdToken |-> t]

Unissued(t) == \A h \in granted : h.token # t

LedgerInit ==
  /\ ledger = [s \in Seats |-> Bare("absent")]
  /\ granted = {}
  /\ lapsed = {}

\* create_inventory_batch: new rows start available.
AddSeats(S) ==
  /\ \A s \in S : ledger[s].status = "absent"
  /\ ledger' = [s \in Seats |-> IF s \in S THEN Bare("available") ELSE ledger[s]]
  /\ UNCHANGED <<granted, lapsed>>

\* HoldSeat: a seat is given to a user if it is free or its hold has run out.  The
\* new hold's time is counted from before the wait for the row, so it may have
\* lapsed by the time it is granted.
Grant(s, u, t) ==
  /\ Unissued(t)
  /\ \/ ledger[s].status = "available"
     \/ ledger[s].status = "held" /\ ledger[s].holdToken \in lapsed
  /\ ledger' = [ledger EXCEPT ![s] = [status |-> "held", heldByUserId |-> u, holdToken |-> t]]
  /\ granted' = granted \cup {[seat |-> s, user |-> u, token |-> t]}
  /\ lapsed' \in {lapsed, lapsed \cup {t}}

\* ReleaseSeat: only the holder, with the hold's own token.
Release(s, u, t) ==
  /\ HeldBy(s, u, t)
  /\ ledger' = [ledger EXCEPT ![s] = Bare("available")]
  /\ UNCHANGED <<granted, lapsed>>

\* SellSeat: only the holder, with the hold's own token; lapsed holds included.
Sell(s, u, t) ==
  /\ HeldBy(s, u, t)
  /\ ledger' = [ledger EXCEPT ![s] = Bare("sold")]
  /\ UNCHANGED <<granted, lapsed>>

\* GetSeatStatus: clears a hold that has run out.  The clearing write does not
\* look at the row it overwrites, so all that is promised is that SOME hold of
\* this seat has run out.
Clear(s) ==
  /\ \E h \in granted : h.seat = s /\ h.token \in lapsed
  /\ ledger' = [ledger EXCEPT ![s] = Bare("available")]
  /\ UNCHANGED <<granted, lapsed>>

\* Time passes and the holds in T reach their heldUntil.
Lapse(T) ==
  /\ T \subseteq {h.token : h \in granted}
  /\ lapsed' = lapsed \cup T
  /\ UNCHANGED <<ledger, granted>>

LedgerNext ==
  \/ \E S \in SUBSET Seats : AddSeats(S)
  \/ \E s \in Seats, u \in Users, t \in Tokens :
        Grant(s, u, t) \/ Release(s, u, t) \/ Sell(s, u, t)
  \/ \E s \in Seats : Clear(s)
  \/ \E T \in SUBSET Tokens : Lapse(T)

LedgerSpec == LedgerInit /\ [][LedgerNext]_ledgerVars
===============================================================================
