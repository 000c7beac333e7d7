-------------------------- MODULE SeatInventoryProofs --------------------------
(***************************************************************************)
(* Proofs of the safety properties of SeatInventory for any number of      *)
(* seats, users, tokens and threads and any durations.                     *)
(***************************************************************************)
EXTENDS SeatInventory, TLAPS

-------------------------------------------------------------------------------
(* Records and the three ways a thread moves. *)

\* Whatever its status, a row nobody holds is a row.
LEMMA BareType == \A st \in {"absent", "available", "held", "sold"} : Bare(st) \in Row
  BY DEF Bare, Row, Time

\* The empty request of an idle thread is a request.
LEMMA NoReqType == NoReq \in Request
  BY DEF NoReq, Req, Request, Time

\* The fields of a request have their types.
LEMMA RequestFields ==
  ASSUME NEW r \in Request
  PROVE  /\ r.seat \in Seats \cup {Null} /\ r.user \in Users \cup {Null}
         /\ r.token \in Tokens \cup {Null} /\ r.now \in Nat
  BY DEF Request, Time

\* A request put together from well-typed parts is one, and has those parts.
LEMMA ReqType ==
  ASSUME NEW s \in Seats \cup {Null}, NEW u \in Users \cup {Null},
         NEW t \in Tokens \cup {Null}, NEW n \in Nat
  PROVE  /\ Req(s, u, t, n) \in Request
         /\ Req(s, u, t, n).seat = s /\ Req(s, u, t, n).user = u
         /\ Req(s, u, t, n).token = t /\ Req(s, u, t, n).now = n
  BY DEF Req, Request, Time

\* The fields of Req and NoReq, whatever they are made of.
LEMMA ReqFields ==
  /\ \A s, u, t, n : /\ Req(s, u, t, n).seat = s /\ Req(s, u, t, n).user = u
                     /\ Req(s, u, t, n).token = t /\ Req(s, u, t, n).now = n
  /\ NoReq.seat = Null /\ NoReq.token = Null /\ NoReq.now = 0
  BY DEF Req, NoReq

\* A thread that answers is idle and well formed.
LEMMA RespondOK ==
  ASSUME ThreadsOK, NEW w \in Workers, Respond(w)
  PROVE  ThreadsOK'
  BY BareType, NoReqType DEF ThreadsOK, Respond, Pc, HolderPc

\* A thread that goes on keeps its request.
LEMMA GotoOK ==
  ASSUME ThreadsOK, NEW w \in Workers, NEW step \in Pc, Goto(w, step),
         pc[w] # "idle", step \in HolderPc => pc[w] \in HolderPc
  PROVE  ThreadsOK'
  BY DEF ThreadsOK, Goto

\* A thread that takes up a request has its seat, and what the step needs of it.
LEMMA AcceptOK ==
  ASSUME ThreadsOK, NEW w \in Workers, NEW step \in Pc, NEW r \in Request, Accept(w, step, r),
         read' \in [Workers -> Row], r.seat \in Seats,
         step \in HolderPc => r.user \in Users /\ r.token \in Tokens
  PROVE  ThreadsOK'
  BY DEF ThreadsOK, Accept

-------------------------------------------------------------------------------
(* Types. *)

\* Every handler keeps the table, Redis and its own variables well formed.
THEOREM TypeCorrect == Spec => []TypeOK
<1>1. Init => TypeOK
  <2>1. Init => ThreadsOK
    BY BareType, NoReqType DEF Init, ThreadsOK, Pc, HolderPc
  <2>2. QED
    BY <2>1, BareType DEF Init, TypeOK, DbOK, RedisOK, HistoryOK, Time
<1>2. TypeOK /\ [Next]_vars => TypeOK'
  <2> SUFFICES ASSUME TypeOK, [Next]_vars PROVE TypeOK'
    OBVIOUS
  <2> USE DEF TypeOK, dbVars, redisVars, threads, history
  <2>1. ASSUME NEW S \in SUBSET Seats, create_inventory_batch(S) PROVE TypeOK'
    BY <2>1, BareType DEF create_inventory_batch, DbOK, RedisOK, ThreadsOK, HistoryOK
  <2>2. ASSUME NEW w \in Workers, NEW s \in Seats, NEW u \in Users, HoldSeat(w, s, u)
        PROVE TypeOK'
    <3>1. PICK t \in Tokens : Accept(w, "hold_lock", Req(s, u, t, clock))
      BY <2>2 DEF HoldSeat
    <3>2. ThreadsOK'
      BY <2>2, <3>1, ReqType, AcceptOK DEF HoldSeat, ThreadsOK, Time, Pc, HolderPc
    <3>3. QED
      BY <2>2, <3>2 DEF HoldSeat, DbOK, RedisOK, HistoryOK
  <2>3. ASSUME NEW w \in Workers, HoldLock(w) PROVE TypeOK'
    <3>1. ThreadsOK'
      BY <2>3, GotoOK, RespondOK DEF HoldLock, Pc, HolderPc
    <3>2. lock' \in [Seats -> Workers \cup {Null}]
      BY <2>3 DEF HoldLock, DbOK
    <3>3. cache' \in [Seats -> CacheEntry \cup {Null}]
      BY <2>3 DEF HoldLock, RedisOK, delete_hold_cache
    <3>4. QED
      BY <2>3, <3>1, <3>2, <3>3 DEF HoldLock, DbOK, RedisOK, HistoryOK
  <2>4. ASSUME NEW w \in Workers, HoldUpdate(w) PROVE TypeOK'
    <3> DEFINE s == req[w].seat
               u == req[w].user
               t == req[w].token
               until == req[w].now + HoldSeconds
    <3>1. s \in Seats /\ u \in Users /\ t \in Tokens /\ until \in Nat
      BY <2>4, RequestFields, TimeAssumption DEF HoldUpdate, ThreadsOK, HolderPc
    <3>2. ThreadsOK'
      BY <2>4, GotoOK DEF HoldUpdate, Pc, HolderPc
    <3>3. [status |-> "held", heldByUserId |-> u, holdToken |-> t, heldUntil |-> until] \in Row
      BY <3>1 DEF Row, Time
    <3>4. [seat |-> s, user |-> u, token |-> t, until |-> until] \in Grant
      BY <3>1 DEF Grant, Time
    <3>5. DbOK'
      BY <2>4, <3>1, <3>3 DEF HoldUpdate, DbOK
    <3>6. HistoryOK'
      BY <2>4, <3>4 DEF HoldUpdate, HistoryOK
    <3>7. QED
      BY <2>4, <3>2, <3>5, <3>6 DEF HoldUpdate, RedisOK
  <2>5. ASSUME NEW w \in Workers, DbError(w) PROVE TypeOK'
    <3>1. ThreadsOK'
      BY <2>5, GotoOK, RespondOK DEF DbError, Pc, HolderPc
    <3>2. QED
      BY <2>5, <3>1 DEF DbError, DbOK, RedisOK, HistoryOK
  <2>6. ASSUME NEW w \in Workers, HoldRetry(w) PROVE TypeOK'
    <3>1. ThreadsOK'
      BY <2>6, ReqType DEF HoldRetry, ThreadsOK, Pc, HolderPc, Time
    <3>2. QED
      BY <2>6, <3>1 DEF HoldRetry, DbOK, RedisOK, HistoryOK
  <2>7. ASSUME NEW w \in Workers, HoldCache(w) PROVE TypeOK'
    <3>1. ThreadsOK'
      BY <2>7, RespondOK DEF HoldCache
    <3>2. req[w].user \in Users /\ req[w].token \in Tokens /\ req[w].now \in Nat
      BY <2>7, RequestFields DEF HoldCache, ThreadsOK, HolderPc
    <3>3. [heldByUserId |-> req[w].user, holdToken |-> req[w].token,
           heldUntil |-> req[w].now + HoldSeconds, expires |-> clock + HoldSeconds] \in CacheEntry
      BY <3>2, TimeAssumption DEF CacheEntry, Time
    <3>4. cache' \in [Seats -> CacheEntry \cup {Null}]
      BY <2>7, <3>3 DEF HoldCache, write_hold_cache, RedisOK
    <3>5. QED
      BY <2>7, <3>1, <3>4 DEF HoldCache, DbOK, RedisOK, HistoryOK
  <2>8. ASSUME NEW w \in Workers, NEW s \in Seats, NEW u \in Users, ReleaseSeat(w, s, u)
        PROVE TypeOK'
    <3>1. PICK g \in grants : Accept(w, "rel_check", Req(s, u, g.token, 0))
      BY <2>8 DEF ReleaseSeat
    <3>2. g.token \in Tokens
      BY DEF HistoryOK, Grant
    <3>3. ThreadsOK'
      BY <2>8, <3>1, <3>2, ReqType, AcceptOK DEF ReleaseSeat, ThreadsOK, Pc, HolderPc
    <3>4. QED
      BY <2>8, <3>3 DEF ReleaseSeat, DbOK, RedisOK, HistoryOK
  <2>9. ASSUME NEW w \in Workers, ReleaseCheck(w) PROVE TypeOK'
    <3>1. ThreadsOK'
      BY <2>9, GotoOK, RespondOK DEF ReleaseCheck, Pc, HolderPc
    <3>2. QED
      BY <2>9, <3>1 DEF ReleaseCheck, DbOK, RedisOK, HistoryOK
  <2>10. ASSUME NEW w \in Workers, ReleaseTxn(w) PROVE TypeOK'
    <3>1. ThreadsOK'
      BY <2>10, GotoOK DEF ReleaseTxn, Pc, HolderPc
    <3>2. row' \in [Seats -> Row]
      BY <2>10, BareType DEF ReleaseTxn, clear_hold, DbOK
    <3>3. released' \subseteq Tokens
      BY <2>10 DEF ReleaseTxn, HistoryOK, ThreadsOK, HolderPc
    <3>4. QED
      BY <2>10, <3>1, <3>2, <3>3 DEF ReleaseTxn, DbOK, RedisOK, HistoryOK
  <2>11. ASSUME NEW w \in Workers, ReleaseResult(w) PROVE TypeOK'
    <3>1. ThreadsOK'
      BY <2>11, RespondOK DEF ReleaseResult
    <3>2. [success |-> (pc[w] = "rel_done"), expires |-> clock + IdempotencySeconds] \in Result
      BY TimeAssumption DEF Result, Time
    <3>3. idempotent' \in [Seats \X Tokens -> Result \cup {Null}]
      BY <2>11, <3>2 DEF ReleaseResult, cache_idempotency_result, RedisOK
    <3>4. QED
      BY <2>11, <3>1, <3>3 DEF ReleaseResult, DbOK, RedisOK, HistoryOK
  <2>12. ASSUME NEW w \in Workers, NEW s \in Seats, NEW u \in Users, SellSeat(w, s, u)
        PROVE TypeOK'
    <3>1. PICK g \in grants : Accept(w, "sell_txn", Req(s, u, g.token, 0))
      BY <2>12 DEF SellSeat
    <3>2. g.token \in Tokens
      BY DEF HistoryOK, Grant
    <3>3. ThreadsOK'
      BY <2>12, <3>1, <3>2, ReqType, AcceptOK DEF SellSeat, ThreadsOK, Pc, HolderPc
    <3>4. QED
      BY <2>12, <3>3 DEF SellSeat, DbOK, RedisOK, HistoryOK
  <2>13. ASSUME NEW w \in Workers, SellTxn(w) PROVE TypeOK'
    <3>1. ThreadsOK'
      BY <2>13, GotoOK, RespondOK DEF SellTxn, Pc, HolderPc
    <3>2. row' \in [Seats -> Row]
      BY <2>13, BareType DEF SellTxn, DbOK
    <3>3. sales' \in [Seats -> SUBSET Tokens]
      BY <2>13 DEF SellTxn, HistoryOK, ThreadsOK, HolderPc
    <3>4. QED
      BY <2>13, <3>1, <3>2, <3>3 DEF SellTxn, DbOK, RedisOK, HistoryOK
  <2>14. ASSUME NEW w \in Workers, NEW s \in Seats, GetSeatStatus(w, s) PROVE TypeOK'
    <3>1. read' \in [Workers -> Row]
      BY <2>14 DEF GetSeatStatus, ThreadsOK, DbOK
    <3>2. ThreadsOK'
      BY <2>14, <3>1, ReqType, AcceptOK DEF GetSeatStatus, Pc, HolderPc
    <3>3. QED
      BY <2>14, <3>2 DEF GetSeatStatus, DbOK, RedisOK, HistoryOK
  <2>15. ASSUME NEW w \in Workers, GetDecide(w) PROVE TypeOK'
    <3>1. ThreadsOK'
      BY <2>15, GotoOK, RespondOK DEF GetDecide, Pc, HolderPc
    <3>2. row' \in [Seats -> Row]
      BY <2>15, BareType DEF GetDecide, clear_hold, DbOK
    <3>3. overwritten' \subseteq Seats
      BY <2>15 DEF GetDecide, HistoryOK, ThreadsOK
    <3>4. QED
      BY <2>15, <3>1, <3>2, <3>3 DEF GetDecide, DbOK, RedisOK, HistoryOK
  <2>16. ASSUME NEW w \in Workers, DeleteCache(w) PROVE TypeOK'
    <3>1. ThreadsOK'
      BY <2>16, GotoOK, RespondOK DEF DeleteCache, Pc, HolderPc
    <3>2. QED
      BY <2>16, <3>1 DEF DeleteCache, delete_hold_cache, DbOK, RedisOK, HistoryOK
  <2>17. ASSUME Tick PROVE TypeOK'
    BY <2>17 DEF Tick, DbOK, RedisOK, ThreadsOK, HistoryOK, Time
  <2>18. ASSUME UNCHANGED vars PROVE TypeOK'
    BY <2>18 DEF vars, DbOK, RedisOK, ThreadsOK, HistoryOK
  <2>19. QED
    BY <2>1, <2>2, <2>3, <2>4, <2>5, <2>6, <2>7, <2>8, <2>9, <2>10, <2>11, <2>12, <2>13,
       <2>14, <2>15, <2>16, <2>17, <2>18 DEF Next, Call, Step
<1>3. QED
  BY <1>1, <1>2, PTL DEF Spec

-------------------------------------------------------------------------------
(* Row locks and clocks. *)

\* A row lock belongs to the HoldSeat thread that is between SELECT ... FOR UPDATE
\* and COMMIT on that row, and such a thread has the lock.
LockInv ==
  /\ \A s \in Seats : lock[s] # Null =>
        lock[s] \in Workers /\ pc[lock[s]] = "hold_update" /\ req[lock[s]].seat = s
  /\ \A w \in Workers : pc[w] = "hold_update" => lock[req[w].seat] = w

\* A thread's idea of the time is never ahead of the clock.
ClockInv == \A w \in Workers : req[w].now <= clock

\* The row lock belongs to the one HoldSeat thread between SELECT ... FOR UPDATE and
\* COMMIT: every step keeps it so, rollbacks included.
LEMMA LockStep ==
  ASSUME TypeOK, LockInv, Next
  PROVE  LockInv'
<1> USE NullAssumption DEF TypeOK, LockInv, DbOK, ThreadsOK, dbVars, redisVars, threads, history
<1>1. ASSUME NEW S \in SUBSET Seats, create_inventory_batch(S) PROVE LockInv'
  BY <1>1 DEF create_inventory_batch
<1>2. ASSUME NEW w \in Workers, NEW s \in Seats, NEW u \in Users, HoldSeat(w, s, u) PROVE LockInv'
  BY <1>2 DEF HoldSeat, Accept
<1>3. ASSUME NEW w \in Workers, HoldLock(w) PROVE LockInv'
  BY <1>3 DEF HoldLock, Goto, Respond
<1>4. ASSUME NEW w \in Workers, HoldUpdate(w) PROVE LockInv'
  BY <1>4 DEF HoldUpdate, Goto
<1>5. ASSUME NEW w \in Workers, DbError(w) PROVE LockInv'
  BY <1>5 DEF DbError, Goto, Respond
<1>6. ASSUME NEW w \in Workers, HoldRetry(w) PROVE LockInv'
  BY <1>6 DEF HoldRetry
<1>7. ASSUME NEW w \in Workers, HoldCache(w) PROVE LockInv'
  BY <1>7 DEF HoldCache, Respond
<1>8. ASSUME NEW w \in Workers, NEW s \in Seats, NEW u \in Users, ReleaseSeat(w, s, u) PROVE LockInv'
  BY <1>8 DEF ReleaseSeat, Accept
<1>9. ASSUME NEW w \in Workers, ReleaseCheck(w) PROVE LockInv'
  BY <1>9 DEF ReleaseCheck, Goto, Respond
<1>10. ASSUME NEW w \in Workers, ReleaseTxn(w) PROVE LockInv'
  BY <1>10 DEF ReleaseTxn, Goto
<1>11. ASSUME NEW w \in Workers, ReleaseResult(w) PROVE LockInv'
  BY <1>11 DEF ReleaseResult, Respond
<1>12. ASSUME NEW w \in Workers, NEW s \in Seats, NEW u \in Users, SellSeat(w, s, u) PROVE LockInv'
  BY <1>12 DEF SellSeat, Accept
<1>13. ASSUME NEW w \in Workers, SellTxn(w) PROVE LockInv'
  BY <1>13 DEF SellTxn, Goto, Respond
<1>14. ASSUME NEW w \in Workers, NEW s \in Seats, GetSeatStatus(w, s) PROVE LockInv'
  BY <1>14 DEF GetSeatStatus, Accept
<1>15. ASSUME NEW w \in Workers, GetDecide(w) PROVE LockInv'
  BY <1>15 DEF GetDecide, Goto, Respond
<1>16. ASSUME NEW w \in Workers, DeleteCache(w) PROVE LockInv'
  BY <1>16 DEF DeleteCache, Goto, Respond
<1>17. ASSUME Tick PROVE LockInv'
  BY <1>17 DEF Tick
<1>18. QED
  BY <1>1, <1>2, <1>3, <1>4, <1>5, <1>6, <1>7, <1>8, <1>9, <1>10, <1>11, <1>12, <1>13,
     <1>14, <1>15, <1>16, <1>17 DEF Next, Call, Step

\* No thread carries a time that has not come yet: the clock only grows.
LEMMA ClockStep ==
  ASSUME TypeOK, ClockInv, Next
  PROVE  ClockInv'
<1> USE TimeAssumption, RequestFields, ReqFields DEF TypeOK, ClockInv, ThreadsOK, Time, dbVars, redisVars, threads, history
<1>1. ASSUME NEW S \in SUBSET Seats, create_inventory_batch(S) PROVE ClockInv'
  BY <1>1 DEF create_inventory_batch
<1>2. ASSUME NEW w \in Workers, NEW s \in Seats, NEW u \in Users, HoldSeat(w, s, u)
        PROVE ClockInv'
  BY <1>2 DEF HoldSeat, Accept
<1>3. ASSUME NEW w \in Workers, HoldLock(w) PROVE ClockInv'
  BY <1>3 DEF HoldLock, Goto, Respond
<1>4. ASSUME NEW w \in Workers, HoldUpdate(w) PROVE ClockInv'
  BY <1>4 DEF HoldUpdate, Goto
<1>5. ASSUME NEW w \in Workers, DbError(w) PROVE ClockInv'
  BY <1>5 DEF DbError, Goto, Respond
<1>6. ASSUME NEW w \in Workers, HoldRetry(w) PROVE ClockInv'
  BY <1>6 DEF HoldRetry
<1>7. ASSUME NEW w \in Workers, HoldCache(w) PROVE ClockInv'
  BY <1>7 DEF HoldCache, Respond
<1>8. ASSUME NEW w \in Workers, NEW s \in Seats, NEW u \in Users, ReleaseSeat(w, s, u)
        PROVE ClockInv'
  BY <1>8 DEF ReleaseSeat, Accept
<1>9. ASSUME NEW w \in Workers, ReleaseCheck(w) PROVE ClockInv'
  BY <1>9 DEF ReleaseCheck, Goto, Respond
<1>10. ASSUME NEW w \in Workers, ReleaseTxn(w) PROVE ClockInv'
  BY <1>10 DEF ReleaseTxn, Goto
<1>11. ASSUME NEW w \in Workers, ReleaseResult(w) PROVE ClockInv'
  BY <1>11 DEF ReleaseResult, Respond
<1>12. ASSUME NEW w \in Workers, NEW s \in Seats, NEW u \in Users, SellSeat(w, s, u)
        PROVE ClockInv'
  BY <1>12 DEF SellSeat, Accept
<1>13. ASSUME NEW w \in Workers, SellTxn(w) PROVE ClockInv'
  BY <1>13 DEF SellTxn, Goto, Respond
<1>14. ASSUME NEW w \in Workers, NEW s \in Seats, GetSeatStatus(w, s) PROVE ClockInv'
  BY <1>14 DEF GetSeatStatus, Accept
<1>15. ASSUME NEW w \in Workers, GetDecide(w) PROVE ClockInv'
  BY <1>15 DEF GetDecide, Goto, Respond
<1>16. ASSUME NEW w \in Workers, DeleteCache(w) PROVE ClockInv'
  BY <1>16 DEF DeleteCache, Goto, Respond
<1>17. ASSUME Tick PROVE ClockInv'
  BY <1>17 DEF Tick
<1>18. QED
  BY <1>1, <1>2, <1>3, <1>4, <1>5, <1>6, <1>7, <1>8, <1>9, <1>10, <1>11, <1>12, <1>13,
     <1>14, <1>15, <1>16, <1>17 DEF Next, Call, Step


-------------------------------------------------------------------------------
(* Hold tokens. *)

\* The steps at which a HoldSeat thread carries a token nobody has been told of.
Pending == {"hold_retry", "hold_lock", "hold_update"}

\* Tokens are never reused: no two grants share one, and the token of a pending
\* HoldSeat is in no grant and with no other thread.
TokenInv ==
  /\ \A g, h \in grants : g.token = h.token => g = h
  /\ \A w \in Workers : pc[w] \in Pending =>
       /\ \A g \in grants : g.token # req[w].token
       /\ \A v \in Workers : v # w => req[v].token # req[w].token

\* uuid4 tokens stay unique: a token being tried is in no grant, and no two threads
\* try the same one.
LEMMA TokenStep ==
  ASSUME TypeOK, TokenInv, Next
  PROVE  TokenInv'
<1> USE NullAssumption, ReqFields DEF TypeOK, TokenInv, ThreadsOK, HolderPc, Pending, dbVars, redisVars, threads, history
<1>1. ASSUME NEW S \in SUBSET Seats, create_inventory_batch(S) PROVE TokenInv'
  BY <1>1 DEF create_inventory_batch
<1>2. ASSUME NEW w \in Workers, NEW s \in Seats, NEW u \in Users, HoldSeat(w, s, u)
        PROVE TokenInv'
  BY <1>2 DEF HoldSeat, Accept, Fresh
<1>3. ASSUME NEW w \in Workers, HoldLock(w) PROVE TokenInv'
  BY <1>3 DEF HoldLock, Goto, Respond
<1>4. ASSUME NEW w \in Workers, HoldUpdate(w) PROVE TokenInv'
  BY <1>4 DEF HoldUpdate, Goto
<1>5. ASSUME NEW w \in Workers, DbError(w) PROVE TokenInv'
  BY <1>5 DEF DbError, Goto, Respond
<1>6. ASSUME NEW w \in Workers, HoldRetry(w) PROVE TokenInv'
  BY <1>6 DEF HoldRetry
<1>7. ASSUME NEW w \in Workers, HoldCache(w) PROVE TokenInv'
  BY <1>7 DEF HoldCache, Respond
<1>8. ASSUME NEW w \in Workers, NEW s \in Seats, NEW u \in Users, ReleaseSeat(w, s, u)
        PROVE TokenInv'
  BY <1>8 DEF ReleaseSeat, Accept
<1>9. ASSUME NEW w \in Workers, ReleaseCheck(w) PROVE TokenInv'
  BY <1>9 DEF ReleaseCheck, Goto, Respond
<1>10. ASSUME NEW w \in Workers, ReleaseTxn(w) PROVE TokenInv'
  BY <1>10 DEF ReleaseTxn, Goto
<1>11. ASSUME NEW w \in Workers, ReleaseResult(w) PROVE TokenInv'
  BY <1>11 DEF ReleaseResult, Respond
<1>12. ASSUME NEW w \in Workers, NEW s \in Seats, NEW u \in Users, SellSeat(w, s, u)
        PROVE TokenInv'
  BY <1>12 DEF SellSeat, Accept
<1>13. ASSUME NEW w \in Workers, SellTxn(w) PROVE TokenInv'
  BY <1>13 DEF SellTxn, Goto, Respond
<1>14. ASSUME NEW w \in Workers, NEW s \in Seats, GetSeatStatus(w, s) PROVE TokenInv'
  BY <1>14 DEF GetSeatStatus, Accept
<1>15. ASSUME NEW w \in Workers, GetDecide(w) PROVE TokenInv'
  BY <1>15 DEF GetDecide, Goto, Respond
<1>16. ASSUME NEW w \in Workers, DeleteCache(w) PROVE TokenInv'
  BY <1>16 DEF DeleteCache, Goto, Respond
<1>17. ASSUME Tick PROVE TokenInv'
  BY <1>17 DEF Tick
<1>18. QED
  BY <1>1, <1>2, <1>3, <1>4, <1>5, <1>6, <1>7, <1>8, <1>9, <1>10, <1>11, <1>12, <1>13,
     <1>14, <1>15, <1>16, <1>17 DEF Next, Call, Step


-------------------------------------------------------------------------------
(* Rows, what GetSeatStatus read, and the hold cache. *)

\* The grant a row seen on seat s stands for.
HoldOf(s, r) == [seat |-> s, user |-> r.heldByUserId, token |-> r.holdToken, until |-> r.heldUntil]

\* A held row is one of the grants; any other row has no holder left in it.
RowInv ==
  \A s \in Seats : IF row[s].status = "held" THEN HoldOf(s, row[s]) \in grants
                                             ELSE row[s] = Bare(row[s].status)

\* The row a HoldSeat thread has locked is free, or its hold has run out: nobody
\* else writes it before the thread commits.
UpdateInv ==
  \A w \in Workers : pc[w] = "hold_update" =>
     \/ row[req[w].seat].status = "available"
     \/ row[req[w].seat].status = "held" /\ row[req[w].seat].heldUntil <= clock

\* A held row that GetSeatStatus read was a grant on that seat.
ReadInv ==
  \A w \in Workers : pc[w] = "get_decide" /\ read[w].status = "held" =>
     HoldOf(req[w].seat, read[w]) \in grants

\* A HoldSeat thread about to write the cache has committed its grant.
CacheInv ==
  /\ CacheAuthentic
  /\ \A w \in Workers : pc[w] = "hold_cache" =>
       [seat |-> req[w].seat, user |-> req[w].user, token |-> req[w].token,
        until |-> req[w].now + HoldSeconds] \in grants

\* Setting a row's fields one by one gives the grant it stands for.
LEMMA HoldOfHeld ==
  ASSUME NEW s, NEW u, NEW t, NEW n
  PROVE  LET r == [status |-> "held", heldByUserId |-> u, holdToken |-> t, heldUntil |-> n]
         IN  /\ HoldOf(s, r) = [seat |-> s, user |-> u, token |-> t, until |-> n]
             /\ r.status = "held"
  BY DEF HoldOf

\* The columns of a row nobody holds are NULL.
LEMMA BareFields ==
  \A st : /\ Bare(st).status = st /\ Bare(st).holdToken = Null
          /\ Bare(st).heldByUserId = Null /\ Bare(st).heldUntil = 0
  BY DEF Bare

\* Whoever writes the row, a held row is a committed grant.
LEMMA RowStep ==
  ASSUME TypeOK, RowInv, Next
  PROVE  RowInv'
<1> USE BareFields DEF TypeOK, RowInv, DbOK, ThreadsOK, HolderPc, dbVars, redisVars, threads, history
<1>1. ASSUME NEW S \in SUBSET Seats, create_inventory_batch(S) PROVE RowInv'
  BY <1>1 DEF create_inventory_batch
<1>2. ASSUME NEW w \in Workers, NEW s \in Seats, NEW u \in Users, HoldSeat(w, s, u)
        PROVE RowInv'
  BY <1>2 DEF HoldSeat, Accept
<1>3. ASSUME NEW w \in Workers, HoldLock(w) PROVE RowInv'
  BY <1>3 DEF HoldLock, Goto, Respond
<1>4. ASSUME NEW w \in Workers, HoldUpdate(w) PROVE RowInv'
  <2>1. req[w].seat \in Seats
    BY <1>4 DEF HoldUpdate
  <2>2. HoldOf(req[w].seat, row'[req[w].seat]) \in grants' /\ row'[req[w].seat].status = "held"
    BY <1>4, <2>1, HoldOfHeld DEF HoldUpdate
  <2>3. \A s \in Seats \ {req[w].seat} : row'[s] = row[s]
    BY <1>4 DEF HoldUpdate
  <2>4. grants \subseteq grants'
    BY <1>4 DEF HoldUpdate
  <2>5. QED
    BY <2>1, <2>2, <2>3, <2>4
<1>5. ASSUME NEW w \in Workers, DbError(w) PROVE RowInv'
  BY <1>5 DEF DbError, Goto, Respond
<1>6. ASSUME NEW w \in Workers, HoldRetry(w) PROVE RowInv'
  BY <1>6 DEF HoldRetry
<1>7. ASSUME NEW w \in Workers, HoldCache(w) PROVE RowInv'
  BY <1>7 DEF HoldCache, Respond
<1>8. ASSUME NEW w \in Workers, NEW s \in Seats, NEW u \in Users, ReleaseSeat(w, s, u)
        PROVE RowInv'
  BY <1>8 DEF ReleaseSeat, Accept
<1>9. ASSUME NEW w \in Workers, ReleaseCheck(w) PROVE RowInv'
  BY <1>9 DEF ReleaseCheck, Goto, Respond
<1>10. ASSUME NEW w \in Workers, ReleaseTxn(w) PROVE RowInv'
  BY <1>10 DEF ReleaseTxn, Goto, clear_hold
<1>11. ASSUME NEW w \in Workers, ReleaseResult(w) PROVE RowInv'
  BY <1>11 DEF ReleaseResult, Respond
<1>12. ASSUME NEW w \in Workers, NEW s \in Seats, NEW u \in Users, SellSeat(w, s, u)
        PROVE RowInv'
  BY <1>12 DEF SellSeat, Accept
<1>13. ASSUME NEW w \in Workers, SellTxn(w) PROVE RowInv'
  BY <1>13 DEF SellTxn, Goto, Respond
<1>14. ASSUME NEW w \in Workers, NEW s \in Seats, GetSeatStatus(w, s) PROVE RowInv'
  BY <1>14 DEF GetSeatStatus, Accept
<1>15. ASSUME NEW w \in Workers, GetDecide(w) PROVE RowInv'
  BY <1>15 DEF GetDecide, Goto, Respond, clear_hold
<1>16. ASSUME NEW w \in Workers, DeleteCache(w) PROVE RowInv'
  BY <1>16 DEF DeleteCache, Goto, Respond
<1>17. ASSUME Tick PROVE RowInv'
  BY <1>17 DEF Tick
<1>18. QED
  BY <1>1, <1>2, <1>3, <1>4, <1>5, <1>6, <1>7, <1>8, <1>9, <1>10, <1>11, <1>12, <1>13,
     <1>14, <1>15, <1>16, <1>17 DEF Next, Call, Step

\* A HoldSeat thread that holds the lock still finds the row free or lapsed when it
\* writes: no other handler writes a locked row.
LEMMA UpdateStep ==
  ASSUME TypeOK, LockInv, ClockInv, UpdateInv, Next
  PROVE  UpdateInv'
<1> USE NullAssumption, BareFields DEF TypeOK, UpdateInv, DbOK, ThreadsOK, HolderPc, dbVars, redisVars, threads, history
<1>1. ASSUME NEW S \in SUBSET Seats, create_inventory_batch(S) PROVE UpdateInv'
  BY <1>1 DEF create_inventory_batch
<1>2. ASSUME NEW w \in Workers, NEW s \in Seats, NEW u \in Users, HoldSeat(w, s, u)
        PROVE UpdateInv'
  BY <1>2 DEF HoldSeat, Accept
<1>3. ASSUME NEW w \in Workers, HoldLock(w) PROVE UpdateInv'
  <2>1. req[w].seat \in Seats /\ req[w].now \in Nat /\ req[w].now <= clock
    BY <1>3, RequestFields DEF HoldLock, ClockInv
  <2>2. row[req[w].seat].heldUntil \in Nat /\ clock \in Nat
    BY <2>1 DEF Row, Time
  <2>3. pc'[w] = "hold_update" =>
          \/ row[req[w].seat].status = "available"
          \/ row[req[w].seat].status = "held" /\ row[req[w].seat].heldUntil <= clock
    BY <1>3, <2>1, <2>2 DEF HoldLock, Goto, Respond, hold_has_expired
  <2>4. /\ row' = row /\ clock' = clock
        /\ \A v \in Workers : v # w => pc'[v] = pc[v] /\ req'[v] = req[v]
        /\ pc'[w] = "hold_update" => req'[w] = req[w]
    BY <1>3 DEF HoldLock, Goto, Respond
  <2>5. QED
    BY <2>3, <2>4
<1>4. ASSUME NEW w \in Workers, HoldUpdate(w) PROVE UpdateInv'
  BY <1>4 DEF HoldUpdate, Goto, LockInv
<1>5. ASSUME NEW w \in Workers, DbError(w) PROVE UpdateInv'
  BY <1>5 DEF DbError, Goto, Respond
<1>6. ASSUME NEW w \in Workers, HoldRetry(w) PROVE UpdateInv'
  BY <1>6 DEF HoldRetry
<1>7. ASSUME NEW w \in Workers, HoldCache(w) PROVE UpdateInv'
  BY <1>7 DEF HoldCache, Respond
<1>8. ASSUME NEW w \in Workers, NEW s \in Seats, NEW u \in Users, ReleaseSeat(w, s, u)
        PROVE UpdateInv'
  BY <1>8 DEF ReleaseSeat, Accept
<1>9. ASSUME NEW w \in Workers, ReleaseCheck(w) PROVE UpdateInv'
  BY <1>9 DEF ReleaseCheck, Goto, Respond
<1>10. ASSUME NEW w \in Workers, ReleaseTxn(w) PROVE UpdateInv'
  BY <1>10 DEF ReleaseTxn, Goto, clear_hold
<1>11. ASSUME NEW w \in Workers, ReleaseResult(w) PROVE UpdateInv'
  BY <1>11 DEF ReleaseResult, Respond
<1>12. ASSUME NEW w \in Workers, NEW s \in Seats, NEW u \in Users, SellSeat(w, s, u)
        PROVE UpdateInv'
  BY <1>12 DEF SellSeat, Accept
<1>13. ASSUME NEW w \in Workers, SellTxn(w) PROVE UpdateInv'
  BY <1>13 DEF SellTxn, Goto, Respond, LockInv
<1>14. ASSUME NEW w \in Workers, NEW s \in Seats, GetSeatStatus(w, s) PROVE UpdateInv'
  BY <1>14 DEF GetSeatStatus, Accept
<1>15. ASSUME NEW w \in Workers, GetDecide(w) PROVE UpdateInv'
  BY <1>15 DEF GetDecide, Goto, Respond, clear_hold
<1>16. ASSUME NEW w \in Workers, DeleteCache(w) PROVE UpdateInv'
  BY <1>16 DEF DeleteCache, Goto, Respond
<1>17. ASSUME Tick PROVE UpdateInv'
  <2>1. clock <= clock' /\ row' = row /\ pc' = pc /\ req' = req
    BY <1>17 DEF Tick, Time
  <2>2. \A s \in Seats : row[s].heldUntil \in Nat /\ clock \in Nat /\ clock' \in Nat
    BY <1>17 DEF Tick, Row, Time
  <2>3. QED
    BY <2>1, <2>2
<1>18. QED
  BY <1>1, <1>2, <1>3, <1>4, <1>5, <1>6, <1>7, <1>8, <1>9, <1>10, <1>11, <1>12, <1>13,
     <1>14, <1>15, <1>16, <1>17 DEF Next, Call, Step

\* What GetSeatStatus has read, however long ago, was a committed grant if it was held.
LEMMA ReadStep ==
  ASSUME TypeOK, RowInv, ReadInv, Next
  PROVE  ReadInv'
<1> USE ReqFields, BareFields DEF TypeOK, ReadInv, ThreadsOK, HolderPc, dbVars, redisVars, threads, history
<1>1. ASSUME NEW S \in SUBSET Seats, create_inventory_batch(S) PROVE ReadInv'
  BY <1>1 DEF create_inventory_batch
<1>2. ASSUME NEW w \in Workers, NEW s \in Seats, NEW u \in Users, HoldSeat(w, s, u)
        PROVE ReadInv'
  BY <1>2 DEF HoldSeat, Accept
<1>3. ASSUME NEW w \in Workers, HoldLock(w) PROVE ReadInv'
  BY <1>3 DEF HoldLock, Goto, Respond
<1>4. ASSUME NEW w \in Workers, HoldUpdate(w) PROVE ReadInv'
  BY <1>4 DEF HoldUpdate, Goto
<1>5. ASSUME NEW w \in Workers, DbError(w) PROVE ReadInv'
  BY <1>5 DEF DbError, Goto, Respond
<1>6. ASSUME NEW w \in Workers, HoldRetry(w) PROVE ReadInv'
  BY <1>6 DEF HoldRetry
<1>7. ASSUME NEW w \in Workers, HoldCache(w) PROVE ReadInv'
  BY <1>7 DEF HoldCache, Respond
<1>8. ASSUME NEW w \in Workers, NEW s \in Seats, NEW u \in Users, ReleaseSeat(w, s, u)
        PROVE ReadInv'
  BY <1>8 DEF ReleaseSeat, Accept
<1>9. ASSUME NEW w \in Workers, ReleaseCheck(w) PROVE ReadInv'
  BY <1>9 DEF ReleaseCheck, Goto, Respond
<1>10. ASSUME NEW w \in Workers, ReleaseTxn(w) PROVE ReadInv'
  BY <1>10 DEF ReleaseTxn, Goto
<1>11. ASSUME NEW w \in Workers, ReleaseResult(w) PROVE ReadInv'
  BY <1>11 DEF ReleaseResult, Respond
<1>12. ASSUME NEW w \in Workers, NEW s \in Seats, NEW u \in Users, SellSeat(w, s, u)
        PROVE ReadInv'
  BY <1>12 DEF SellSeat, Accept
<1>13. ASSUME NEW w \in Workers, SellTxn(w) PROVE ReadInv'
  BY <1>13 DEF SellTxn, Goto, Respond
<1>14. ASSUME NEW w \in Workers, NEW s \in Seats, GetSeatStatus(w, s) PROVE ReadInv'
  BY <1>14 DEF GetSeatStatus, Accept, RowInv, DbOK
<1>15. ASSUME NEW w \in Workers, GetDecide(w) PROVE ReadInv'
  BY <1>15 DEF GetDecide, Goto, Respond
<1>16. ASSUME NEW w \in Workers, DeleteCache(w) PROVE ReadInv'
  BY <1>16 DEF DeleteCache, Goto, Respond
<1>17. ASSUME Tick PROVE ReadInv'
  BY <1>17 DEF Tick
<1>18. QED
  BY <1>1, <1>2, <1>3, <1>4, <1>5, <1>6, <1>7, <1>8, <1>9, <1>10, <1>11, <1>12, <1>13,
     <1>14, <1>15, <1>16, <1>17 DEF Next, Call, Step

\* A thread about to write hold:{s} writes a committed grant, and so does every entry
\* already there stay one.
LEMMA CacheStep ==
  ASSUME TypeOK, CacheInv, Next
  PROVE  CacheInv'
<1> USE ReqFields DEF TypeOK, CacheInv, CacheAuthentic, RedisOK, ThreadsOK, HolderPc, dbVars, redisVars, threads, history
<1>1. ASSUME NEW S \in SUBSET Seats, create_inventory_batch(S) PROVE CacheInv'
  BY <1>1 DEF create_inventory_batch
<1>2. ASSUME NEW w \in Workers, NEW s \in Seats, NEW u \in Users, HoldSeat(w, s, u)
        PROVE CacheInv'
  BY <1>2 DEF HoldSeat, Accept
<1>3. ASSUME NEW w \in Workers, HoldLock(w) PROVE CacheInv'
  BY <1>3 DEF HoldLock, Goto, Respond, delete_hold_cache
<1>4. ASSUME NEW w \in Workers, HoldUpdate(w) PROVE CacheInv'
  BY <1>4 DEF HoldUpdate, Goto
<1>5. ASSUME NEW w \in Workers, DbError(w) PROVE CacheInv'
  BY <1>5 DEF DbError, Goto, Respond
<1>6. ASSUME NEW w \in Workers, HoldRetry(w) PROVE CacheInv'
  BY <1>6 DEF HoldRetry
<1>7. ASSUME NEW w \in Workers, HoldCache(w) PROVE CacheInv'
  BY <1>7 DEF HoldCache, Respond, write_hold_cache
<1>8. ASSUME NEW w \in Workers, NEW s \in Seats, NEW u \in Users, ReleaseSeat(w, s, u)
        PROVE CacheInv'
  BY <1>8 DEF ReleaseSeat, Accept
<1>9. ASSUME NEW w \in Workers, ReleaseCheck(w) PROVE CacheInv'
  BY <1>9 DEF ReleaseCheck, Goto, Respond
<1>10. ASSUME NEW w \in Workers, ReleaseTxn(w) PROVE CacheInv'
  BY <1>10 DEF ReleaseTxn, Goto
<1>11. ASSUME NEW w \in Workers, ReleaseResult(w) PROVE CacheInv'
  BY <1>11 DEF ReleaseResult, Respond
<1>12. ASSUME NEW w \in Workers, NEW s \in Seats, NEW u \in Users, SellSeat(w, s, u)
        PROVE CacheInv'
  BY <1>12 DEF SellSeat, Accept
<1>13. ASSUME NEW w \in Workers, SellTxn(w) PROVE CacheInv'
  BY <1>13 DEF SellTxn, Goto, Respond
<1>14. ASSUME NEW w \in Workers, NEW s \in Seats, GetSeatStatus(w, s) PROVE CacheInv'
  BY <1>14 DEF GetSeatStatus, Accept
<1>15. ASSUME NEW w \in Workers, GetDecide(w) PROVE CacheInv'
  BY <1>15 DEF GetDecide, Goto, Respond
<1>16. ASSUME NEW w \in Workers, DeleteCache(w) PROVE CacheInv'
  BY <1>16 DEF DeleteCache, Goto, Respond, delete_hold_cache
<1>17. ASSUME Tick PROVE CacheInv'
  BY <1>17 DEF Tick
<1>18. QED
  BY <1>1, <1>2, <1>3, <1>4, <1>5, <1>6, <1>7, <1>8, <1>9, <1>10, <1>11, <1>12, <1>13,
     <1>14, <1>15, <1>16, <1>17 DEF Next, Call, Step


-------------------------------------------------------------------------------
(* The safety properties. *)

\* A released token has been granted, is in no row any more, and is what a stored
\* or pending "released" answer is about.
ReleaseInv ==
  /\ \A t \in released : \E g \in grants : g.token = t
  /\ \A s \in Seats : row[s].holdToken \notin released
  /\ \A w \in Workers : pc[w] \in {"rel_del", "rel_done"} => req[w].token \in released
  /\ \A s \in Seats, t \in Tokens :
       idempotent[<<s, t>>] # Null /\ idempotent[<<s, t>>].success => t \in released

\* No handler but an overwriting GetSeatStatus ends a sale or makes a second one.
LEMMA SoldStep ==
  ASSUME TypeOK, UpdateInv, SoldOnce, Next
  PROVE  SoldOnce'
<1> USE BareFields DEF TypeOK, SoldOnce, DbOK, ThreadsOK, HistoryOK, HolderPc, dbVars, redisVars, threads, history
<1>1. ASSUME NEW S \in SUBSET Seats, create_inventory_batch(S) PROVE SoldOnce'
  BY <1>1 DEF create_inventory_batch
<1>2. ASSUME NEW w \in Workers, NEW s \in Seats, NEW u \in Users, HoldSeat(w, s, u)
        PROVE SoldOnce'
  BY <1>2 DEF HoldSeat, Accept
<1>3. ASSUME NEW w \in Workers, HoldLock(w) PROVE SoldOnce'
  BY <1>3 DEF HoldLock, Goto, Respond
<1>4. ASSUME NEW w \in Workers, HoldUpdate(w) PROVE SoldOnce'
  BY <1>4 DEF HoldUpdate, Goto, UpdateInv
<1>5. ASSUME NEW w \in Workers, DbError(w) PROVE SoldOnce'
  BY <1>5 DEF DbError, Goto, Respond
<1>6. ASSUME NEW w \in Workers, HoldRetry(w) PROVE SoldOnce'
  BY <1>6 DEF HoldRetry
<1>7. ASSUME NEW w \in Workers, HoldCache(w) PROVE SoldOnce'
  BY <1>7 DEF HoldCache, Respond
<1>8. ASSUME NEW w \in Workers, NEW s \in Seats, NEW u \in Users, ReleaseSeat(w, s, u)
        PROVE SoldOnce'
  BY <1>8 DEF ReleaseSeat, Accept
<1>9. ASSUME NEW w \in Workers, ReleaseCheck(w) PROVE SoldOnce'
  BY <1>9 DEF ReleaseCheck, Goto, Respond
<1>10. ASSUME NEW w \in Workers, ReleaseTxn(w) PROVE SoldOnce'
  BY <1>10 DEF ReleaseTxn, Goto, clear_hold, HeldBy
<1>11. ASSUME NEW w \in Workers, ReleaseResult(w) PROVE SoldOnce'
  BY <1>11 DEF ReleaseResult, Respond
<1>12. ASSUME NEW w \in Workers, NEW s \in Seats, NEW u \in Users, SellSeat(w, s, u)
        PROVE SoldOnce'
  BY <1>12 DEF SellSeat, Accept
<1>13. ASSUME NEW w \in Workers, SellTxn(w) PROVE SoldOnce'
  BY <1>13 DEF SellTxn, Goto, Respond, HeldBy
<1>14. ASSUME NEW w \in Workers, NEW s \in Seats, GetSeatStatus(w, s) PROVE SoldOnce'
  BY <1>14 DEF GetSeatStatus, Accept
<1>15. ASSUME NEW w \in Workers, GetDecide(w) PROVE SoldOnce'
  BY <1>15 DEF GetDecide, Goto, Respond, clear_hold, hold_has_expired
<1>16. ASSUME NEW w \in Workers, DeleteCache(w) PROVE SoldOnce'
  BY <1>16 DEF DeleteCache, Goto, Respond
<1>17. ASSUME Tick PROVE SoldOnce'
  BY <1>17 DEF Tick
<1>18. QED
  BY <1>1, <1>2, <1>3, <1>4, <1>5, <1>6, <1>7, <1>8, <1>9, <1>10, <1>11, <1>12, <1>13,
     <1>14, <1>15, <1>16, <1>17 DEF Next, Call, Step

\* GetSeatStatus writes only after a hold it read has run out, and time does not
\* run back.
LEMMA OverwriteStep ==
  ASSUME TypeOK, ReadInv, OverwriteNeedsLapse, Next
  PROVE  OverwriteNeedsLapse'
<1> USE DEF TypeOK, OverwriteNeedsLapse, dbVars, redisVars, threads, history
<1>1. ASSUME NEW S \in SUBSET Seats, create_inventory_batch(S) PROVE OverwriteNeedsLapse'
  BY <1>1 DEF create_inventory_batch
<1>2. ASSUME NEW w \in Workers, NEW s \in Seats, NEW u \in Users, HoldSeat(w, s, u)
        PROVE OverwriteNeedsLapse'
  BY <1>2 DEF HoldSeat, Accept
<1>3. ASSUME NEW w \in Workers, HoldLock(w) PROVE OverwriteNeedsLapse'
  BY <1>3 DEF HoldLock, Goto, Respond
<1>4. ASSUME NEW w \in Workers, HoldUpdate(w) PROVE OverwriteNeedsLapse'
  BY <1>4 DEF HoldUpdate, Goto
<1>5. ASSUME NEW w \in Workers, DbError(w) PROVE OverwriteNeedsLapse'
  BY <1>5 DEF DbError, Goto, Respond
<1>6. ASSUME NEW w \in Workers, HoldRetry(w) PROVE OverwriteNeedsLapse'
  BY <1>6 DEF HoldRetry
<1>7. ASSUME NEW w \in Workers, HoldCache(w) PROVE OverwriteNeedsLapse'
  BY <1>7 DEF HoldCache, Respond
<1>8. ASSUME NEW w \in Workers, NEW s \in Seats, NEW u \in Users, ReleaseSeat(w, s, u)
        PROVE OverwriteNeedsLapse'
  BY <1>8 DEF ReleaseSeat, Accept
<1>9. ASSUME NEW w \in Workers, ReleaseCheck(w) PROVE OverwriteNeedsLapse'
  BY <1>9 DEF ReleaseCheck, Goto, Respond
<1>10. ASSUME NEW w \in Workers, ReleaseTxn(w) PROVE OverwriteNeedsLapse'
  BY <1>10 DEF ReleaseTxn, Goto
<1>11. ASSUME NEW w \in Workers, ReleaseResult(w) PROVE OverwriteNeedsLapse'
  BY <1>11 DEF ReleaseResult, Respond
<1>12. ASSUME NEW w \in Workers, NEW s \in Seats, NEW u \in Users, SellSeat(w, s, u)
        PROVE OverwriteNeedsLapse'
  BY <1>12 DEF SellSeat, Accept
<1>13. ASSUME NEW w \in Workers, SellTxn(w) PROVE OverwriteNeedsLapse'
  BY <1>13 DEF SellTxn, Goto, Respond
<1>14. ASSUME NEW w \in Workers, NEW s \in Seats, GetSeatStatus(w, s) PROVE OverwriteNeedsLapse'
  BY <1>14 DEF GetSeatStatus, Accept
<1>15. ASSUME NEW w \in Workers, GetDecide(w) PROVE OverwriteNeedsLapse'
  <2>1. CASE hold_has_expired(read[w], clock)
    <3>1. /\ HoldOf(req[w].seat, read[w]) \in grants
          /\ read[w].heldUntil <= clock
      BY <1>15, <2>1 DEF GetDecide, hold_has_expired, ReadInv
    <3>2. \E g \in grants : g.seat = req[w].seat /\ g.until <= clock
      BY <3>1 DEF HoldOf
    <3>3. overwritten' \subseteq overwritten \cup {req[w].seat} /\ grants' = grants /\ clock' = clock
      BY <1>15 DEF GetDecide
    <3>4. QED
      BY <3>2, <3>3
  <2>2. CASE ~hold_has_expired(read[w], clock)
    BY <1>15, <2>2 DEF GetDecide
  <2>3. QED
    BY <2>1, <2>2
<1>16. ASSUME NEW w \in Workers, DeleteCache(w) PROVE OverwriteNeedsLapse'
  BY <1>16 DEF DeleteCache, Goto, Respond
<1>17. ASSUME Tick PROVE OverwriteNeedsLapse'
  <2>1. clock <= clock' /\ clock \in Nat /\ clock' \in Nat /\ grants' = grants /\ overwritten' = overwritten
    BY <1>17 DEF Tick, Time
  <2>2. \A g \in grants : g.until \in Nat
    BY DEF HistoryOK, Grant, Time
  <2>3. QED
    BY <2>1, <2>2
<1>18. QED
  BY <1>1, <1>2, <1>3, <1>4, <1>5, <1>6, <1>7, <1>8, <1>9, <1>10, <1>11, <1>12, <1>13,
     <1>14, <1>15, <1>16, <1>17 DEF Next, Call, Step

\* A token ReleaseSeat gave up never comes back into the row, and success is only
\* stored for such a token.
LEMMA ReleaseStep ==
  ASSUME TypeOK, TokenInv, RowInv, ReleaseInv, Next
  PROVE  ReleaseInv'
<1> USE NullAssumption, ReqFields, BareFields DEF TypeOK, ReleaseInv, DbOK, RedisOK, ThreadsOK, HistoryOK, HolderPc, dbVars, redisVars, threads, history
<1>1. ASSUME NEW S \in SUBSET Seats, create_inventory_batch(S) PROVE ReleaseInv'
  BY <1>1 DEF create_inventory_batch
<1>2. ASSUME NEW w \in Workers, NEW s \in Seats, NEW u \in Users, HoldSeat(w, s, u)
        PROVE ReleaseInv'
  BY <1>2 DEF HoldSeat, Accept
<1>3. ASSUME NEW w \in Workers, HoldLock(w) PROVE ReleaseInv'
  BY <1>3 DEF HoldLock, Goto, Respond
<1>4. ASSUME NEW w \in Workers, HoldUpdate(w) PROVE ReleaseInv'
  <2> DEFINE s0 == req[w].seat
  <2>1. s0 \in Seats /\ req[w].token \notin released
    BY <1>4 DEF HoldUpdate, TokenInv, Pending
  <2>2. row'[s0].holdToken = req[w].token /\ \A s \in Seats \ {s0} : row'[s] = row[s]
    BY <1>4, <2>1 DEF HoldUpdate
  <2>3. /\ grants \subseteq grants' /\ released' = released /\ idempotent' = idempotent /\ req' = req
        /\ \A v \in Workers : pc'[v] \in {"rel_del", "rel_done"} => pc'[v] = pc[v]
    BY <1>4 DEF HoldUpdate, Goto
  <2>4. QED
    BY <2>1, <2>2, <2>3
<1>5. ASSUME NEW w \in Workers, DbError(w) PROVE ReleaseInv'
  BY <1>5 DEF DbError, Goto, Respond
<1>6. ASSUME NEW w \in Workers, HoldRetry(w) PROVE ReleaseInv'
  BY <1>6 DEF HoldRetry
<1>7. ASSUME NEW w \in Workers, HoldCache(w) PROVE ReleaseInv'
  BY <1>7 DEF HoldCache, Respond
<1>8. ASSUME NEW w \in Workers, NEW s \in Seats, NEW u \in Users, ReleaseSeat(w, s, u)
        PROVE ReleaseInv'
  BY <1>8 DEF ReleaseSeat, Accept
<1>9. ASSUME NEW w \in Workers, ReleaseCheck(w) PROVE ReleaseInv'
  BY <1>9 DEF ReleaseCheck, Goto, Respond
<1>10. ASSUME NEW w \in Workers, ReleaseTxn(w) PROVE ReleaseInv'
  <2> DEFINE s0 == req[w].seat
             t0 == req[w].token
  <2>1. CASE ~HeldBy(row[s0], req[w].user, t0)
    BY <1>10, <2>1 DEF ReleaseTxn, Goto
  <2>2. CASE HeldBy(row[s0], req[w].user, t0)
    <3>1. s0 \in Seats /\ t0 \in Tokens /\ HoldOf(s0, row[s0]) \in grants /\ row[s0].holdToken = t0
      BY <1>10, <2>2 DEF ReleaseTxn, HeldBy, RowInv
    <3>2. \E g \in grants : g.token = t0
      BY <3>1 DEF HoldOf
    <3>3. ASSUME NEW s \in Seats, row[s].holdToken = t0 PROVE s = s0
      <4>1. HoldOf(s, row[s]) \in grants
        BY <3>1, <3>3 DEF RowInv
      <4>2. HoldOf(s, row[s]).token = t0 /\ HoldOf(s0, row[s0]).token = t0
        BY <3>1, <3>3 DEF HoldOf
      <4>3. HoldOf(s, row[s]) = HoldOf(s0, row[s0])
        BY <4>1, <4>2, <3>1 DEF TokenInv
      <4>4. QED
        BY <4>3 DEF HoldOf
    <3>4. row' = [row EXCEPT ![s0] = Bare("available")] /\ released' = released \cup {t0}
      BY <1>10, <2>2 DEF ReleaseTxn, clear_hold
    <3>5. \A s \in Seats : row'[s].holdToken \notin released'
      BY <3>1, <3>3, <3>4
    <3>6. /\ grants' = grants /\ idempotent' = idempotent /\ req' = req
          /\ \A v \in Workers : v # w => pc'[v] = pc[v]
      BY <1>10, <2>2 DEF ReleaseTxn, Goto
    <3>7. QED
      BY <3>2, <3>4, <3>5, <3>6
  <2>3. QED
    BY <2>1, <2>2
<1>11. ASSUME NEW w \in Workers, ReleaseResult(w) PROVE ReleaseInv'
  <2> DEFINE k == <<req[w].seat, req[w].token>>
             v == [success |-> (pc[w] = "rel_done"), expires |-> clock + IdempotencySeconds]
  <2>1. req[w].token \in Tokens /\ v.success = (pc[w] = "rel_done")
    BY <1>11 DEF ReleaseResult
  <2>2. v.success => req[w].token \in released
    BY <2>1
  <2>3. \A s \in Seats, t \in Tokens :
          \/ idempotent'[<<s, t>>] = idempotent[<<s, t>>]
          \/ idempotent'[<<s, t>>] = v /\ t = req[w].token
    <3>1. \A s \in Seats, t \in Tokens : <<s, t>> = k => t = req[w].token
      OBVIOUS
    <3>2. idempotent' = [idempotent EXCEPT ![k] = v] \/ idempotent' = idempotent
      BY <1>11 DEF ReleaseResult, cache_idempotency_result
    <3>3. \A s \in Seats, t \in Tokens : <<s, t>> \in DOMAIN idempotent
      OBVIOUS
    <3> HIDE DEF k, v
    <3>4. \A x \in DOMAIN idempotent : idempotent'[x] = idempotent[x] \/ (x = k /\ idempotent'[x] = v)
      BY <3>2
    <3>5. QED
      <4> SUFFICES ASSUME NEW s \in Seats, NEW t \in Tokens
                   PROVE  \/ idempotent'[<<s, t>>] = idempotent[<<s, t>>]
                          \/ idempotent'[<<s, t>>] = v /\ t = req[w].token
        OBVIOUS
      <4>1. <<s, t>> \in DOMAIN idempotent
        BY <3>3
      <4>2. <<s, t>> = k => t = req[w].token
        BY <3>1
      <4>3. QED
        BY <4>1, <4>2, <3>4
  <2>4. /\ row' = row /\ released' = released /\ grants' = grants
        /\ \A x \in Workers : pc'[x] # "idle" => pc'[x] = pc[x] /\ req'[x] = req[x]
    BY <1>11 DEF ReleaseResult, Respond
  <2>5. QED
    BY <2>2, <2>3, <2>4
<1>12. ASSUME NEW w \in Workers, NEW s \in Seats, NEW u \in Users, SellSeat(w, s, u)
        PROVE ReleaseInv'
  BY <1>12 DEF SellSeat, Accept
<1>13. ASSUME NEW w \in Workers, SellTxn(w) PROVE ReleaseInv'
  BY <1>13 DEF SellTxn, Goto, Respond
<1>14. ASSUME NEW w \in Workers, NEW s \in Seats, GetSeatStatus(w, s) PROVE ReleaseInv'
  BY <1>14 DEF GetSeatStatus, Accept
<1>15. ASSUME NEW w \in Workers, GetDecide(w) PROVE ReleaseInv'
  BY <1>15 DEF GetDecide, Goto, Respond, clear_hold
<1>16. ASSUME NEW w \in Workers, DeleteCache(w) PROVE ReleaseInv'
  BY <1>16 DEF DeleteCache, Goto, Respond
<1>17. ASSUME Tick PROVE ReleaseInv'
  BY <1>17 DEF Tick
<1>18. QED
  BY <1>1, <1>2, <1>3, <1>4, <1>5, <1>6, <1>7, <1>8, <1>9, <1>10, <1>11, <1>12, <1>13,
     <1>14, <1>15, <1>16, <1>17 DEF Next, Call, Step


\* What it means for the row of s0 that it is the hold of a live grant.
LEMMA HonouredFields ==
  ASSUME HoldHonoured, NEW g \in grants, Live(g), g.seat \notin overwritten
  PROVE  /\ row[g.seat].status = "held" /\ row[g.seat].holdToken = g.token
         /\ row[g.seat].heldByUserId = g.user /\ row[g.seat].heldUntil = g.until
<1>1. row[g.seat] = HeldRow(g)
  BY DEF HoldHonoured
<1>2. QED
  BY <1>1 DEF HeldRow

\* A step that makes no grant, rewrites no row but s0's, undoes no release, sale or
\* overwriting, and leaves no live grant on s0, honours the holds.
LEMMA HonourFrame ==
  ASSUME TypeOK, HoldHonoured, NEW s0, clock <= clock', clock' \in Nat, grants' = grants,
         released \subseteq released', overwritten \subseteq overwritten',
         \A s \in Seats : sales[s] \subseteq sales'[s],
         \A s \in Seats \ {s0} : row'[s] = row[s],
         \A g \in grants : g.seat = s0 => ~Live(g)' \/ s0 \in overwritten'
  PROVE  HoldHonoured'
<1> SUFFICES ASSUME NEW g \in grants, Live(g)', g.seat \notin overwritten'
             PROVE  row'[g.seat] = HeldRow(g)
  BY DEF HoldHonoured, HeldRow
<1>1. g.seat \in Seats /\ g.until \in Nat /\ clock \in Nat
  BY DEF TypeOK, HistoryOK, Grant, Time
<1>2. Live(g) /\ g.seat \notin overwritten /\ g.seat # s0
  BY <1>1 DEF Live
<1>3. QED
  BY <1>1, <1>2 DEF HoldHonoured

\* Every step leaves each live hold in its row: one case per handler, most of them
\* by HonourFrame.
LEMMA HonourStep ==
  ASSUME TypeOK, TokenInv, RowInv, ReleaseInv, UpdateInv, HoldHonoured, Next
  PROVE  HoldHonoured'
<1> USE DEF TypeOK, dbVars, redisVars, threads, history
<1>1. ASSUME NEW S \in SUBSET Seats, create_inventory_batch(S) PROVE HoldHonoured'
  <2>1. \A g \in grants : Live(g) /\ g.seat \notin overwritten => g.seat \notin S
    BY <1>1, HonouredFields DEF create_inventory_batch
  <2>2. \A s \in Seats \ S : row'[s] = row[s]
    BY <1>1 DEF create_inventory_batch
  <2>3. \A g \in grants : g.seat \in Seats
    BY DEF HistoryOK, Grant
  <2>4. QED
    BY <1>1, <2>1, <2>2, <2>3 DEF create_inventory_batch, HoldHonoured, Live, HeldRow
<1>2. ASSUME NEW w \in Workers, NEW s \in Seats, NEW u \in Users, HoldSeat(w, s, u)
        PROVE HoldHonoured'
  BY <1>2 DEF HoldSeat, Accept, HoldHonoured, Live, HeldRow
<1>3. ASSUME NEW w \in Workers, HoldLock(w) PROVE HoldHonoured'
  BY <1>3 DEF HoldLock, Goto, Respond, HoldHonoured, Live, HeldRow
<1>4. ASSUME NEW w \in Workers, HoldUpdate(w) PROVE HoldHonoured'
  <2> DEFINE s0 == req[w].seat
             n == [seat |-> s0, user |-> req[w].user, token |-> req[w].token,
                   until |-> req[w].now + HoldSeconds]
  <2>1. s0 \in Seats
    BY <1>4 DEF HoldUpdate, ThreadsOK, HolderPc
  <2>2. row'[s0] = HeldRow(n)
    BY <1>4, <2>1 DEF HoldUpdate, HeldRow, DbOK
  <2>3. \A g \in grants : g.seat \in Seats /\ g.until \in Nat /\ clock \in Nat
    BY DEF HistoryOK, Grant, Time
  <2>4. \A g \in grants : g.seat = s0 => ~Live(g) \/ s0 \in overwritten
    <3> SUFFICES ASSUME NEW g \in grants, g.seat = s0, Live(g), s0 \notin overwritten PROVE FALSE
      OBVIOUS
    <3>1. row[s0].status = "held" /\ row[s0].heldUntil = g.until
      BY HonouredFields
    <3>2. row[s0].heldUntil <= clock
      BY <1>4, <3>1 DEF HoldUpdate, UpdateInv
    <3>3. QED
      BY <3>1, <3>2, <2>3 DEF Live
  <2>5. \A s \in Seats \ {s0} : row'[s] = row[s]
    BY <1>4 DEF HoldUpdate, DbOK
  <2>6. /\ grants' = grants \cup {n} /\ clock' = clock /\ released' = released
        /\ sales' = sales /\ overwritten' = overwritten
    BY <1>4 DEF HoldUpdate
  <2>7. QED
    <3> SUFFICES ASSUME NEW g \in grants', Live(g)', g.seat \notin overwritten'
                 PROVE  row'[g.seat] = HeldRow(g)
      BY DEF HoldHonoured, HeldRow
    <3>1. CASE g = n
      BY <3>1, <2>2
    <3>2. CASE g \in grants
      <4>1. Live(g)
        BY <2>6 DEF Live
      <4>2. QED
        BY <3>2, <4>1, <2>3, <2>4, <2>5, <2>6 DEF HoldHonoured
    <3>3. QED
      BY <3>1, <3>2, <2>6
<1>5. ASSUME NEW w \in Workers, DbError(w) PROVE HoldHonoured'
  BY <1>5 DEF DbError, Goto, Respond, HoldHonoured, Live, HeldRow
<1>6. ASSUME NEW w \in Workers, HoldRetry(w) PROVE HoldHonoured'
  BY <1>6 DEF HoldRetry, HoldHonoured, Live, HeldRow
<1>7. ASSUME NEW w \in Workers, HoldCache(w) PROVE HoldHonoured'
  BY <1>7 DEF HoldCache, Respond, HoldHonoured, Live, HeldRow
<1>8. ASSUME NEW w \in Workers, NEW s \in Seats, NEW u \in Users, ReleaseSeat(w, s, u)
        PROVE HoldHonoured'
  BY <1>8 DEF ReleaseSeat, Accept, HoldHonoured, Live, HeldRow
<1>9. ASSUME NEW w \in Workers, ReleaseCheck(w) PROVE HoldHonoured'
  BY <1>9 DEF ReleaseCheck, Goto, Respond, HoldHonoured, Live, HeldRow
<1>10. ASSUME NEW w \in Workers, ReleaseTxn(w) PROVE HoldHonoured'
  <2> DEFINE s0 == req[w].seat
             t0 == req[w].token
  <2>1. CASE ~HeldBy(row[s0], req[w].user, t0)
    BY <1>10, <2>1 DEF ReleaseTxn, HoldHonoured, Live, HeldRow
  <2>2. CASE HeldBy(row[s0], req[w].user, t0)
    <3>1. /\ row' = [row EXCEPT ![s0] = Bare("available")] /\ released' = released \cup {t0}
          /\ grants' = grants /\ clock' = clock /\ sales' = sales /\ overwritten' = overwritten
      BY <1>10, <2>2 DEF ReleaseTxn, clear_hold
    <3>2. row[s0].holdToken = t0
      BY <2>2 DEF HeldBy
    <3>3. \A g \in grants : g.seat = s0 => ~Live(g)' \/ s0 \in overwritten'
      <4> SUFFICES ASSUME NEW g \in grants, g.seat = s0, Live(g)', s0 \notin overwritten PROVE FALSE
        BY <3>1
      <4>1. Live(g) /\ g.token \notin released'
        BY <3>1 DEF Live
      <4>2. g.token = t0
        BY <4>1, <3>2, HonouredFields
      <4>3. QED
        BY <4>1, <4>2, <3>1
    <3>4. \A s \in Seats \ {s0} : row'[s] = row[s]
      BY <3>1 DEF DbOK
    <3>5. QED
      BY <3>1, <3>3, <3>4, HonourFrame DEF Time
  <2>3. QED
    BY <2>1, <2>2
<1>11. ASSUME NEW w \in Workers, ReleaseResult(w) PROVE HoldHonoured'
  BY <1>11 DEF ReleaseResult, Respond, HoldHonoured, Live, HeldRow
<1>12. ASSUME NEW w \in Workers, NEW s \in Seats, NEW u \in Users, SellSeat(w, s, u)
        PROVE HoldHonoured'
  BY <1>12 DEF SellSeat, Accept, HoldHonoured, Live, HeldRow
<1>13. ASSUME NEW w \in Workers, SellTxn(w) PROVE HoldHonoured'
  <2> DEFINE s0 == req[w].seat
             t0 == req[w].token
  <2>1. CASE ~HeldBy(row[s0], req[w].user, t0)
    BY <1>13, <2>1 DEF SellTxn, HoldHonoured, Live, HeldRow
  <2>2. CASE HeldBy(row[s0], req[w].user, t0)
    <3>1. /\ row' = [row EXCEPT ![s0] = Bare("sold")] /\ released' = released
          /\ sales' = [sales EXCEPT ![s0] = sales[s0] \cup {t0}]
          /\ grants' = grants /\ clock' = clock /\ overwritten' = overwritten
      BY <1>13, <2>2 DEF SellTxn
    <3>2. row[s0].holdToken = t0 /\ s0 \in Seats
      BY <1>13, <2>2 DEF HeldBy, SellTxn, ThreadsOK, HolderPc
    <3>3. t0 \in sales'[s0] /\ \A s \in Seats : sales[s] \subseteq sales'[s]
      BY <3>1, <3>2 DEF HistoryOK
    <3>4. \A g \in grants : g.seat = s0 => ~Live(g)' \/ s0 \in overwritten'
      <4> SUFFICES ASSUME NEW g \in grants, g.seat = s0, Live(g)', s0 \notin overwritten PROVE FALSE
        BY <3>1
      <4>1. Live(g) /\ g.token \notin sales'[s0]
        BY <3>1, <3>2, <3>3 DEF Live
      <4>2. g.token = t0
        BY <4>1, <3>2, HonouredFields
      <4>3. QED
        BY <4>1, <4>2, <3>3
    <3>5. \A s \in Seats \ {s0} : row'[s] = row[s]
      BY <3>1 DEF DbOK
    <3>6. /\ clock <= clock' /\ clock' \in Nat /\ grants' = grants /\ released \subseteq released'
          /\ overwritten \subseteq overwritten'
      BY <3>1 DEF Time
    <3>7. \A s \in Seats : sales[s] \subseteq sales'[s]
      BY <3>3
    <3>8. QED
      BY <3>4, <3>5, <3>6, <3>7, HonourFrame
  <2>3. QED
    BY <2>1, <2>2
<1>14. ASSUME NEW w \in Workers, NEW s \in Seats, GetSeatStatus(w, s) PROVE HoldHonoured'
  BY <1>14 DEF GetSeatStatus, Accept, HoldHonoured, Live, HeldRow
<1>15. ASSUME NEW w \in Workers, GetDecide(w) PROVE HoldHonoured'
  <2> DEFINE s0 == req[w].seat
  <2>1. CASE ~hold_has_expired(read[w], clock)
    BY <1>15, <2>1 DEF GetDecide, HoldHonoured, Live, HeldRow
  <2>2. CASE hold_has_expired(read[w], clock)
    <3>1. /\ row' = [row EXCEPT ![s0] = Bare("available")] /\ released' = released /\ sales' = sales
          /\ grants' = grants /\ clock' = clock /\ overwritten \subseteq overwritten'
          /\ row[s0] = read[w] \/ s0 \in overwritten'
      BY <1>15, <2>2 DEF GetDecide, clear_hold
    <3>2. \A g \in grants : g.until \in Nat /\ clock \in Nat
      BY DEF HistoryOK, Grant, Time
    <3>3. \A g \in grants : g.seat = s0 => ~Live(g)' \/ s0 \in overwritten'
      <4> SUFFICES ASSUME NEW g \in grants, g.seat = s0, Live(g)', s0 \notin overwritten' PROVE FALSE
        OBVIOUS
      <4>1. Live(g) /\ s0 \notin overwritten
        BY <3>1 DEF Live
      <4>2. row[s0].heldUntil = g.until /\ row[s0] = read[w]
        BY <4>1, <3>1, HonouredFields
      <4>3. QED
        BY <4>1, <4>2, <2>2, <3>2 DEF hold_has_expired, Live
    <3>4. \A s \in Seats \ {s0} : row'[s] = row[s]
      BY <3>1 DEF DbOK
    <3>5. QED
      BY <3>1, <3>3, <3>4, HonourFrame DEF Time
  <2>3. QED
    BY <2>1, <2>2
<1>16. ASSUME NEW w \in Workers, DeleteCache(w) PROVE HoldHonoured'
  BY <1>16 DEF DeleteCache, Goto, Respond, HoldHonoured, Live, HeldRow
<1>17. ASSUME Tick PROVE HoldHonoured'
  <2>1. clock <= clock' /\ clock' \in Nat /\ row' = row /\ grants' = grants /\ released' = released
        /\ sales' = sales /\ overwritten' = overwritten
    BY <1>17 DEF Tick, Time
  <2>2. \A g \in grants : g.until \in Nat /\ clock \in Nat
    BY DEF HistoryOK, Grant, Time
  <2>3. QED
    BY <2>1, <2>2 DEF HoldHonoured, Live, HeldRow
<1>18. QED
  BY <1>1, <1>2, <1>3, <1>4, <1>5, <1>6, <1>7, <1>8, <1>9, <1>10, <1>11, <1>12, <1>13,
     <1>14, <1>15, <1>16, <1>17 DEF Next, Call, Step


-------------------------------------------------------------------------------
(* The theorems. *)

\* The inductive invariant: every safety property with the facts it rests on.
IInv == /\ LockInv /\ ClockInv /\ TokenInv /\ RowInv /\ UpdateInv /\ ReadInv /\ CacheInv
        /\ ReleaseInv /\ OverwriteNeedsLapse /\ SoldOnce /\ HoldHonoured

\* Every step of every handler preserves the inductive invariant.
THEOREM Invariance == Spec => []IInv
<1>1. Init => IInv
  <2> USE ReqFields, BareFields DEF Init
  <2>1. Init => LockInv /\ ClockInv /\ TokenInv /\ ReadInv
    BY DEF LockInv, ClockInv, TokenInv, ReadInv, Pending
  <2>2. Init => RowInv /\ UpdateInv /\ ReleaseInv
    BY DEF RowInv, UpdateInv, ReleaseInv
  <2>3. Init => CacheInv /\ OverwriteNeedsLapse /\ SoldOnce /\ HoldHonoured
    BY DEF CacheInv, CacheAuthentic, OverwriteNeedsLapse, SoldOnce, HoldHonoured
  <2>4. QED
    BY <2>1, <2>2, <2>3 DEF IInv
<1>2. TypeOK /\ IInv /\ [Next]_vars => IInv'
  <2> SUFFICES ASSUME TypeOK, IInv, [Next]_vars PROVE IInv'
    OBVIOUS
  <2>1. CASE Next
    BY <2>1, LockStep, ClockStep, TokenStep, RowStep, UpdateStep, ReadStep, CacheStep,
       ReleaseStep, OverwriteStep, SoldStep, HonourStep DEF IInv
  <2>2. CASE UNCHANGED vars
    <3> USE <2>2 DEF IInv, vars
    <3>1. (LockInv /\ ClockInv /\ TokenInv /\ ReadInv)'
      BY DEF LockInv, ClockInv, TokenInv, ReadInv
    <3>2. (RowInv /\ UpdateInv /\ ReleaseInv)'
      BY DEF RowInv, UpdateInv, ReleaseInv
    <3>3. (CacheInv /\ OverwriteNeedsLapse /\ SoldOnce /\ HoldHonoured)'
      BY DEF CacheInv, CacheAuthentic, OverwriteNeedsLapse, SoldOnce, HoldHonoured, Live
    <3>4. QED
      BY <3>1, <3>2, <3>3
  <2>3. QED
    BY <2>1, <2>2
<1>3. QED
  BY <1>1, <1>2, TypeCorrect, PTL DEF Spec

\* A hold that has not run out, been given back or been used to buy is in the row,
\* whatever HoldSeat, ReleaseSeat and SellSeat calls run beside it.
THEOREM HoldsAreHonoured == Spec => []HoldHonoured
<1>1. IInv => HoldHonoured
  BY DEF IInv
<1>2. QED
  BY <1>1, Invariance, PTL

\* SellSeat never sells a seat twice.
THEOREM SalesAreFinal == Spec => []SoldOnce
<1>1. IInv => SoldOnce
  BY DEF IInv
<1>2. QED
  BY <1>1, Invariance, PTL

\* GetSeatStatus overwrites only where a hold of the seat had run out.
THEOREM OverwritesNeedLapses == Spec => []OverwriteNeedsLapse
<1>1. IInv => OverwriteNeedsLapse
  BY DEF IInv
<1>2. QED
  BY <1>1, Invariance, PTL

\* A stored "released" answer of ReleaseSeat is true for ever.
THEOREM ReleaseAnswersAreFinal == Spec => []ReleaseAckIsFinal
<1>1. IInv => ReleaseAckIsFinal
  BY DEF IInv, ReleaseInv, ReleaseAckIsFinal
<1>2. QED
  BY <1>1, Invariance, PTL

\* A cache entry is a hold HoldSeat committed.
THEOREM CacheIsAuthentic == Spec => []CacheAuthentic
<1>1. IInv => CacheAuthentic
  BY DEF IInv, CacheInv
<1>2. QED
  BY <1>1, Invariance, PTL

-------------------------------------------------------------------------------
(* The state the ledger sees. *)

\* The row of a seat without its expiry.
LedgerRow(r) == [status |-> r.status, heldByUserId |-> r.heldByUserId, holdToken |-> r.holdToken]

LedgerRows == [s \in Seats |-> LedgerRow(row[s])]

\* The holds granted so far, without their expiry.
LedgerGrants == {[seat |-> g.seat, user |-> g.user, token |-> g.token] : g \in grants}

\* The tokens of the grants whose time is over.
LedgerLapsed == {g.token : g \in {h \in grants : h.until <= clock}}

\* A step that leaves the table, the grants and the clock alone is not seen.
LEMMA StutterMaps ==
  ASSUME row' = row, grants' = grants, clock' = clock
  PROVE  UNCHANGED Ledger!ledgerVars
  BY DEF Ledger!ledgerVars

\* A write of one row of the table is a write of the same row of the ledger.
LEMMA RowWriteMaps ==
  ASSUME row \in [Seats -> Row], NEW s0 \in Seats, NEW r, row' = [row EXCEPT ![s0] = r]
  PROVE  LedgerRows' = [LedgerRows EXCEPT ![s0] = LedgerRow(r)]
<1>1. LedgerRows' = [s \in Seats |-> LedgerRow(row'[s])]
  BY DEF LedgerRows, LedgerRow
<1>2. \A s \in Seats : row'[s] = IF s = s0 THEN r ELSE row[s]
  OBVIOUS
<1>3. \A s \in Seats : LedgerRow(row'[s]) = IF s = s0 THEN LedgerRow(r) ELSE LedgerRow(row[s])
  BY <1>2
<1>4. [LedgerRows EXCEPT ![s0] = LedgerRow(r)]
        = [s \in Seats |-> IF s = s0 THEN LedgerRow(r) ELSE LedgerRow(row[s])]
  BY DEF LedgerRows
<1>5. QED
  BY <1>1, <1>3, <1>4

\* The rows of the ledger, column by column.
LEMMA LedgerRowFields ==
  ASSUME NEW s \in Seats
  PROVE  /\ LedgerRows[s].status = row[s].status
         /\ LedgerRows[s].heldByUserId = row[s].heldByUserId
         /\ LedgerRows[s].holdToken = row[s].holdToken
         /\ LedgerRows[s] = LedgerRow(row[s])
  BY DEF LedgerRows, LedgerRow

\* A row nobody holds is the ledger's row nobody holds.
LEMMA BareMaps == \A st : LedgerRow(Bare(st)) = Ledger!Bare(st)
  BY BareFields DEF LedgerRow, Ledger!Bare

-------------------------------------------------------------------------------
(* The steps. *)

\* POST /inventory/batch is AddSeats.
LEMMA BatchMaps ==
  ASSUME TypeOK, NEW S \in SUBSET Seats, create_inventory_batch(S)
  PROVE  Ledger!AddSeats(S)
<1>1. /\ \A s \in S : row[s].status = "absent"
      /\ row' = [s \in Seats |-> IF s \in S THEN Bare("available") ELSE row[s]]
      /\ grants' = grants /\ clock' = clock
  BY DEF create_inventory_batch, history
<1>2. \A s \in S : LedgerRows[s].status = "absent"
  BY <1>1, LedgerRowFields
<1>3. \A s \in Seats : LedgerRow(row'[s]) = IF s \in S THEN Ledger!Bare("available") ELSE LedgerRows[s]
  BY <1>1, LedgerRowFields, BareMaps
<1>4. LedgerRows' = [s \in Seats |-> LedgerRow(row'[s])]
  BY DEF LedgerRows, LedgerRow
<1>5. LedgerRows' = [s \in Seats |-> IF s \in S THEN Ledger!Bare("available") ELSE LedgerRows[s]]
  BY <1>3, <1>4
<1>6. LedgerGrants' = LedgerGrants /\ LedgerLapsed' = LedgerLapsed
  BY <1>1 DEF LedgerGrants, LedgerLapsed
<1>7. QED
  BY <1>2, <1>5, <1>6 DEF Ledger!AddSeats, LedgerRows, LedgerRow, LedgerGrants, LedgerLapsed

\* A release, a sale and a clearing read write one bare row and leave the holds alone.
LEMMA BareWriteMaps ==
  ASSUME TypeOK, NEW s0 \in Seats, NEW st, row' = [row EXCEPT ![s0] = Bare(st)],
         grants' = grants, clock' = clock
  PROVE  /\ LedgerRows' = [LedgerRows EXCEPT ![s0] = Ledger!Bare(st)]
         /\ LedgerGrants' = LedgerGrants /\ LedgerLapsed' = LedgerLapsed
<1>1. LedgerRows' = [LedgerRows EXCEPT ![s0] = LedgerRow(Bare(st))]
  BY RowWriteMaps DEF TypeOK, DbOK
<1>2. QED
  BY <1>1, BareMaps DEF LedgerGrants, LedgerLapsed

\* The holder named by the table is the holder named by the ledger.
LEMMA HeldByMaps ==
  ASSUME NEW s \in Seats, NEW u, NEW t, HeldBy(row[s], u, t)
  PROVE  Ledger!HeldBy(s, u, t)
<1>1. LedgerRow(row[s]) = [status |-> "held", heldByUserId |-> u, holdToken |-> t]
  BY DEF HeldBy, LedgerRow
<1>2. QED
  BY <1>1, LedgerRowFields DEF Ledger!HeldBy, LedgerRows, LedgerRow

\* The transaction of ReleaseSeat is Release, or is not seen.
LEMMA ReleaseMaps ==
  ASSUME TypeOK, NEW w \in Workers, ReleaseTxn(w)
  PROVE  [Ledger!LedgerNext]_Ledger!ledgerVars
<1>1. PICK s \in Seats, u \in Users, t \in Tokens :
        req[w].seat = s /\ req[w].user = u /\ req[w].token = t
  BY DEF ReleaseTxn, TypeOK, ThreadsOK, HolderPc
<1>2. CASE HeldBy(row[s], u, t)
  <2>1. row' = [row EXCEPT ![s] = Bare("available")] /\ grants' = grants /\ clock' = clock
    BY <1>1, <1>2 DEF ReleaseTxn, clear_hold
  <2>2. Ledger!HeldBy(s, u, t)
    BY <1>1, <1>2, HeldByMaps
  <2>3. /\ LedgerRows' = [LedgerRows EXCEPT ![s] = Ledger!Bare("available")]
        /\ LedgerGrants' = LedgerGrants /\ LedgerLapsed' = LedgerLapsed
    BY <1>1, <2>1, BareWriteMaps
  <2>4. Ledger!Release(s, u, t)
    BY <2>2, <2>3 DEF Ledger!Release, LedgerRows, LedgerRow, LedgerGrants, LedgerLapsed
  <2>5. QED
    BY <1>1, <2>4 DEF Ledger!LedgerNext
<1>3. CASE ~HeldBy(row[s], u, t)
  BY <1>1, <1>3, StutterMaps DEF ReleaseTxn
<1>4. QED
  BY <1>2, <1>3

\* The transaction of SellSeat is Sell, or is not seen.
LEMMA SellMaps ==
  ASSUME TypeOK, NEW w \in Workers, SellTxn(w)
  PROVE  [Ledger!LedgerNext]_Ledger!ledgerVars
<1>1. PICK s \in Seats, u \in Users, t \in Tokens :
        req[w].seat = s /\ req[w].user = u /\ req[w].token = t
  BY DEF SellTxn, TypeOK, ThreadsOK, HolderPc
<1>2. CASE HeldBy(row[s], u, t)
  <2>1. row' = [row EXCEPT ![s] = Bare("sold")] /\ grants' = grants /\ clock' = clock
    BY <1>1, <1>2 DEF SellTxn
  <2>2. Ledger!HeldBy(s, u, t)
    BY <1>1, <1>2, HeldByMaps
  <2>3. /\ LedgerRows' = [LedgerRows EXCEPT ![s] = Ledger!Bare("sold")]
        /\ LedgerGrants' = LedgerGrants /\ LedgerLapsed' = LedgerLapsed
    BY <1>1, <2>1, BareWriteMaps
  <2>4. Ledger!Sell(s, u, t)
    BY <2>2, <2>3 DEF Ledger!Sell, LedgerRows, LedgerRow, LedgerGrants, LedgerLapsed
  <2>5. QED
    BY <1>1, <2>4 DEF Ledger!LedgerNext
<1>3. CASE ~HeldBy(row[s], u, t)
  BY <1>1, <1>3, StutterMaps DEF SellTxn
<1>4. QED
  BY <1>2, <1>3

\* A clearing GetSeatStatus is Clear: the hold it read was granted on this seat and
\* has run out, whatever the row has become since.
LEMMA GetMaps ==
  ASSUME TypeOK, ReadInv, NEW w \in Workers, GetDecide(w)
  PROVE  [Ledger!LedgerNext]_Ledger!ledgerVars
<1>1. CASE hold_has_expired(read[w], clock)
  <2>1. PICK s \in Seats : req[w].seat = s /\ pc[w] = "get_decide"
    BY DEF GetDecide, TypeOK, ThreadsOK
  <2>2. row' = [row EXCEPT ![s] = Bare("available")] /\ grants' = grants /\ clock' = clock
    BY <1>1, <2>1 DEF GetDecide, clear_hold
  <2>3. PICK g \in grants : g = HoldOf(s, read[w])
    BY <1>1, <2>1 DEF ReadInv, hold_has_expired
  <2>4. g.seat = s /\ g.until <= clock
    BY <2>3, <1>1 DEF HoldOf, hold_has_expired
  <2>5. g.token \in LedgerLapsed
    BY <2>3, <2>4 DEF LedgerLapsed
  <2>6. PICK h \in LedgerGrants : h = [seat |-> g.seat, user |-> g.user, token |-> g.token]
    BY <2>3 DEF LedgerGrants
  <2>7. h.seat = s /\ h.token \in LedgerLapsed
    BY <2>4, <2>5, <2>6
  <2>8. /\ LedgerRows' = [LedgerRows EXCEPT ![s] = Ledger!Bare("available")]
        /\ LedgerGrants' = LedgerGrants /\ LedgerLapsed' = LedgerLapsed
    BY <2>1, <2>2, BareWriteMaps
  <2>9. \E k \in LedgerGrants : k.seat = s /\ k.token \in LedgerLapsed
    BY <2>6, <2>7
  <2>10. Ledger!Clear(s)
    BY <2>8, <2>9 DEF Ledger!Clear, LedgerRows, LedgerRow, LedgerGrants, LedgerLapsed
  <2>11. QED
    BY <2>1, <2>10 DEF Ledger!LedgerNext
<1>2. CASE ~hold_has_expired(read[w], clock)
  BY <1>2, StutterMaps DEF GetDecide
<1>3. QED
  BY <1>1, <1>2

\* The commit of HoldSeat is Grant: its token is new, the row it locked is still free
\* or its hold has run out, and the new hold may have lapsed already.
LEMMA HoldMaps ==
  ASSUME TypeOK, TokenInv, RowInv, UpdateInv, NEW w \in Workers, HoldUpdate(w)
  PROVE  [Ledger!LedgerNext]_Ledger!ledgerVars
<1>1. PICK s \in Seats, u \in Users, t \in Tokens, until \in Nat :
        /\ req[w].seat = s /\ req[w].user = u /\ req[w].token = t
        /\ until = req[w].now + HoldSeconds /\ pc[w] = "hold_update"
  BY RequestFields, TimeAssumption DEF HoldUpdate, TypeOK, ThreadsOK, HolderPc
<1> DEFINE new == [seat |-> s, user |-> u, token |-> t, until |-> until]
           r == [status |-> "held", heldByUserId |-> u, holdToken |-> t, heldUntil |-> until]
<1>2. row' = [row EXCEPT ![s] = r] /\ grants' = grants \cup {new} /\ clock' = clock
  BY <1>1 DEF HoldUpdate
<1>3. \A g \in grants : g.token # t
  BY <1>1 DEF TokenInv, Pending
<1>4. \A h \in LedgerGrants : h.token # t
  BY <1>3 DEF LedgerGrants
<1>5. \/ LedgerRows[s].status = "available"
      \/ LedgerRows[s].status = "held" /\ LedgerRows[s].holdToken \in LedgerLapsed
  <2>1. CASE row[s].status = "available"
    BY <1>1, <2>1, LedgerRowFields
  <2>2. CASE row[s].status = "held" /\ row[s].heldUntil <= clock
    <3>1. HoldOf(s, row[s]) \in grants
      BY <1>1, <2>2 DEF RowInv
    <3>2. HoldOf(s, row[s]).until <= clock /\ HoldOf(s, row[s]).token = row[s].holdToken
      BY <2>2 DEF HoldOf
    <3>3. row[s].holdToken \in LedgerLapsed
      BY <3>1, <3>2 DEF LedgerLapsed
    <3>4. QED
      BY <1>1, <2>2, <3>3, LedgerRowFields
  <2>3. QED
    BY <1>1, <2>1, <2>2 DEF UpdateInv
<1>6. LedgerRows' = [LedgerRows EXCEPT ![s] = [status |-> "held", heldByUserId |-> u, holdToken |-> t]]
  <2>1. LedgerRow(r) = [status |-> "held", heldByUserId |-> u, holdToken |-> t]
    BY DEF LedgerRow
  <2>2. LedgerRows' = [LedgerRows EXCEPT ![s] = LedgerRow(r)]
    BY <1>1, <1>2, RowWriteMaps DEF TypeOK, DbOK
  <2>3. QED
    BY <2>1, <2>2
<1>7. new.seat = s /\ new.user = u /\ new.token = t /\ new.until = until
  OBVIOUS
<1>8. LedgerGrants' = LedgerGrants \cup {[seat |-> s, user |-> u, token |-> t]}
  BY <1>2, <1>7 DEF LedgerGrants
<1>9. LedgerLapsed' \in {LedgerLapsed, LedgerLapsed \cup {t}}
  <2> HIDE DEF new
  <2>1. CASE until <= clock
    <3>1. LedgerLapsed' = LedgerLapsed \cup {t}
      BY <1>2, <1>7, <2>1 DEF LedgerLapsed
    <3>2. QED
      BY <3>1
  <2>2. CASE ~(until <= clock)
    <3>1. LedgerLapsed' = LedgerLapsed
      BY <1>2, <1>7, <2>2 DEF LedgerLapsed
    <3>2. QED
      BY <3>1
  <2>3. QED
    BY <2>1, <2>2
<1>10. Ledger!Grant(s, u, t)
  <2>1. Ledger!Unissued(t)
    BY <1>4 DEF Ledger!Unissued, LedgerGrants
  <2>2. QED
    BY <2>1, <1>5, <1>6, <1>8, <1>9 DEF Ledger!Grant, LedgerRows, LedgerRow, LedgerGrants, LedgerLapsed
<1>11. QED
  BY <1>1, <1>10 DEF Ledger!LedgerNext

\* A second that passes is Lapse: more grants may have run out, none comes back.
LEMMA TickMaps ==
  ASSUME TypeOK, Tick
  PROVE  [Ledger!LedgerNext]_Ledger!ledgerVars
<1>1. row' = row /\ grants' = grants /\ clock' = clock + 1 /\ clock \in Nat
  BY DEF Tick, TypeOK, Time, dbVars, history
<1>2. \A g \in grants : g.until \in Nat /\ g.token \in Tokens
  BY DEF TypeOK, HistoryOK, Grant, Time
<1>3. LedgerRows' = LedgerRows /\ LedgerGrants' = LedgerGrants
  BY <1>1 DEF LedgerRows, LedgerRow, LedgerGrants
<1>4. \A g \in grants : g.until <= clock => g.until <= clock'
  BY <1>1, <1>2
<1>5. \A g \in grants : g.token \in {h.token : h \in LedgerGrants}
  <2> SUFFICES ASSUME NEW g \in grants PROVE g.token \in {h.token : h \in LedgerGrants}
    OBVIOUS
  <2>1. [seat |-> g.seat, user |-> g.user, token |-> g.token] \in LedgerGrants
    BY DEF LedgerGrants
  <2>2. [seat |-> g.seat, user |-> g.user, token |-> g.token].token = g.token
    OBVIOUS
  <2>3. QED
    BY <2>1, <2>2
<1>6. PICK T : T = LedgerLapsed'
  OBVIOUS
<1>7. T \subseteq {h.token : h \in LedgerGrants} /\ T \in SUBSET Tokens
  BY <1>1, <1>2, <1>5, <1>6 DEF LedgerLapsed
<1>8. LedgerLapsed' = LedgerLapsed \cup T
  BY <1>1, <1>4, <1>6 DEF LedgerLapsed
<1>9. Ledger!Lapse(T)
  BY <1>3, <1>7, <1>8 DEF Ledger!Lapse, LedgerRows, LedgerRow, LedgerGrants, LedgerLapsed
<1>10. QED
  BY <1>7, <1>9 DEF Ledger!LedgerNext

-------------------------------------------------------------------------------
(* The refinement. *)

\* Every step of the service is a step of the ledger or is not seen by it.
LEMMA StepMaps ==
  ASSUME TypeOK, IInv, [Next]_vars
  PROVE  [Ledger!LedgerNext]_Ledger!ledgerVars
<1> DEFINE Goal == [Ledger!LedgerNext]_Ledger!ledgerVars
<1> USE DEF dbVars, history
<1>1. ASSUME NEW S \in SUBSET Seats, create_inventory_batch(S) PROVE Goal
  BY <1>1, BatchMaps DEF Ledger!LedgerNext
<1>2. ASSUME NEW w \in Workers, NEW s \in Seats, NEW u \in Users, HoldSeat(w, s, u) PROVE Goal
  BY <1>2, StutterMaps DEF HoldSeat
<1>3. ASSUME NEW w \in Workers, HoldLock(w) PROVE Goal
  BY <1>3, StutterMaps DEF HoldLock
<1>4. ASSUME NEW w \in Workers, HoldUpdate(w) PROVE Goal
  BY <1>4, HoldMaps DEF IInv
<1>5. ASSUME NEW w \in Workers, DbError(w) PROVE Goal
  BY <1>5, StutterMaps DEF DbError
<1>6. ASSUME NEW w \in Workers, HoldRetry(w) PROVE Goal
  BY <1>6, StutterMaps DEF HoldRetry
<1>7. ASSUME NEW w \in Workers, HoldCache(w) PROVE Goal
  BY <1>7, StutterMaps DEF HoldCache
<1>8. ASSUME NEW w \in Workers, NEW s \in Seats, NEW u \in Users, ReleaseSeat(w, s, u) PROVE Goal
  BY <1>8, StutterMaps DEF ReleaseSeat
<1>9. ASSUME NEW w \in Workers, ReleaseCheck(w) PROVE Goal
  BY <1>9, StutterMaps DEF ReleaseCheck
<1>10. ASSUME NEW w \in Workers, ReleaseTxn(w) PROVE Goal
  BY <1>10, ReleaseMaps
<1>11. ASSUME NEW w \in Workers, ReleaseResult(w) PROVE Goal
  BY <1>11, StutterMaps DEF ReleaseResult
<1>12. ASSUME NEW w \in Workers, NEW s \in Seats, NEW u \in Users, SellSeat(w, s, u) PROVE Goal
  BY <1>12, StutterMaps DEF SellSeat
<1>13. ASSUME NEW w \in Workers, SellTxn(w) PROVE Goal
  BY <1>13, SellMaps
<1>14. ASSUME NEW w \in Workers, NEW s \in Seats, GetSeatStatus(w, s) PROVE Goal
  BY <1>14, StutterMaps DEF GetSeatStatus
<1>15. ASSUME NEW w \in Workers, GetDecide(w) PROVE Goal
  BY <1>15, GetMaps DEF IInv
<1>16. ASSUME NEW w \in Workers, DeleteCache(w) PROVE Goal
  BY <1>16, StutterMaps DEF DeleteCache
<1>17. ASSUME Tick PROVE Goal
  BY <1>17, TickMaps
<1>18. ASSUME UNCHANGED vars PROVE Goal
  BY <1>18, StutterMaps DEF vars
<1> HIDE DEF Goal
<1>19. Goal
  BY <1>1, <1>2, <1>3, <1>4, <1>5, <1>6, <1>7, <1>8, <1>9, <1>10, <1>11, <1>12, <1>13,
     <1>14, <1>15, <1>16, <1>17, <1>18 DEF Next, Call, Step
<1>20. QED
  BY <1>19 DEF Goal

\* The seat-inventory service, with its threads, row locks, Redis calls, retries and
\* expiring holds, implements the ledger the saga relies on.
THEOREM Refinement == Spec => ImplementsLedger
<1>1. Init => Ledger!LedgerInit
  <2> SUFFICES ASSUME Init PROVE Ledger!LedgerInit
    OBVIOUS
  <2>1. \A s \in Seats : LedgerRow(row[s]) = Ledger!Bare("absent")
    BY BareMaps DEF Init
  <2>2. LedgerRows = [s \in Seats |-> Ledger!Bare("absent")]
    BY <2>1 DEF LedgerRows
  <2>3. LedgerGrants = {} /\ LedgerLapsed = {}
    BY DEF Init, LedgerGrants, LedgerLapsed
  <2>4. QED
    BY <2>2, <2>3 DEF Ledger!LedgerInit, LedgerRows, LedgerRow, LedgerGrants, LedgerLapsed
<1>2. TypeOK /\ IInv /\ [Next]_vars => [Ledger!LedgerNext]_Ledger!ledgerVars
  BY StepMaps
<1>3. QED
  BY <1>1, <1>2, TypeCorrect, Invariance, PTL DEF Spec, ImplementsLedger, Ledger!LedgerSpec

===============================================================================
