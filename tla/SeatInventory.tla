----------------------------- MODULE SeatInventory -----------------------------
(***************************************************************************)
(* services/seat-inventory-service: the seat_inventory table, its row      *)
(* locks, the Redis hold cache and release-idempotency keys, and the gRPC  *)
(* handlers of grpc_server.py running on the threads of server.py.         *)
(*                                                                         *)
(* A handler is cut where another thread can get in between: before it     *)
(* waits for the row lock, between the lock and the commit, and between    *)
(* the commit and each Redis call.  A transaction whose locked section     *)
(* makes no outside call is one step that needs the lock to be free.       *)
(* Redis calls may fail; a failure leaves Redis as it was.                 *)
(***************************************************************************)
EXTENDS Naturals

CONSTANTS Seats,               \* inventoryIds
          Users,               \* user ids
          Tokens,              \* hold tokens; their number bounds the holds
          Workers,             \* threads of the gRPC server
          Null,                \* SQL NULL / None / a missing Redis key
          HoldSeconds,         \* hold_duration_seconds of every request
          IdempotencySeconds,  \* ttl of an idempotent:release key
          MaxDeadlockRetries,  \* MAX_DEADLOCK_RETRIES
          MaxTime              \* bound on the clock

ASSUME NullAssumption ==
  Null \notin Users /\ Null \notin Tokens /\ Null \notin Seats /\ Null \notin Workers
ASSUME TimeAssumption ==
  /\ HoldSeconds \in Nat \ {0} /\ IdempotencySeconds \in Nat \ {0}
  /\ MaxDeadlockRetries \in Nat \ {0} /\ MaxTime \in Nat

VARIABLES row,         \* row[s]: the committed row of seat s
          lock,        \* lock[s]: the thread in a SELECT ... FOR UPDATE, or Null
          cache,       \* cache[s]: the Redis entry hold:{s}, or Null
          idempotent,  \* idempotent[<<s, t>>]: idempotent:release:{s}:{t}, or Null
          clock,
          pc,          \* pc[w]: the step thread w is at
          req,         \* req[w]: the request it works on, and when it looked at the clock
          attempt,     \* attempt[w]: HoldSeat's loop variable
          read,        \* read[w]: the row GetSeatStatus read
          \* History: what callers were told.
          grants,      \* every hold committed by HoldSeat
          released,    \* tokens released by ReleaseSeat
          sales,       \* sales[s]: tokens with which SellSeat sold s
          overwritten  \* seats where GetSeatStatus cleared a row it had not read

dbVars == <<row, lock>>
redisVars == <<cache, idempotent>>
history == <<grants, released, sales, overwritten>>
threads == <<pc, req, attempt, read>>
vars == <<row, lock, cache, idempotent, clock, pc, req, attempt, read, grants, released, sales, overwritten>>

-------------------------------------------------------------------------------
Time == Nat
HolderPc == {"hold_retry", "hold_lock", "hold_update", "hold_cache", "rel_check",
             "rel_txn", "rel_del", "rel_done", "rel_failed", "sell_txn"}
Pc == HolderPc \cup {"idle", "get_decide", "del"}

Row == [status : {"absent", "available", "held", "sold"},
        heldByUserId : Users \cup {Null}, holdToken : Tokens \cup {Null},
        heldUntil : Time]

Grant == [seat : Seats, user : Users, token : Tokens, until : Time]

CacheEntry == [heldByUserId : Users, holdToken : Tokens, heldUntil : Time, expires : Time]

Result == [success : BOOLEAN, expires : Time]

Request == [seat : Seats \cup {Null}, user : Users \cup {Null},
            token : Tokens \cup {Null}, now : Time]

DbOK == row \in [Seats -> Row] /\ lock \in [Seats -> Workers \cup {Null}]

RedisOK ==
  /\ cache \in [Seats -> CacheEntry \cup {Null}]
  /\ idempotent \in [Seats \X Tokens -> Result \cup {Null}]

\* A busy thread has a seat; the steps that deal with a hold have its user and token.
ThreadsOK ==
  /\ pc \in [Workers -> Pc]
  /\ req \in [Workers -> Request]
  /\ attempt \in [Workers -> Nat]
  /\ read \in [Workers -> Row]
  /\ \A w \in Workers :
       /\ pc[w] # "idle" => req[w].seat \in Seats
       /\ pc[w] \in HolderPc => req[w].user \in Users /\ req[w].token \in Tokens

HistoryOK ==
  /\ grants \subseteq Grant
  /\ released \subseteq Tokens
  /\ sales \in [Seats -> SUBSET Tokens]
  /\ overwritten \subseteq Seats

\* Every handler keeps the table, Redis and its own variables well formed.
TypeOK == DbOK /\ RedisOK /\ clock \in Time /\ ThreadsOK /\ HistoryOK

-------------------------------------------------------------------------------
\* A row nobody holds; heldUntil is 0 where the column is NULL.
Bare(status) == [status |-> status, heldByUserId |-> Null, holdToken |-> Null, heldUntil |-> 0]

\* Mutants of hold_has_expired: every hold counts as expired; the NULL guards are
\* dropped, so that a sold row passes for an expired hold.
hold_always_expired(r, now) == r.status = "held" /\ r.heldUntil # 0
hold_expired_unguarded(r, now) == r.status # "absent" /\ r.heldUntil <= now

hold_has_expired(r, now) == r.status = "held" /\ r.heldUntil # 0 /\ r.heldUntil <= now

\* Mutant: a status outside the column's vocabulary.
clear_hold_released(s) == row' = [row EXCEPT ![s] = Bare("released")]

clear_hold(s) == row' = [row EXCEPT ![s] = Bare("available")]

\* The test ReleaseSeat and SellSeat make on the locked row.
HeldBy(r, u, t) == r.status = "held" /\ r.heldByUserId = u /\ r.holdToken = t

Req(s, u, t, now) == [seat |-> s, user |-> u, token |-> t, now |-> now]

NoReq == Req(Null, Null, Null, 0)

\* A thread takes up a request, goes on to another step, or answers.
Accept(w, step, r) ==
  pc' = [pc EXCEPT ![w] = step] /\ req' = [req EXCEPT ![w] = r] /\ UNCHANGED attempt

Goto(w, step) == pc' = [pc EXCEPT ![w] = step] /\ UNCHANGED <<req, attempt, read>>

Respond(w) ==
  /\ pc' = [pc EXCEPT ![w] = "idle"]
  /\ req' = [req EXCEPT ![w] = NoReq]
  /\ attempt' = [attempt EXCEPT ![w] = 0]
  /\ read' = [read EXCEPT ![w] = Bare("absent")]

\* uuid4: a token no hold has and no thread carries.
Fresh(t) == (\A g \in grants : g.token # t) /\ (\A v \in Workers : req[v].token # t)

delete_hold_cache(s) == cache' = [cache EXCEPT ![s] = Null] \/ UNCHANGED cache

\* Mutant: the expiry is computed again when the cache is written.
write_hold_cache_now(w) ==
  \/ cache' = [cache EXCEPT ![req[w].seat] =
        [heldByUserId |-> req[w].user, holdToken |-> req[w].token,
         heldUntil |-> clock + HoldSeconds, expires |-> clock + HoldSeconds]]
  \/ UNCHANGED cache

write_hold_cache(w) ==
  \/ cache' = [cache EXCEPT ![req[w].seat] =
        [heldByUserId |-> req[w].user, holdToken |-> req[w].token,
         heldUntil |-> req[w].now + HoldSeconds, expires |-> clock + HoldSeconds]]
  \/ UNCHANGED cache

cache_idempotency_result(w) ==
  \/ idempotent' = [idempotent EXCEPT ![<<req[w].seat, req[w].token>>] =
        [success |-> (pc[w] = "rel_done"), expires |-> clock + IdempotencySeconds]]
  \/ UNCHANGED idempotent

-------------------------------------------------------------------------------
Init ==
  /\ row = [s \in Seats |-> Bare("absent")]
  /\ lock = [s \in Seats |-> Null]
  /\ cache = [s \in Seats |-> Null]
  /\ idempotent = [k \in Seats \X Tokens |-> Null]
  /\ clock = 0
  /\ pc = [w \in Workers |-> "idle"]
  /\ req = [w \in Workers |-> NoReq]
  /\ attempt = [w \in Workers |-> 0]
  /\ read = [w \in Workers |-> Bare("absent")]
  /\ grants = {}
  /\ released = {}
  /\ sales = [s \in Seats |-> {}]
  /\ overwritten = {}

\* POST /inventory/batch.  The check for existing rows is made in an earlier
\* statement, so what decides is the unique constraint at the commit.  The route
\* stores whatever status it is sent; its only caller in the repository, creating an
\* event in event-orchestrator, sends "available" for every seat.
create_inventory_batch(S) ==
  /\ S # {} /\ \A s \in S : row[s].status = "absent"
  /\ row' = [s \in Seats |-> IF s \in S THEN Bare("available") ELSE row[s]]
  /\ UNCHANGED <<lock, redisVars, clock, threads, history>>

-------------------------------------------------------------------------------
\* HoldSeat: the time and the token are taken before the row is locked.
HoldSeat(w, s, u) ==
  /\ pc[w] = "idle"
  /\ \E t \in Tokens :
       /\ Fresh(t)
       /\ Accept(w, "hold_lock", Req(s, u, t, clock))
  /\ UNCHANGED <<read, dbVars, redisVars, clock, history>>

\* Mutant: the SEAT_NOT_AVAILABLE path returns without a rollback.
HoldLockNoRollback(w) ==
  LET s == req[w].seat IN
  /\ pc[w] = "hold_lock"
  /\ lock[s] = Null
  /\ lock' = [lock EXCEPT ![s] = w]
  /\ IF row[s].status = "available" \/ hold_has_expired(row[s], req[w].now)
       THEN Goto(w, "hold_update") ELSE Respond(w)
  /\ UNCHANGED <<row, redisVars, clock, history>>

\* SELECT ... FOR UPDATE.  A lapsed hold is cleared in the open transaction and
\* its cache entry deleted; a row that is then not available is left alone.
HoldLock(w) ==
  LET s == req[w].seat IN
  /\ pc[w] = "hold_lock"
  /\ lock[s] = Null
  /\ \/ /\ hold_has_expired(row[s], req[w].now)
        /\ delete_hold_cache(s)
        /\ lock' = [lock EXCEPT ![s] = w] /\ Goto(w, "hold_update")
     \/ /\ row[s].status = "available"
        /\ lock' = [lock EXCEPT ![s] = w] /\ Goto(w, "hold_update")
        /\ UNCHANGED cache
     \/ /\ row[s].status # "available" /\ ~hold_has_expired(row[s], req[w].now)
        /\ Respond(w)
        /\ UNCHANGED <<lock, cache>>
  /\ UNCHANGED <<row, idempotent, clock, history>>

\* UPDATE ... WHERE status = 'available' and COMMIT.  The row is locked and was
\* found or made available, so the update always hits exactly one row.
HoldUpdate(w) ==
  LET s == req[w].seat
      until == req[w].now + HoldSeconds IN
  /\ pc[w] = "hold_update"
  /\ row' = [row EXCEPT ![s] = [status |-> "held", heldByUserId |-> req[w].user,
                                holdToken |-> req[w].token, heldUntil |-> until]]
  /\ lock' = [lock EXCEPT ![s] = Null]
  /\ grants' = grants \cup {[seat |-> s, user |-> req[w].user,
                             token |-> req[w].token, until |-> until]}
  /\ Goto(w, "hold_cache")
  /\ UNCHANGED <<redisVars, clock, released, sales, overwritten>>

\* A database error before the commit.  HoldSeat rolls back and tries again (a
\* deadlock with attempts left) or answers DEADLOCK_FAILED, DATABASE_ERROR or
\* INTERNAL_ERROR; the other RPCs fail, and leaving app_context rolls back.
DbError(w) ==
  /\ pc[w] \in {"hold_lock", "hold_update", "rel_txn", "sell_txn", "get_decide"}
  /\ lock' = [lock EXCEPT ![req[w].seat] = IF @ = w THEN Null ELSE @]
  /\ \/ /\ pc[w] \in {"hold_lock", "hold_update"} /\ attempt[w] + 1 < MaxDeadlockRetries
        /\ Goto(w, "hold_retry")
     \/ Respond(w)
  /\ UNCHANGED <<row, redisVars, clock, history>>

\* The next attempt, after the backoff.  The code draws another token; the one
\* it drops was never disclosed, so it may as well be the same.
HoldRetry(w) ==
  /\ pc[w] = "hold_retry"
  /\ pc' = [pc EXCEPT ![w] = "hold_lock"]
  /\ req' = [req EXCEPT ![w] = Req(req[w].seat, req[w].user, req[w].token, clock)]
  /\ attempt' = [attempt EXCEPT ![w] = @ + 1]
  /\ UNCHANGED <<read, dbVars, redisVars, clock, history>>

\* After the commit: write hold:{s} and answer.
HoldCache(w) ==
  /\ pc[w] = "hold_cache"
  /\ write_hold_cache(w)
  /\ Respond(w)
  /\ UNCHANGED <<dbVars, idempotent, clock, history>>

-------------------------------------------------------------------------------
\* ReleaseSeat is called with a token that some hold was granted with; whoever
\* learnt it may send it, with any user id and any seat.
ReleaseSeat(w, s, u) ==
  /\ pc[w] = "idle"
  /\ \E g \in grants : Accept(w, "rel_check", Req(s, u, g.token, 0))
  /\ UNCHANGED <<read, dbVars, redisVars, clock, history>>

\* check_idempotency: a stored result is the answer; a miss or a Redis error
\* goes on to the database.
ReleaseCheck(w) ==
  /\ pc[w] = "rel_check"
  /\ \/ idempotent[<<req[w].seat, req[w].token>>] # Null /\ Respond(w)
     \/ Goto(w, "rel_txn")
  /\ UNCHANGED <<dbVars, redisVars, clock, history>>

\* Mutant: success is reported whether or not the row was released.
ReleaseTxnAlwaysTrue(w) ==
  LET s == req[w].seat
      t == req[w].token
      held == HeldBy(row[s], req[w].user, t) IN
  /\ pc[w] = "rel_txn"
  /\ lock[s] = Null
  /\ IF held THEN clear_hold(s) /\ released' = released \cup {t} ELSE UNCHANGED <<row, released>>
  /\ Goto(w, "rel_del")
  /\ UNCHANGED <<lock, redisVars, clock, grants, sales, overwritten>>

ReleaseTxn(w) ==
  LET s == req[w].seat
      t == req[w].token IN
  /\ pc[w] = "rel_txn"
  /\ lock[s] = Null
  /\ \/ /\ HeldBy(row[s], req[w].user, t)
        /\ clear_hold(s)
        /\ released' = released \cup {t}
        /\ Goto(w, "rel_del")
     \/ /\ ~HeldBy(row[s], req[w].user, t)
        /\ Goto(w, "rel_failed")
        /\ UNCHANGED <<row, released>>
  /\ UNCHANGED <<lock, redisVars, clock, grants, sales, overwritten>>

\* The result is remembered under the idempotency key, then returned.
ReleaseResult(w) ==
  /\ pc[w] \in {"rel_done", "rel_failed"}
  /\ cache_idempotency_result(w)
  /\ Respond(w)
  /\ UNCHANGED <<dbVars, cache, clock, history>>

-------------------------------------------------------------------------------
SellSeat(w, s, u) ==
  /\ pc[w] = "idle"
  /\ \E g \in grants : Accept(w, "sell_txn", Req(s, u, g.token, 0))
  /\ UNCHANGED <<read, dbVars, redisVars, clock, history>>

\* The holder's token is all that SellSeat asks for: a hold that has run out but
\* that nobody cleared is sold like any other.
SellTxn(w) ==
  LET s == req[w].seat
      t == req[w].token IN
  /\ pc[w] = "sell_txn"
  /\ lock[s] = Null
  /\ \/ /\ HeldBy(row[s], req[w].user, t)
        /\ row' = [row EXCEPT ![s] = Bare("sold")]
        /\ sales' = [sales EXCEPT ![s] = @ \cup {t}]
        /\ Goto(w, "del")
     \/ /\ ~HeldBy(row[s], req[w].user, t)
        /\ Respond(w)
        /\ UNCHANGED <<row, sales>>
  /\ UNCHANGED <<lock, redisVars, clock, grants, released, overwritten>>

-------------------------------------------------------------------------------
\* GetSeatStatus reads the committed row without locking it ...
GetSeatStatus(w, s) ==
  /\ pc[w] = "idle"
  /\ Accept(w, "get_decide", Req(s, Null, Null, 0))
  /\ read' = [read EXCEPT ![w] = row[s]]
  /\ UNCHANGED <<dbVars, redisVars, clock, history>>

\* ... and, if the hold it READ has expired, sets the row to available by primary
\* key.  The UPDATE waits for a row lock but does not look at the row again.
GetDecide(w) ==
  LET s == req[w].seat IN
  /\ pc[w] = "get_decide"
  /\ \/ /\ ~hold_has_expired(read[w], clock)
        /\ Respond(w)
        /\ UNCHANGED <<row, overwritten>>
     \/ /\ hold_has_expired(read[w], clock)
        /\ lock[s] = Null
        /\ clear_hold(s)
        /\ overwritten' = IF row[s] = read[w] THEN overwritten ELSE overwritten \cup {s}
        /\ Goto(w, "del")
  /\ UNCHANGED <<lock, redisVars, clock, grants, released, sales>>

\* The last Redis call of ReleaseSeat, SellSeat and GetSeatStatus: up to
\* CACHE_RETRY_ATTEMPTS deletes, all of which may fail.
DeleteCache(w) ==
  /\ pc[w] \in {"rel_del", "del"}
  /\ delete_hold_cache(req[w].seat)
  /\ IF pc[w] = "rel_del" THEN Goto(w, "rel_done") ELSE Respond(w)
  /\ UNCHANGED <<dbVars, idempotent, clock, history>>

-------------------------------------------------------------------------------
\* A second passes; Redis drops the keys whose time to live is over.
Tick ==
  /\ clock < MaxTime
  /\ clock' = clock + 1
  /\ cache' = [s \in Seats |-> IF cache[s] # Null /\ cache[s].expires <= clock' THEN Null ELSE cache[s]]
  /\ idempotent' = [k \in Seats \X Tokens |->
       IF idempotent[k] # Null /\ idempotent[k].expires <= clock' THEN Null ELSE idempotent[k]]
  /\ UNCHANGED <<dbVars, threads, history>>

Call(w) == \E s \in Seats :
  \/ \E u \in Users : HoldSeat(w, s, u) \/ ReleaseSeat(w, s, u) \/ SellSeat(w, s, u)
  \/ GetSeatStatus(w, s)

\* What a thread does of its own accord once it has been called.
Step(w) == \/ HoldLock(w) \/ HoldUpdate(w) \/ HoldRetry(w) \/ HoldCache(w)
           \/ ReleaseCheck(w) \/ ReleaseTxn(w) \/ ReleaseResult(w)
           \/ SellTxn(w) \/ GetDecide(w) \/ DeleteCache(w)

Next ==
  \/ \E S \in SUBSET Seats : create_inventory_batch(S)
  \/ \E w \in Workers : Call(w) \/ Step(w) \/ DbError(w)
  \/ Tick

Spec == Init /\ [][Next]_vars

\* Fairness: the server's thread pool runs every thread, and PostgreSQL queues
\* the waiters of a row lock first come, first served, so that a thread waiting
\* for a row is not passed over for ever.
Fairness == \A w \in Workers : SF_vars(Step(w))

FairSpec == Spec /\ Fairness

-------------------------------------------------------------------------------
\* A hold its user still counts on: neither run out, nor given back, nor sold.
Live(g) == g.until > clock /\ g.token \notin released /\ g.token \notin sales[g.seat]

\* The row as HoldSeat left it when it granted g.
HeldRow(g) == [status |-> "held", heldByUserId |-> g.user,
               holdToken |-> g.token, heldUntil |-> g.until]

\* HoldSeat, ReleaseSeat, SellSeat and the reclaiming of lapsed holds never take
\* away a hold that is still good: the row is that hold until its user gives it
\* back, buys, or lets it run out.  (So no two users hold one seat.)  The only
\* seats excepted are those GetSeatStatus overwrote.
HoldHonoured ==
  \A g \in grants : Live(g) /\ g.seat \notin overwritten => row[g.seat] = HeldRow(g)

\* SellSeat sells a seat once: a sold row stays sold and no second token ever
\* buys it, except where GetSeatStatus overwrote the row.
SoldOnce ==
  \A s \in Seats \ overwritten :
     /\ sales[s] # {} => row[s].status = "sold"
     /\ \A t1, t2 \in sales[s] : t1 = t2

\* GetSeatStatus endangers only seats that some hold of ran out before it wrote:
\* as long as every buyer finishes in time, its unlocked write harms nobody.
OverwriteNeedsLapse ==
  \A s \in overwritten : \E g \in grants : g.seat = s /\ g.until <= clock

\* Once the idempotency key answers "released" for a token, that token's hold is
\* over for good: repeating ReleaseSeat may skip the database and still be right.
ReleaseAckIsFinal ==
  \A s \in Seats, t \in Tokens :
     idempotent[<<s, t>>] # Null /\ idempotent[<<s, t>>].success => row[s].holdToken # t

\* A Redis hold entry, however late it was written, describes a hold HoldSeat
\* committed, with the expiry the row was given.
CacheAuthentic ==
  \A s \in Seats : cache[s] # Null =>
     [seat |-> s, user |-> cache[s].heldByUserId, token |-> cache[s].holdToken,
      until |-> cache[s].heldUntil] \in grants

\* Every RPC is answered: whatever fails, no path through a handler keeps the row
\* lock, and no thread waits for a row for ever.
CallsAreAnswered == \A w \in Workers : pc[w] # "idle" ~> pc[w] = "idle"

\* The contract calls GetSeatStatus a read-only check: no step but a sale touches
\* a sold row.
SoldRowIsLeftAlone == [][\A s \in Seats : row[s].status = "sold" => row'[s] = row[s]]_vars

-------------------------------------------------------------------------------
\* The detailed service implements the abstract ledger: a row without its expiry,
\* the holds granted so far, and those of them whose time is over.
Ledger == INSTANCE SeatLedger WITH
  ledger <- [s \in Seats |-> [status |-> row[s].status, heldByUserId |-> row[s].heldByUserId,
                              holdToken |-> row[s].holdToken]],
  granted <- {[seat |-> g.seat, user |-> g.user, token |-> g.token] : g \in grants},
  lapsed <- {g.token : g \in {h \in grants : h.until <= clock}}

\* All that locks, caches, retries and threads add to the ledger is stuttering.
ImplementsLedger == Ledger!LedgerSpec
===============================================================================
