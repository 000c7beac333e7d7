------------------------------ MODULE TopUpProofs ------------------------------
(***************************************************************************)
(* Proofs of the safety properties of TopUp for any number of users,       *)
(* payments and requests, any amount and any number of mishaps.            *)
(***************************************************************************)
EXTENDS TopUp, TLAPS

-------------------------------------------------------------------------------
(* The inductive invariants. *)

\* A payment that was asked for has an owner, and a request works on a payment
\* that was made.
JobInv ==
  /\ \A p \in Intents : intents[p].status # "none" => intents[p].user \in Users
  /\ \A c \in Calls : pc[c] \in Working =>
       /\ job[c].route \in Route /\ job[c].intent \in Intents
       /\ intents[job[c].intent].status = "succeeded"

\* A request is working on payment p.
On(c, p) == pc[c] \in Working /\ job[c].intent = p

OneAt(p) == \A c, d \in Calls : On(c, p) /\ On(d, p) => c = d

\* A credited payment is on record, or a request is about to put it there.
Told(p) ==
  credited[p] = 1 =>
    <<"pi", p>> \in rows \/ \E c \in Calls : pc[c] = "log" /\ job[c].intent = p

\* A request that is past the look at the record is for a payment not credited yet.
Fresh(p) ==
  \A c \in Calls : pc[c] \in {"read", "write"} /\ job[c].intent = p => credited[p] = 0

\* The guard against double credit, for a payment that no two requests met at and
\* of which the record can tell.
GuardInv ==
  \A p \in Intents \ (overlapped \cup unsure) :
    OneAt(p) /\ credited[p] <= 1 /\ Told(p) /\ Fresh(p)

\* The balance of a user whose balance never changed between a read and its write
\* is right, and so is every balance a request has read and not written yet.
BalanceInv ==
  \A u \in Users \ raced :
    /\ balance[u] = bought[u] - spent[u]
    /\ \A c \in Calls : pc[c] = "write" /\ intents[job[c].intent].user = u =>
         job[c].balance = balance[u]

-------------------------------------------------------------------------------
(* What a step does to the requests. *)

JobType == [route : Route \cup {Null}, intent : Intents \cup {Null}, balance : Nat]

\* The requests are well formed: the part of the invariants about pc and job.
CallsOK == pc \in [Calls -> Working \cup {"idle"}] /\ job \in [Calls -> JobType]

\* A job that is over, one that begins and one with the balance it read.
LEMMA JobTypes ==
  /\ NoJob \in JobType
  /\ \A route \in Route, p \in Intents :
       LET j == [NoJob EXCEPT !.route = route, !.intent = p] IN
       j \in JobType /\ j.route = route /\ j.intent = p
  /\ \A j \in JobType, b \in Nat :
       LET k == [j EXCEPT !.balance = b] IN
       k \in JobType /\ k.route = j.route /\ k.intent = j.intent /\ k.balance = b
  BY DEF NoJob, JobType

\* A request that ends is idle; the others are as they were.
LEMMA EndOK ==
  ASSUME CallsOK, NEW c \in Calls, End(c)
  PROVE  /\ CallsOK' /\ pc'[c] = "idle"
         /\ \A d \in Calls \ {c} : pc'[d] = pc[d] /\ job'[d] = job[d]
  BY JobTypes DEF CallsOK, End

\* A request that goes on keeps its job; the others are as they were.
LEMMA GotoOK ==
  ASSUME CallsOK, NEW c \in Calls, NEW step \in Working, Goto(c, step)
  PROVE  /\ CallsOK' /\ pc'[c] = step /\ UNCHANGED <<job, acked>>
         /\ \A d \in Calls \ {c} : pc'[d] = pc[d]
  BY DEF CallsOK, Goto

\* A request that read a balance keeps its route and payment.
LEMMA SetBalanceOK ==
  ASSUME CallsOK, NEW c \in Calls, NEW b \in Nat, SetBalance(c, b)
  PROVE  /\ CallsOK' /\ pc'[c] = "write" /\ UNCHANGED acked
         /\ job'[c].route = job[c].route /\ job'[c].intent = job[c].intent /\ job'[c].balance = b
         /\ \A d \in Calls \ {c} : pc'[d] = pc[d] /\ job'[d] = job[d]
<1> DEFINE j == [job[c] EXCEPT !.balance = b]
<1>1. job[c] \in JobType
  BY DEF CallsOK
<1>2. j \in JobType /\ j.route = job[c].route /\ j.intent = job[c].intent /\ j.balance = b
  BY <1>1, JobTypes
<1>3. job' = [job EXCEPT ![c] = j] /\ pc' = [pc EXCEPT ![c] = "write"] /\ UNCHANGED acked
  BY DEF SetBalance
<1> HIDE DEF j
<1>4. QED
  BY <1>2, <1>3 DEF CallsOK, Working

\* A request that begins has its route and payment; the others are as they were.
LEMMA BeginOK ==
  ASSUME CallsOK, NEW c \in Calls, NEW route \in Route, NEW p \in Intents, Begin(c, route, p)
  PROVE  /\ CallsOK' /\ pc[c] = "idle" /\ pc'[c] = "reference"
         /\ job'[c].route = route /\ job'[c].intent = p
         /\ \A d \in Calls \ {c} : pc'[d] = pc[d] /\ job'[d] = job[d]
<1> DEFINE j == [NoJob EXCEPT !.route = route, !.intent = p]
<1>1. j \in JobType /\ j.route = route /\ j.intent = p
  BY JobTypes
<1>2. pc[c] = "idle" /\ pc' = [pc EXCEPT ![c] = "reference"] /\ job' = [job EXCEPT ![c] = j]
  BY DEF Begin
<1> HIDE DEF j
<1>3. QED
  BY <1>1, <1>2 DEF CallsOK, Working

-------------------------------------------------------------------------------
(* Types, and what a request is about. *)

\* The requests of TypeOK are CallsOK.
LEMMA TypeCalls == TypeOK => CallsOK
  BY DEF TypeOK, CallsOK, JobType

\* The owner of the payment a request works on.
LEMMA Owner ==
  ASSUME TypeOK, JobInv, NEW c \in Calls, pc[c] \in Working
  PROVE  /\ job[c].intent \in Intents /\ job[c].route \in Route /\ job[c].balance \in Nat
         /\ intents[job[c].intent].user \in Users
         /\ balance[intents[job[c].intent].user] \in Nat
<1>1. job[c].intent \in Intents /\ job[c].route \in Route
      /\ intents[job[c].intent].user \in Users
  BY DEF JobInv
<1>2. job[c].balance \in Nat
  BY DEF TypeOK
<1>3. balance[intents[job[c].intent].user] \in Nat
  BY <1>1 DEF TypeOK
<1>4. QED
  BY <1>1, <1>2, <1>3

\* JobInv, kept by a step that leaves the payments alone and lets a request either
\* end or keep its payment.
LEMMA JobKept ==
  ASSUME JobInv, UNCHANGED intents,
         \A c \in Calls : pc'[c] \in Working =>
            /\ pc[c] \in Working
            /\ job'[c].route = job[c].route /\ job'[c].intent = job[c].intent
  PROVE  JobInv'
  BY DEF JobInv

\* Payments are created and made in the name of their owner.
LEMMA TypePayment ==
  ASSUME TypeOK, JobInv, NEW p \in Intents,
         Pay(p) \/ \E u \in Users : initiate_topup(u, p)
  PROVE  TypeOK' /\ JobInv'
<1> DEFINE Payment == [user : Users \cup {Null}, status : {"none", "created", "succeeded"}]
<1>1. CASE Pay(p)
  <2> DEFINE r == [intents[p] EXCEPT !.status = "succeeded"]
  <2>1. /\ r \in Payment /\ r.user = intents[p].user /\ r.status = "succeeded"
        /\ intents[p].status = "created"
    BY <1>1 DEF TypeOK, Pay
  <2>2. intents' = [intents EXCEPT ![p] = r]
    BY <1>1 DEF Pay
  <2> HIDE DEF r
  <2>3. TypeOK'
    BY <1>1, <2>1, <2>2 DEF TypeOK, Pay, history
  <2>4. UNCHANGED <<pc, job>>
    BY <1>1 DEF Pay
  <2>5. QED
    BY <2>1, <2>2, <2>3, <2>4 DEF JobInv, TypeOK
<1>2. ASSUME NEW u \in Users, initiate_topup(u, p) PROVE TypeOK' /\ JobInv'
  <2> DEFINE r == [user |-> u, status |-> "created"]
  <2>1. r \in Payment /\ r.user = u /\ intents[p].status = "none"
    BY <1>2 DEF initiate_topup
  <2>2. intents' = [intents EXCEPT ![p] = r]
    BY <1>2 DEF initiate_topup, create_payment_intent
  <2> HIDE DEF r
  <2>3. TypeOK'
    BY <1>2, <2>1, <2>2 DEF TypeOK, initiate_topup, history
  <2>4. UNCHANGED <<pc, job>>
    BY <1>2 DEF initiate_topup
  <2>5. QED
    BY <2>1, <2>2, <2>3, <2>4 DEF JobInv, TypeOK
<1>3. QED
  BY <1>1, <1>2

\* A request is taken up for a payment that was made.
LEMMA TypeBegin ==
  ASSUME TypeOK, JobInv, NEW c \in Calls, NEW p \in Intents,
         stripe_webhook(c, p) \/ \E u \in Users : confirm_topup(c, u, p)
  PROVE  TypeOK' /\ JobInv'
<1>1. intents[p].status = "succeeded" /\ \E route \in Route : Begin(c, route, p)
  BY NullAssumption
     DEF stripe_webhook, webhook_event, confirm_topup, retrieve_payment_intent, Route
<1>2. PICK route \in Route : Begin(c, route, p)
  BY <1>1
<1>3. /\ CallsOK' /\ pc[c] = "idle" /\ pc'[c] = "reference"
      /\ job'[c].route = route /\ job'[c].intent = p
      /\ \A d \in Calls \ {c} : pc'[d] = pc[d] /\ job'[d] = job[d]
  BY <1>2, BeginOK, TypeCalls
<1>4. TypeOK'
  BY <1>2, <1>3 DEF TypeOK, Begin, CallsOK, JobType
<1>5. UNCHANGED intents
  BY <1>2 DEF Begin
<1>6. QED
  BY <1>1, <1>3, <1>4, <1>5 DEF JobInv

\* Balances stay natural numbers, and a request keeps its payment until it ends.
LEMMA TypeStep ==
  ASSUME TypeOK, JobInv, NEW c \in Calls, Step(c) \/ Kill(c)
  PROVE  TypeOK' /\ JobInv'
<1> USE TypeCalls
<1>1. CASE CheckReference(c)
  <2>1. pc[c] \in Working /\ UNCHANGED <<intents, balance, rows, credited, bought, spent, raced, overlapped>>
    BY <1>1 DEF CheckReference, Working
  <2>2. job[c].intent \in Intents
    BY <2>1, Owner
  <2>3. mishaps' \in 0..MaxMishaps /\ unsure' \subseteq Intents
    BY <1>1, <2>2, AmountAssumption DEF CheckReference, Mishap, Answered, TypeOK
  <2>4. CASE Ok(c)
    <3>1. End(c) /\ acked' \subseteq Intents
      BY <2>2, <2>4 DEF Ok, TypeOK
    <3>2. CallsOK' /\ JobInv'
      BY <2>1, <3>1, EndOK, JobKept DEF Working
    <3>3. QED
      BY <2>1, <2>3, <3>1, <3>2 DEF TypeOK, CallsOK, JobType
  <2>5. CASE Goto(c, "read")
    <3>1. CallsOK' /\ JobInv' /\ UNCHANGED acked
      <4>1. "read" \in Working
        BY DEF Working
      <4>2. QED
        BY <2>1, <2>5, <4>1, GotoOK, JobKept
    <3>2. QED
      BY <2>1, <2>3, <3>1 DEF TypeOK, CallsOK, JobType
  <2>6. QED
    BY <1>1, <2>4, <2>5 DEF CheckReference
<1>2. CASE ReadBalance(c)
  <2>1. pc[c] \in Working /\ UNCHANGED <<intents, balance, rows, history>>
    BY <1>2 DEF ReadBalance, Working
  <2>2. balance[intents[job[c].intent].user] \in Nat
    BY <2>1, Owner
  <2>3. CASE SetBalance(c, balance[intents[job[c].intent].user])
    <3>1. CallsOK' /\ JobInv' /\ UNCHANGED acked
      BY <2>1, <2>2, <2>3, SetBalanceOK, JobKept DEF Working
    <3>2. QED
      BY <1>2, <2>1, <3>1, AmountAssumption
         DEF ReadBalance, TypeOK, CallsOK, JobType, Mishap, Answered, history
  <2>4. CASE Fail(c)
    <3>1. CallsOK' /\ JobInv' /\ UNCHANGED acked
      BY <2>1, <2>4, EndOK, JobKept DEF Fail, Working
    <3>2. QED
      BY <1>2, <2>1, <3>1, AmountAssumption
         DEF ReadBalance, TypeOK, CallsOK, JobType, Mishap, Answered, history
  <2>5. QED
    BY <1>2, <2>3, <2>4 DEF ReadBalance
<1>3. CASE WriteBalance(c)
  <2> DEFINE p == job[c].intent
             u == intents[p].user
  <2>1. pc[c] \in Working /\ UNCHANGED <<intents, rows, spent, overlapped>>
    BY <1>3 DEF WriteBalance, Working
  <2>2. p \in Intents /\ u \in Users /\ job[c].balance \in Nat
    BY <2>1, Owner
  <2>3. /\ balance' \in [Users -> Nat] /\ credited' \in [Intents -> Nat]
        /\ bought' \in [Users -> Nat] /\ raced' \subseteq Users /\ unsure' \subseteq Intents
        /\ mishaps' \in 0..MaxMishaps
    <3>1. \/ UNCHANGED <<balance, credited, bought, raced>>
          \/ /\ balance' = [balance EXCEPT ![u] = job[c].balance + Amount]
             /\ credited' = [credited EXCEPT ![p] = @ + 1]
             /\ bought' = [bought EXCEPT ![u] = @ + Amount]
             /\ raced' \in {raced, raced \cup {u}}
      BY <1>3 DEF WriteBalance
    <3>2. unsure' \in {unsure, unsure \cup {p}} /\ (Mishap \/ Answered)
      BY <1>3 DEF WriteBalance
    <3>3. unsure' \subseteq Intents /\ mishaps' \in 0..MaxMishaps
      BY <2>2, <3>2, AmountAssumption DEF TypeOK, Mishap, Answered
    <3> HIDE DEF p, u
    <3>4. balance' \in [Users -> Nat]
      BY <2>2, <3>1, AmountAssumption DEF TypeOK
    <3>5. credited' \in [Intents -> Nat]
      BY <2>2, <3>1 DEF TypeOK
    <3>6. bought' \in [Users -> Nat]
      BY <2>2, <3>1, AmountAssumption DEF TypeOK
    <3>7. raced' \subseteq Users
      <4>1. raced' \in {raced, raced \cup {u}}
        BY <3>1
      <4>2. QED
        BY <2>2, <4>1 DEF TypeOK
    <3>8. QED
      BY <3>3, <3>4, <3>5, <3>6, <3>7
  <2>4. CallsOK' /\ JobInv' /\ UNCHANGED acked
    <3>1. CASE Goto(c, "log")
      <4>1. "log" \in Working
        BY DEF Working
      <4>2. QED
        BY <2>1, <3>1, <4>1, GotoOK, JobKept
    <3>2. CASE Fail(c)
      BY <2>1, <3>2, EndOK, JobKept DEF Fail, Working
    <3>3. QED
      BY <1>3, <3>1, <3>2 DEF WriteBalance
  <2>5. QED
    BY <2>1, <2>3, <2>4 DEF TypeOK, CallsOK, JobType
<1>4. CASE LogTransaction(c)
  <2>1. pc[c] \in Working /\ UNCHANGED <<intents, balance, credited, bought, spent, raced, overlapped>>
    BY <1>4 DEF LogTransaction, Working
  <2>2. job[c].intent \in Intents
    BY <2>1, Owner
  <2>3. CallsOK' /\ JobInv' /\ acked' \subseteq Intents
    BY <1>4, <2>1, <2>2, EndOK, JobKept DEF LogTransaction, Ok, TypeOK, Working
  <2>4. rows' \subseteq {"pi", "evt"} \X Intents /\ unsure' \subseteq Intents
        /\ mishaps' \in 0..MaxMishaps
    BY <1>4, <2>2, AmountAssumption
       DEF LogTransaction, create_credit_transaction, Reference, Mishap, Answered, TypeOK
  <2>5. QED
    BY <2>1, <2>3, <2>4 DEF TypeOK, CallsOK, JobType
<1>5. CASE Kill(c)
  <2>1. pc[c] \in Working /\ UNCHANGED <<intents, balance, rows, credited, bought, spent, raced, overlapped>>
    BY <1>5 DEF Kill
  <2>2. job[c].intent \in Intents
    BY <2>1, Owner
  <2>3. CallsOK' /\ JobInv' /\ UNCHANGED acked
    BY <1>5, <2>1, EndOK, JobKept DEF Kill, Fail, Working
  <2>4. QED
    BY <1>5, <2>1, <2>2, <2>3, AmountAssumption DEF Kill, Mishap, TypeOK, CallsOK, JobType
<1>6. QED
  BY <1>1, <1>2, <1>3, <1>4, <1>5 DEF Step

\* At every moment the tables hold what their columns allow: in particular no
\* balance is negative, and a request works on a payment that was made.
THEOREM TypeCorrect == Spec => [](TypeOK /\ JobInv)
<1>1. Init => TypeOK /\ JobInv
  <2> SUFFICES ASSUME Init PROVE TypeOK /\ JobInv
    OBVIOUS
  <2>1. job \in [Calls -> JobType]
    BY JobTypes DEF Init
  <2>2. intents \in [Intents -> [user : Users \cup {Null}, status : {"none", "created", "succeeded"}]]
    BY DEF Init
  <2>3. TypeOK
    BY <2>1, <2>2, AmountAssumption DEF Init, TypeOK, JobType
  <2>4. JobInv
    BY DEF Init, JobInv, Working
  <2>5. QED
    BY <2>3, <2>4
<1>2. TypeOK /\ JobInv /\ [Next]_vars => TypeOK' /\ JobInv'
  <2> SUFFICES ASSUME TypeOK, JobInv, [Next]_vars PROVE TypeOK' /\ JobInv'
    OBVIOUS
  <2>1. CASE UNCHANGED vars
    BY <2>1 DEF TypeOK, JobInv, vars
  <2>2. ASSUME NEW u \in Users, Spend(u) PROVE TypeOK' /\ JobInv'
    <3>1. balance' \in [Users -> Nat] /\ spent' \in [Users -> Nat] /\ raced' \subseteq Users
      BY <2>2 DEF Spend, TypeOK
    <3>2. UNCHANGED <<intents, acked, rows, mishaps, pc, job, credited, bought, overlapped, unsure>>
      BY <2>2 DEF Spend
    <3>3. QED
      BY <3>1, <3>2 DEF TypeOK, JobInv
  <2>3. QED
    BY <2>1, <2>2, TypePayment, TypeBegin, TypeStep DEF Next
<1>3. QED
  BY <1>1, <1>2, PTL DEF Spec

-------------------------------------------------------------------------------
(* No payment is credited twice. *)

\* All but c are as they were.
OthersStay(c) == \A d \in Calls \ {c} : pc'[d] = pc[d] /\ job'[d] = job[d]

\* One request stays one if the request that moves keeps its payment or ends.
LEMMA OneStays ==
  ASSUME NEW c \in Calls, OthersStay(c), NEW p, OneAt(p),
         pc'[c] \in Working => pc[c] \in Working /\ job'[c].intent = job[c].intent
  PROVE  OneAt(p)'
<1>1. \A d \in Calls : On(d, p)' => On(d, p)
  BY DEF OthersStay, On
<1>2. QED
  BY <1>1 DEF OneAt

\* The guard is kept by a request that ends, if a payment it has credited is on
\* record then, or is one the record does not tell about.
LEMMA GuardEnd ==
  ASSUME TypeOK, GuardInv, NEW c \in Calls, End(c),
         UNCHANGED <<credited, overlapped>>, unsure \subseteq unsure', rows \subseteq rows',
         pc[c] = "log" => <<"pi", job[c].intent>> \in rows' \/ job[c].intent \in unsure'
  PROVE  GuardInv'
<1>1. pc'[c] = "idle" /\ OthersStay(c) /\ "idle" \notin Working
  BY EndOK, TypeCalls DEF OthersStay, Working
<1> SUFFICES ASSUME NEW p \in Intents, p \notin overlapped', p \notin unsure'
             PROVE  OneAt(p)' /\ credited'[p] <= 1 /\ Told(p)' /\ Fresh(p)'
  BY DEF GuardInv
<1>2. OneAt(p) /\ credited[p] <= 1 /\ Told(p) /\ Fresh(p)
  BY DEF GuardInv
<1>3. OneAt(p)'
  BY <1>1, <1>2, OneStays
<1>4. Told(p)'
  BY <1>1, <1>2 DEF Told, OthersStay
<1>5. Fresh(p)'
  BY <1>1, <1>2 DEF Fresh, OthersStay
<1>6. credited'[p] <= 1
  BY <1>2
<1>7. QED
  BY <1>3, <1>4, <1>5, <1>6

\* The guard is kept by a request that goes on and keeps its payment.
LEMMA GuardGoesOn ==
  ASSUME TypeOK, GuardInv, NEW c \in Calls, pc[c] \in Working \ {"log"}, pc'[c] \in Working,
         job'[c].intent = job[c].intent, OthersStay(c),
         UNCHANGED <<credited, overlapped, rows>>, unsure \subseteq unsure',
         pc'[c] \in {"read", "write"} =>
            \/ pc[c] \in {"read", "write"} \/ credited[job[c].intent] = 0
            \/ job[c].intent \in overlapped \cup unsure'
  PROVE  GuardInv'
<1> SUFFICES ASSUME NEW p \in Intents, p \notin overlapped', p \notin unsure'
             PROVE  OneAt(p)' /\ credited'[p] <= 1 /\ Told(p)' /\ Fresh(p)'
  BY DEF GuardInv
<1>1. OneAt(p) /\ credited[p] <= 1 /\ Told(p) /\ Fresh(p)
  BY DEF GuardInv
<1>2. OneAt(p)'
  BY <1>1, OneStays
<1>3. Told(p)'
  BY <1>1 DEF Told, OthersStay
<1>4. Fresh(p)'
  BY <1>1 DEF Fresh, OthersStay
<1>5. credited'[p] <= 1
  BY <1>1
<1>6. QED
  BY <1>2, <1>3, <1>4, <1>5

\* A request begins: if it meets another at its payment, the payment is overlapped.
LEMMA GuardBegin ==
  ASSUME TypeOK, GuardInv, NEW c \in Calls, NEW p \in Intents, NEW route \in Route,
         Begin(c, route, p)
  PROVE  GuardInv'
<1>1. /\ pc[c] = "idle" /\ pc'[c] = "reference" /\ job'[c].intent = p /\ OthersStay(c)
      /\ "idle" \notin Working
  BY BeginOK, TypeCalls DEF OthersStay, Working
<1>2. /\ UNCHANGED <<credited, rows, unsure>> /\ overlapped \subseteq overlapped'
      /\ p \notin overlapped' => \A d \in Calls \ {c} : job[d].intent # p
  BY DEF Begin
<1> SUFFICES ASSUME NEW q \in Intents, q \notin overlapped', q \notin unsure'
             PROVE  OneAt(q)' /\ credited'[q] <= 1 /\ Told(q)' /\ Fresh(q)'
  BY DEF GuardInv
<1>3. OneAt(q) /\ credited[q] <= 1 /\ Told(q) /\ Fresh(q)
  BY <1>2 DEF GuardInv
<1>4. OneAt(q)'
  <2>1. \A d \in Calls \ {c} : On(d, q)' => On(d, q) /\ q # p
    BY <1>1, <1>2 DEF On, OthersStay
  <2>2. On(c, q)' => q = p
    BY <1>1 DEF On
  <2>3. QED
    BY <1>3, <2>1, <2>2 DEF OneAt
<1>5. Told(q)'
  BY <1>1, <1>2, <1>3 DEF Told, OthersStay
<1>6. Fresh(q)'
  BY <1>1, <1>2, <1>3 DEF Fresh, OthersStay
<1>7. credited'[q] <= 1
  BY <1>2, <1>3
<1>8. QED
  BY <1>4, <1>5, <1>6, <1>7

\* The look at the record: a payment that is not on it was not credited.
LEMMA GuardCheck ==
  ASSUME TypeOK, JobInv, GuardInv, NEW c \in Calls, CheckReference(c)
  PROVE  GuardInv'
<1> DEFINE p == job[c].intent
<1>1. pc[c] = "reference" /\ UNCHANGED <<credited, overlapped, rows>> /\ unsure \subseteq unsure'
  BY DEF CheckReference
<1>2. CASE Ok(c)
  BY <1>1, <1>2, GuardEnd DEF Ok
<1>3. CASE Goto(c, "read") /\ ~ Ok(c)
  <2>1. pc'[c] = "read" /\ UNCHANGED job /\ OthersStay(c)
    BY <1>3, GotoOK, TypeCalls DEF Working, OthersStay
  <2>2. p \in overlapped \cup unsure' \/ credited[p] = 0
    <3> SUFFICES ASSUME p \notin overlapped, p \notin unsure' PROVE credited[p] = 0
      OBVIOUS
    <3>1. <<"pi", p>> \notin rows
      BY <1>3 DEF CheckReference, get_credit_transaction_by_reference, Reference
    <3>2. p \in Intents /\ credited[p] \in Nat /\ p \notin unsure
      BY <1>1, Owner DEF Working, TypeOK
    <3>3. OneAt(p) /\ credited[p] <= 1 /\ Told(p)
      BY <3>2 DEF GuardInv
    <3>4. On(c, p) /\ \A d \in Calls : pc[d] = "log" /\ job[d].intent = p => On(d, p) /\ d # c
      BY <1>1 DEF On, Working
    <3>5. \A d \in Calls : ~ (pc[d] = "log" /\ job[d].intent = p)
      BY <3>3, <3>4 DEF OneAt
    <3>6. credited[p] # 1
      BY <3>1, <3>3, <3>5 DEF Told
    <3>7. QED
      BY <3>2, <3>3, <3>6
  <2>3. QED
    BY <1>1, <2>1, <2>2, GuardGoesOn DEF Working
<1>4. QED
  BY <1>2, <1>3 DEF CheckReference

\* The write: a payment credited by a write that was answered was not before.
LEMMA GuardWrite ==
  ASSUME TypeOK, JobInv, GuardInv, NEW c \in Calls, WriteBalance(c)
  PROVE  GuardInv'
<1> DEFINE p == job[c].intent
<1>1. /\ pc[c] = "write" /\ UNCHANGED <<overlapped, rows>> /\ unsure \subseteq unsure'
      /\ p \in Intents /\ pc[c] \in Working
  BY Owner DEF WriteBalance, Working
<1>2. credited \in [Intents -> Nat]
  BY DEF TypeOK
<1>3. CASE UNCHANGED credited
  <2>1. Fail(c)
    BY <1>1, <1>2, <1>3 DEF WriteBalance
  <2>2. QED
    BY <1>1, <1>3, <2>1, GuardEnd DEF Fail
<1>4. CASE credited' = [credited EXCEPT ![p] = @ + 1]
  <2>1. Goto(c, "log") \/ (End(c) /\ p \in unsure')
    <3>1. credited' # credited
      BY <1>1, <1>2, <1>4
    <3>2. QED
      BY <3>1 DEF WriteBalance, Fail
  <2>2. /\ OthersStay(c) /\ "idle" \notin Working
        /\ \/ pc'[c] = "log" /\ job'[c] = job[c]
           \/ pc'[c] = "idle" /\ p \in unsure'
    BY <2>1, GotoOK, EndOK, TypeCalls DEF OthersStay, Working
  <2> SUFFICES ASSUME NEW q \in Intents, q \notin overlapped', q \notin unsure'
               PROVE  OneAt(q)' /\ credited'[q] <= 1 /\ Told(q)' /\ Fresh(q)'
    BY DEF GuardInv
  <2>3. OneAt(q) /\ credited[q] <= 1 /\ Told(q) /\ Fresh(q)
    BY <1>1 DEF GuardInv
  <2>4. OneAt(q)'
    BY <1>1, <2>2, <2>3, OneStays
  <2>5. CASE q # p
    <3>1. credited'[q] = credited[q]
      BY <1>2, <1>4, <2>5
    <3>2. Told(q)'
      BY <1>1, <2>2, <2>3, <3>1 DEF Told, OthersStay
    <3>3. Fresh(q)'
      BY <2>2, <2>3, <3>1 DEF Fresh, OthersStay
    <3>4. QED
      BY <2>3, <2>4, <3>1, <3>2, <3>3
  <2>6. CASE q = p
    <3>1. credited'[q] = 1
      BY <1>1, <1>2, <1>4, <2>3, <2>6 DEF Fresh
    <3>2. pc'[c] = "log" /\ job'[c].intent = q
      BY <2>2, <2>6
    <3>3. Told(q)'
      BY <3>2 DEF Told
    <3>4. Fresh(q)'
      <4>1. \A d \in Calls : pc'[d] \in {"read", "write"} /\ job'[d].intent = q => On(d, q)' /\ d # c
        BY <3>2 DEF On, Working
      <4>2. On(c, q)'
        BY <3>2 DEF On, Working
      <4>3. QED
        BY <2>4, <4>1, <4>2 DEF OneAt, Fresh
    <3>5. QED
      BY <2>4, <3>1, <3>3, <3>4
  <2>7. QED
    BY <2>5, <2>6
<1>5. QED
  BY <1>3, <1>4 DEF WriteBalance

\* Every step keeps the guard.
LEMMA GuardStep ==
  ASSUME TypeOK, JobInv, GuardInv, [Next]_vars
  PROVE  GuardInv'
<1>1. CASE UNCHANGED <<pc, job, rows, credited, overlapped, unsure>>
  BY <1>1 DEF GuardInv, OneAt, On, Told, Fresh
<1>2. ASSUME NEW c \in Calls, NEW p \in Intents,
             stripe_webhook(c, p) \/ \E u \in Users : confirm_topup(c, u, p)
      PROVE  GuardInv'
  BY <1>2, GuardBegin DEF stripe_webhook, confirm_topup, Route
<1>3. ASSUME NEW c \in Calls, ReadBalance(c) PROVE GuardInv'
  <2>1. pc[c] = "read" /\ pc[c] \in Working /\ UNCHANGED <<rows, credited, overlapped, unsure>>
    BY <1>3 DEF ReadBalance, history, Working
  <2>2. CASE Fail(c)
    BY <2>1, <2>2, GuardEnd DEF Fail
  <2>3. CASE SetBalance(c, balance[intents[job[c].intent].user])
    <3>1. pc'[c] = "write" /\ job'[c].intent = job[c].intent /\ OthersStay(c)
      BY <2>1, <2>3, Owner, SetBalanceOK, TypeCalls DEF OthersStay
    <3>2. QED
      BY <2>1, <3>1, GuardGoesOn DEF Working
  <2>4. QED
    BY <1>3, <2>2, <2>3 DEF ReadBalance
<1>4. ASSUME NEW c \in Calls, LogTransaction(c) PROVE GuardInv'
  <2>1. /\ End(c) /\ UNCHANGED <<credited, overlapped>>
        /\ unsure \subseteq unsure' /\ rows \subseteq rows'
        /\ <<"pi", job[c].intent>> \in rows' \/ job[c].intent \in unsure'
    BY <1>4 DEF LogTransaction, Ok, create_credit_transaction, Reference
  <2>2. QED
    BY <2>1, GuardEnd
<1>5. ASSUME NEW c \in Calls, Kill(c) PROVE GuardInv'
  <2>1. /\ End(c) /\ UNCHANGED <<credited, overlapped, rows>> /\ unsure \subseteq unsure'
        /\ pc[c] = "log" => job[c].intent \in unsure'
    BY <1>5 DEF Kill, Fail
  <2>2. QED
    BY <2>1, GuardEnd
<1>6. CASE UNCHANGED vars
  BY <1>1, <1>6 DEF vars
<1>7. ASSUME NEW p \in Intents, Pay(p) \/ \E u \in Users : initiate_topup(u, p) PROVE GuardInv'
  BY <1>1, <1>7 DEF Pay, initiate_topup, history
<1>8. ASSUME NEW u \in Users, Spend(u) PROVE GuardInv'
  BY <1>1, <1>8 DEF Spend
<1>9. QED
  BY <1>2, <1>3, <1>4, <1>5, <1>6, <1>7, <1>8, GuardCheck, GuardWrite DEF Next, Step

\* Confirmation and webhook, however often and in whatever order they come, credit a
\* payment once, unless two requests worked on it at once or its record was lost,
\* could not be read or was never made.
THEOREM CreditSafe == Spec => []CreditedOnce
<1>1. Init => GuardInv
  <2> SUFFICES ASSUME Init PROVE GuardInv
    OBVIOUS
  <2>1. /\ \A q \in Intents : credited[q] = 0
        /\ \A c \in Calls : pc[c] = "idle"
    BY DEF Init
  <2>2. QED
    BY <2>1 DEF GuardInv, OneAt, On, Told, Fresh, Working
<1>2. TypeOK /\ JobInv /\ GuardInv /\ [Next]_vars => GuardInv'
  BY GuardStep
<1>3. TypeOK /\ GuardInv => CreditedOnce
  <2> SUFFICES ASSUME TypeOK, GuardInv, NEW p \in Intents, credited[p] > 1,
                      p \notin overlapped, p \notin unsure
               PROVE  FALSE
    BY DEF CreditedOnce
  <2>1. credited[p] \in Nat
    BY DEF TypeOK
  <2>2. credited[p] <= 1
    BY DEF GuardInv
  <2>3. QED
    BY <2>1, <2>2
<1>4. QED
  BY <1>1, <1>2, <1>3, TypeCorrect, PTL DEF Spec

-------------------------------------------------------------------------------
(* Balances. *)

\* Every step keeps the balances right.
LEMMA BalanceStep ==
  ASSUME TypeOK, JobInv, BalanceInv, [Next]_vars
  PROVE  BalanceInv'
<1>1. ASSUME UNCHANGED <<balance, bought, spent, raced, intents>>,
             \A c \in Calls : pc'[c] = "write" =>
               \/ pc[c] = "write" /\ job'[c] = job[c]
               \/ /\ intents[job[c].intent].user = intents[job'[c].intent].user
                  /\ job'[c].balance = balance[intents[job[c].intent].user]
      PROVE  BalanceInv'
  BY <1>1 DEF BalanceInv
<1>2. CASE UNCHANGED vars
  BY <1>1, <1>2 DEF vars
<1>3. ASSUME NEW p \in Intents, Pay(p) \/ \E u \in Users : initiate_topup(u, p)
      PROVE  BalanceInv'
  <2>1. UNCHANGED <<balance, bought, spent, raced, pc, job>>
    BY <1>3 DEF Pay, initiate_topup, history
  <2>2. \A c \in Calls : pc[c] = "write" => job[c].intent \in Intents /\ job[c].intent # p
    BY <1>3 DEF JobInv, Pay, initiate_topup, Working
  <2>3. \A q \in Intents \ {p} : intents'[q] = intents[q]
    BY <1>3 DEF Pay, initiate_topup, create_payment_intent, TypeOK
  <2>4. QED
    BY <2>1, <2>2, <2>3 DEF BalanceInv
<1>4. ASSUME NEW u \in Users, Spend(u) PROVE BalanceInv'
  <2>1. /\ balance' = [balance EXCEPT ![u] = @ - 1] /\ spent' = [spent EXCEPT ![u] = @ + 1]
        /\ UNCHANGED <<intents, pc, job, bought>> /\ raced \subseteq raced'
        /\ u \notin raced' => \A c \in Calls : pc[c] = "write" => intents[job[c].intent].user # u
    BY <1>4 DEF Spend
  <2>2. /\ balance \in [Users -> Nat] /\ bought \in [Users -> Nat] /\ spent \in [Users -> Nat]
    BY DEF TypeOK
  <2>3. QED
    BY <2>1, <2>2 DEF BalanceInv
<1>5. ASSUME NEW c \in Calls, NEW p \in Intents, NEW route \in Route, Begin(c, route, p)
      PROVE  BalanceInv'
  <2>1. pc'[c] # "write" /\ \A d \in Calls \ {c} : pc'[d] = pc[d] /\ job'[d] = job[d]
    BY <1>5, BeginOK, TypeCalls
  <2>2. QED
    BY <1>1, <1>5, <2>1 DEF Begin
<1>6. ASSUME NEW c \in Calls, End(c) \/ Goto(c, "read"), UNCHANGED <<balance, bought, spent, raced, intents>>
      PROVE  BalanceInv'
  <2>1. pc'[c] # "write" /\ \A d \in Calls \ {c} : pc'[d] = pc[d] /\ job'[d] = job[d]
    BY <1>6, EndOK, GotoOK, TypeCalls DEF Working
  <2>2. QED
    BY <1>1, <1>6, <2>1
<1>7. ASSUME NEW c \in Calls, ReadBalance(c) PROVE BalanceInv'
  <2>1. UNCHANGED <<balance, bought, spent, raced, intents>> /\ pc[c] \in Working
    BY <1>7 DEF ReadBalance, history, Working
  <2>2. CASE Fail(c)
    BY <1>6, <2>1, <2>2 DEF Fail
  <2>3. CASE SetBalance(c, balance[intents[job[c].intent].user])
    <3>1. /\ job'[c].intent = job[c].intent
          /\ job'[c].balance = balance[intents[job[c].intent].user]
          /\ \A d \in Calls \ {c} : pc'[d] = pc[d] /\ job'[d] = job[d]
      BY <2>1, <2>3, Owner, SetBalanceOK, TypeCalls
    <3>2. QED
      BY <1>1, <2>1, <3>1
  <2>4. QED
    BY <1>7, <2>2, <2>3 DEF ReadBalance
<1>8. ASSUME NEW c \in Calls, WriteBalance(c) PROVE BalanceInv'
  <2> DEFINE u == intents[job[c].intent].user
  <2>1. /\ UNCHANGED <<intents, spent>> /\ pc[c] = "write" /\ pc[c] \in Working
        /\ Goto(c, "log") \/ End(c)
    BY <1>8 DEF WriteBalance, Fail, Working
  <2>2. u \in Users /\ job[c].balance \in Nat
    BY <2>1, Owner
  <2>3. pc'[c] # "write" /\ \A d \in Calls \ {c} : pc'[d] = pc[d] /\ job'[d] = job[d]
    BY <2>1, EndOK, GotoOK, TypeCalls DEF Working
  <2>4. CASE UNCHANGED <<balance, credited, bought, raced>>
    BY <1>1, <2>1, <2>3, <2>4
  <2>5. CASE /\ balance' = [balance EXCEPT ![u] = job[c].balance + Amount]
             /\ bought' = [bought EXCEPT ![u] = @ + Amount]
             /\ raced' = IF \E d \in Calls \ {c} :
                              pc[d] = "write" /\ intents[job[d].intent].user = u
                           THEN raced \cup {u} ELSE raced
    <3>1. /\ raced \subseteq raced'
          /\ u \notin raced' => \A d \in Calls \ {c} :
                                   pc[d] = "write" => intents[job[d].intent].user # u
      BY <2>5
    <3>2. /\ balance \in [Users -> Nat] /\ bought \in [Users -> Nat] /\ spent \in [Users -> Nat]
          /\ Amount \in Nat
      BY AmountAssumption DEF TypeOK
    <3>3. u \notin raced' => job[c].balance = bought[u] - spent[u]
      BY <2>1, <2>2, <3>1 DEF BalanceInv
    <3> HIDE DEF u
    <3>4. ASSUME NEW v \in Users, v \notin raced'
          PROVE  balance'[v] = bought'[v] - spent'[v]
      BY <2>1, <2>2, <2>5, <3>1, <3>2, <3>3, <3>4 DEF BalanceInv
    <3>5. ASSUME NEW v \in Users, v \notin raced', NEW d \in Calls, pc'[d] = "write",
                 intents'[job'[d].intent].user = v
          PROVE  job'[d].balance = balance'[v]
      <4>1. /\ d # c /\ pc[d] = "write" /\ job'[d] = job[d] /\ intents[job[d].intent].user = v
        BY <2>1, <2>3, <3>5
      <4>2. v # u /\ v \notin raced
        BY <3>1, <3>5, <4>1
      <4>3. balance'[v] = balance[v]
        BY <2>5, <3>2, <4>2
      <4>4. QED
        BY <4>1, <4>2, <4>3 DEF BalanceInv
    <3>6. QED
      BY <3>4, <3>5 DEF BalanceInv
  <2>6. QED
    BY <1>8, <2>4, <2>5 DEF WriteBalance
<1>9. ASSUME NEW c \in Calls, CheckReference(c) \/ LogTransaction(c) \/ Kill(c) PROVE BalanceInv'
  <2>1. /\ End(c) \/ Goto(c, "read")
        /\ UNCHANGED <<balance, bought, spent, raced, intents>>
    BY <1>9 DEF CheckReference, LogTransaction, Kill, Ok, Fail
  <2>2. QED
    BY <1>6, <2>1
<1>10. ASSUME NEW c \in Calls, NEW p \in Intents,
              stripe_webhook(c, p) \/ \E u \in Users : confirm_topup(c, u, p)
       PROVE  BalanceInv'
  BY <1>5, <1>10 DEF stripe_webhook, confirm_topup, Route
<1>11. QED
  BY <1>2, <1>3, <1>4, <1>7, <1>8, <1>9, <1>10 DEF Next, Step

\* A balance is what was credited less what was spent, unless it changed between the
\* read and the write of a top-up: for any number of users, payments and failures.
THEOREM BalanceSafe == Spec => []TopUpExact
<1>1. Init => BalanceInv
  <2> SUFFICES ASSUME Init PROVE BalanceInv
    OBVIOUS
  <2>1. \A c \in Calls : pc[c] # "write"
    BY DEF Init
  <2>2. ASSUME NEW u \in Users PROVE balance[u] = bought[u] - spent[u]
    <3>1. balance[u] = 0 /\ bought[u] = 0 /\ spent[u] = 0 /\ 0 = 0 - 0
      BY DEF Init
    <3>2. QED
      BY <3>1, Zenon
  <2>3. QED
    BY <2>1, <2>2, Zenon DEF BalanceInv
<1>2. TypeOK /\ JobInv /\ BalanceInv /\ [Next]_vars => BalanceInv'
  BY BalanceStep
<1>3. BalanceInv => TopUpExact
  BY DEF BalanceInv, TopUpExact
<1>4. QED
  BY <1>1, <1>2, <1>3, TypeCorrect, PTL DEF Spec
-------------------------------------------------------------------------------
(* Answers. *)

\* What is on record or about to be was credited, and so was what was answered 200.
AckInv ==
  /\ \A p \in Intents : <<"pi", p>> \in rows => credited[p] > 0
  /\ \A c \in Calls : pc[c] = "log" => credited[job[c].intent] > 0
  /\ AckedIsCredited

\* AckInv is kept by a step that credits nothing, records nothing and answers 200 at
\* most for a payment on record.
LEMMA AckFrame ==
  ASSUME AckInv, UNCHANGED <<credited, rows>>, unsure \subseteq unsure',
         \A c \in Calls : pc'[c] = "log" => pc[c] = "log" /\ job'[c].intent = job[c].intent,
         \A p \in acked' : p \in acked \/ (p \in Intents /\ <<"pi", p>> \in rows)
  PROVE  AckInv'
  BY DEF AckInv, AckedIsCredited

\* The balance is written before the record, and the record before the answer.
LEMMA AckStep ==
  ASSUME TypeOK, JobInv, AckInv, [Next]_vars
  PROVE  AckInv'
<1> USE TypeCalls
<1>1. CASE UNCHANGED <<credited, rows, unsure, pc, job, acked>>
  BY <1>1, AckFrame
<1>2. ASSUME NEW c \in Calls, NEW p \in Intents,
             stripe_webhook(c, p) \/ \E u \in Users : confirm_topup(c, u, p)
      PROVE  AckInv'
  <2>1. PICK route \in Route : Begin(c, route, p)
    BY <1>2 DEF stripe_webhook, confirm_topup, Route
  <2>2. pc'[c] = "reference" /\ \A d \in Calls \ {c} : pc'[d] = pc[d] /\ job'[d] = job[d]
    BY <2>1, BeginOK
  <2>3. QED
    BY <2>1, <2>2, AckFrame DEF Begin
<1>3. ASSUME NEW c \in Calls, CheckReference(c) PROVE AckInv'
  <2>1. /\ UNCHANGED <<credited, rows>> /\ unsure \subseteq unsure'
        /\ pc[c] = "reference" /\ pc[c] \in Working
    BY <1>3 DEF CheckReference, Working
  <2>2. CASE Goto(c, "read")
    <3>1. pc'[c] = "read" /\ UNCHANGED <<job, acked>> /\ \A d \in Calls \ {c} : pc'[d] = pc[d]
      BY <2>2, GotoOK DEF Working
    <3>2. QED
      BY <2>1, <3>1, AckFrame
  <2>3. CASE ~Goto(c, "read")
    <3>1. Ok(c) /\ <<"pi", job[c].intent>> \in rows /\ job[c].intent \in Intents
      BY <1>3, <2>1, <2>3, Owner DEF CheckReference, get_credit_transaction_by_reference, Reference
    <3>2. pc'[c] = "idle" /\ \A d \in Calls \ {c} : pc'[d] = pc[d] /\ job'[d] = job[d]
      BY <3>1, EndOK DEF Ok
    <3>3. acked' = acked \cup {job[c].intent}
      BY <3>1 DEF Ok
    <3>4. QED
      BY <2>1, <3>1, <3>2, <3>3, AckFrame
  <2>4. QED
    BY <2>2, <2>3
<1>4. ASSUME NEW c \in Calls, ReadBalance(c) PROVE AckInv'
  <2>1. UNCHANGED <<credited, rows, unsure>> /\ pc[c] \in Working
    BY <1>4 DEF ReadBalance, history, Working
  <2>2. CASE Fail(c)
    <3>1. /\ pc'[c] = "idle" /\ UNCHANGED acked
          /\ \A d \in Calls \ {c} : pc'[d] = pc[d] /\ job'[d] = job[d]
      BY <2>2, EndOK DEF Fail
    <3>2. QED
      BY <2>1, <3>1, AckFrame
  <2>3. CASE SetBalance(c, balance[intents[job[c].intent].user])
    <3>1. /\ pc'[c] = "write" /\ UNCHANGED acked
          /\ \A d \in Calls \ {c} : pc'[d] = pc[d] /\ job'[d] = job[d]
      BY <2>1, <2>3, Owner, SetBalanceOK
    <3>2. QED
      BY <2>1, <3>1, AckFrame
  <2>4. QED
    BY <1>4, <2>2, <2>3 DEF ReadBalance
<1>5. ASSUME NEW c \in Calls, WriteBalance(c) PROVE AckInv'
  <2> DEFINE p == job[c].intent
  <2>1. /\ UNCHANGED <<rows, acked>> /\ unsure \subseteq unsure' /\ pc[c] \in Working
        /\ \A d \in Calls \ {c} : pc'[d] = pc[d] /\ job'[d] = job[d]
        /\ pc'[c] = "log" => job'[c].intent = p
    BY <1>5, EndOK, GotoOK DEF WriteBalance, Fail, Goto, Working
  <2>2. p \in Intents
    BY <2>1, Owner
  <2>3. \/ credited' = [credited EXCEPT ![p] = @ + 1]
        \/ credited' = credited /\ pc'[c] # "log"
    BY <1>5, EndOK DEF WriteBalance, Fail
  <2> HIDE DEF p
  <2>4. \A q \in Intents : credited[q] > 0 => credited'[q] > 0
    BY <2>2, <2>3 DEF TypeOK
  <2>5. pc'[c] = "log" => credited'[p] > 0
    BY <2>2, <2>3 DEF TypeOK
  <2>6. \A d \in Calls : pc[d] = "log" => job[d].intent \in Intents
    BY DEF JobInv, Working
  <2>7. acked \subseteq Intents
    BY DEF TypeOK
  <2>8. QED
    BY <2>1, <2>4, <2>5, <2>6, <2>7 DEF AckInv, AckedIsCredited
<1>6. ASSUME NEW c \in Calls, LogTransaction(c) PROVE AckInv'
  <2> DEFINE p == job[c].intent
  <2>1. /\ UNCHANGED credited /\ pc[c] = "log" /\ acked' = acked \cup {p} /\ End(c)
        /\ rows' \in {rows, rows \cup {<<"pi", p>>}}
        /\ unsure \subseteq unsure' /\ (p \in unsure' \/ <<"pi", p>> \in rows')
    BY <1>6 DEF LogTransaction, Ok, create_credit_transaction, Reference
  <2>2. pc'[c] = "idle" /\ \A d \in Calls \ {c} : pc'[d] = pc[d] /\ job'[d] = job[d]
    BY <2>1, EndOK
  <2>3. credited[p] > 0
    BY <2>1 DEF AckInv
  <2> HIDE DEF p
  <2>4. QED
    BY <2>1, <2>2, <2>3 DEF AckInv, AckedIsCredited
<1>7. ASSUME NEW c \in Calls, Kill(c) PROVE AckInv'
  <2>1. /\ UNCHANGED <<credited, rows, acked>> /\ unsure \subseteq unsure' /\ End(c)
    BY <1>7 DEF Kill, Fail
  <2>2. pc'[c] = "idle" /\ \A d \in Calls \ {c} : pc'[d] = pc[d] /\ job'[d] = job[d]
    BY <2>1, EndOK
  <2>3. QED
    BY <2>1, <2>2, AckFrame
<1>8. CASE UNCHANGED vars
  BY <1>1, <1>8 DEF vars
<1>9. ASSUME NEW p \in Intents, Pay(p) \/ \E u \in Users : initiate_topup(u, p) PROVE AckInv'
  BY <1>1, <1>9 DEF Pay, initiate_topup, history
<1>10. ASSUME NEW u \in Users, Spend(u) PROVE AckInv'
  BY <1>1, <1>10 DEF Spend
<1>11. QED
  BY <1>2, <1>3, <1>4, <1>5, <1>6, <1>7, <1>8, <1>9, <1>10 DEF Next, Step

\* Whoever is answered 200 for a payment, the app or Stripe, can rely on it: the payment
\* has been credited and is on record, but for records that were lost.
THEOREM AckSafe == Spec => []AckedIsCredited
<1>1. Init => AckInv
  BY DEF Init, AckInv, AckedIsCredited
<1>2. TypeOK /\ JobInv /\ AckInv /\ [Next]_vars => AckInv'
  BY AckStep
<1>3. AckInv => AckedIsCredited
  BY DEF AckInv
<1>4. QED
  BY <1>1, <1>2, <1>3, TypeCorrect, PTL DEF Spec
===============================================================================
