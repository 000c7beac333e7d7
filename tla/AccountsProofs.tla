---------------------------- MODULE AccountsProofs ----------------------------
(***************************************************************************)
(* Proofs of the safety properties of Accounts for any sets of users,      *)
(* addresses, tokens and request threads and all settings.                 *)
(***************************************************************************)
EXTENDS Accounts, FiniteSetTheorems, TLAPS

-------------------------------------------------------------------------------
(* Which actions write what. *)

Frame ==
  /\ UNCHANGED email \/ \E c \in Calls : InsertUser(c) \/ ChangeEmail(c)
  /\ UNCHANGED flaggedAt \/ \E u \in Users : admin_flag_user(u) \/ admin_unflag_user(u)
  /\ UNCHANGED wallet \/ \E c \in Calls : InitCredits(c)
  /\ \/ UNCHANGED pending
     \/ \E c \in Calls : SendOtp(c) \/ IssueToken(c)
     \/ \E u \in Users : PendingExpires(u)
  /\ \/ UNCHANGED <<attempts, rejected>>
     \/ \E c \in Calls : JudgeCode(c) \/ IncrementAttempt(c) \/ ResetAttempts(c)
     \/ \E u \in Users : AttemptsExpire(u)
  /\ \/ UNCHANGED locked
     \/ \E c \in Calls : CheckRateLimit(c) \/ ResetAttempts(c)
     \/ \E u \in Users : LockoutExpires(u)
  /\ \/ UNCHANGED tokens
     \/ \E c \in Calls : IssueToken(c) \/ CheckPassword(c)
  /\ UNCHANGED blacklist \/ \E c \in Calls : RevokeToken(c)
  /\ UNCHANGED reused \/ \E t \in Tokens : require_auth(t)
  /\ UNCHANGED now \/ Tick
  /\ UNCHANGED mishaps \/ Mishap

\* Every step keeps to these.
LEMMA Frames ==
  ASSUME [Next]_vars PROVE Frame
<1> USE DEF users, otp, session
<1>1. CASE UNCHANGED vars
  BY <1>1 DEF vars, Frame
<1>2. CASE Next
  <2>1. ASSUME NEW c \in Calls, NEW e \in Emails,
               register(c, e) \/ \E u \in Users : update_user(c, u, e)
        PROVE  Frame
    BY <2>1 DEF register, update_user, Frame
  <2>2. ASSUME NEW c \in Calls, NEW u \in Users, login(c, u) \/ verify_registration(c, u)
        PROVE  Frame
    BY <2>2 DEF login, verify_registration, Frame
  <2>3. ASSUME NEW c \in Calls, InsertUser(c) \/ ChangeEmail(c) PROVE Frame
    BY <2>3 DEF InsertUser, ChangeEmail, Frame
  <2>4. ASSUME NEW c \in Calls, InitCredits(c) \/ SendOtp(c) PROVE Frame
    BY <2>4 DEF InitCredits, SendOtp, send_otp, Frame, Answered
  <2>5. ASSUME NEW c \in Calls, CheckRateLimit(c) \/ JudgeCode(c) PROVE Frame
    BY <2>5 DEF CheckRateLimit, JudgeCode, Frame, Answered, NoRedis
  <2>6. ASSUME NEW c \in Calls, IncrementAttempt(c) \/ ResetAttempts(c) PROVE Frame
    BY <2>6 DEF IncrementAttempt, ResetAttempts, Frame, Answered, NoRedis
  <2>7. ASSUME NEW c \in Calls, IssueToken(c) \/ RevokeToken(c) PROVE Frame
    BY <2>7 DEF IssueToken, RevokeToken, Frame, Answered, NoBlacklist
  <2>9. ASSUME NEW c \in Calls, CheckPassword(c) PROVE Frame
    BY <2>9 DEF CheckPassword, Frame
  <2>8. ASSUME NEW t \in Tokens, me(t) \/ \E c \in Calls : logout(c, t) PROVE Frame
    BY <2>8 DEF me, logout, require_auth, Frame, Answered, NoBlacklist
  <2>10. ASSUME NEW u \in Users, admin_flag_user(u) \/ admin_unflag_user(u) PROVE Frame
    BY <2>10 DEF admin_flag_user, admin_unflag_user, Frame
  <2>11. ASSUME NEW u \in Users, PendingExpires(u) \/ AttemptsExpire(u) \/ LockoutExpires(u)
         PROVE  Frame
    BY <2>11 DEF PendingExpires, AttemptsExpire, LockoutExpires, Frame
  <2>12. CASE Tick
    BY <2>12 DEF Tick, Frame
  <2>13. QED
    BY <1>2, <2>1, <2>2, <2>3, <2>4, <2>5, <2>6, <2>7, <2>8, <2>9, <2>10, <2>11, <2>12
       DEF Next, Register, Verify, Session
<1>3. QED
  BY <1>1, <1>2

-------------------------------------------------------------------------------
(* Requests: each step finds in its job what it needs. *)

JobType == [user : Users \cup {Null}, email : Emails \cup {Null},
            token : Tokens \cup {Null}, since : Nat]

ThreadsOK == pc \in [Calls -> Pc] /\ job \in [Calls -> JobType]

\* What a request at a step is about.
Fits(step, j) ==
  /\ step \in {"insert", "change_email"} => j.email \in Emails
  /\ step \in Pc \ {"idle", "insert", "revoke"} => j.user \in Users
  /\ step = "revoke" => j.token \in Tokens

JobInv == \A c \in Calls : Fits(pc[c], job[c])

\* The jobs requests begin with.
LEMMA Jobs ==
  /\ NoJob \in JobType
  /\ \A e \in Emails :
       [NoJob EXCEPT !.email = e] = [user |-> Null, email |-> e, token |-> Null, since |-> 0]
  /\ \A u \in Users :
       [NoJob EXCEPT !.user = u] = [user |-> u, email |-> Null, token |-> Null, since |-> 0]
  /\ \A u \in Users, e \in Emails :
       [NoJob EXCEPT !.user = u, !.email = e]
         = [user |-> u, email |-> e, token |-> Null, since |-> 0]
  /\ \A u \in Users, n \in Nat :
       [NoJob EXCEPT !.user = u, !.since = n]
         = [user |-> u, email |-> Null, token |-> Null, since |-> n]
  /\ \A t \in Tokens :
       [NoJob EXCEPT !.token = t] = [user |-> Null, email |-> Null, token |-> t, since |-> 0]
<1> USE DEF NoJob
<1>1. NoJob \in JobType
  BY DEF JobType
<1>2. \A e \in Emails :
       [NoJob EXCEPT !.email = e] = [user |-> Null, email |-> e, token |-> Null, since |-> 0]
  OBVIOUS
<1>3. \A u \in Users :
       [NoJob EXCEPT !.user = u] = [user |-> u, email |-> Null, token |-> Null, since |-> 0]
  OBVIOUS
<1>4. \A u \in Users, e \in Emails :
       [NoJob EXCEPT !.user = u, !.email = e]
         = [user |-> u, email |-> e, token |-> Null, since |-> 0]
  <2> SUFFICES ASSUME NEW u \in Users, NEW e \in Emails
               PROVE  [[NoJob EXCEPT !.user = u] EXCEPT !.email = e]
                        = [user |-> u, email |-> e, token |-> Null, since |-> 0]
    OBVIOUS
  <2> DEFINE j == [NoJob EXCEPT !.user = u]
  <2>1. j = [user |-> u, email |-> Null, token |-> Null, since |-> 0]
    OBVIOUS
  <2> HIDE DEF j
  <2>2. [j EXCEPT !.email = e] = [user |-> u, email |-> e, token |-> Null, since |-> 0]
    BY <2>1
  <2>3. QED
    BY <2>2 DEF j
<1>5. \A u \in Users, n \in Nat :
       [NoJob EXCEPT !.user = u, !.since = n]
         = [user |-> u, email |-> Null, token |-> Null, since |-> n]
  <2> SUFFICES ASSUME NEW u \in Users, NEW n \in Nat
               PROVE  [[NoJob EXCEPT !.user = u] EXCEPT !.since = n]
                        = [user |-> u, email |-> Null, token |-> Null, since |-> n]
    OBVIOUS
  <2> DEFINE j == [NoJob EXCEPT !.user = u]
  <2>1. j = [user |-> u, email |-> Null, token |-> Null, since |-> 0]
    OBVIOUS
  <2> HIDE DEF j
  <2>2. [j EXCEPT !.since = n] = [user |-> u, email |-> Null, token |-> Null, since |-> n]
    BY <2>1
  <2>3. QED
    BY <2>2 DEF j
<1>6. \A t \in Tokens :
       [NoJob EXCEPT !.token = t] = [user |-> Null, email |-> Null, token |-> t, since |-> 0]
  OBVIOUS
<1> HIDE DEF NoJob
<1>7. QED
  BY <1>1, <1>2, <1>3, <1>4, <1>5, <1>6

\* One request moves to a step that its job fits.
LEMMA MoveOK ==
  ASSUME ThreadsOK, JobInv, NEW c \in Calls, NEW step \in Pc, NEW j \in JobType, Fits(step, j),
         pc' = [pc EXCEPT ![c] = step],
         job' = [job EXCEPT ![c] = j] \/ (job' = job /\ j = job[c])
  PROVE  ThreadsOK' /\ JobInv'
<1>1. ThreadsOK'
  BY DEF ThreadsOK
<1>2. /\ pc'[c] = step /\ job'[c] = j
      /\ \A d \in Calls \ {c} : pc'[d] = pc[d] /\ job'[d] = job[d]
  BY DEF ThreadsOK
<1>3. QED
  BY <1>1, <1>2 DEF JobInv

\* A request ends.
LEMMA EndOK ==
  ASSUME ThreadsOK, JobInv, NEW c \in Calls, End(c)
  PROVE  ThreadsOK' /\ JobInv'
<1>1. Fits("idle", NoJob) /\ "idle" \in Pc
  BY DEF Fits, Pc
<1>2. QED
  BY <1>1, Jobs, MoveOK DEF End

\* A request that is about a user goes on to another step for that user.
LEMMA GotoOK ==
  ASSUME ThreadsOK, JobInv, NEW c \in Calls, job[c].user \in Users,
         NEW step \in Pc \ {"insert", "change_email", "revoke"}, Goto(c, step)
  PROVE  ThreadsOK' /\ JobInv'
<1>1. Fits(step, job[c]) /\ job[c] \in JobType
  BY DEF Fits, ThreadsOK
<1>2. QED
  BY <1>1, MoveOK DEF Goto

\* Requests begin with a job that fits.
LEMMA BeginOK ==
  ASSUME ThreadsOK, JobInv, NEW c \in Calls
  PROVE  /\ \A e \in Emails : register(c, e) => ThreadsOK' /\ JobInv'
         /\ \A u \in Users, e \in Emails : update_user(c, u, e) => ThreadsOK' /\ JobInv'
         /\ \A u \in Users : now \in Nat /\ login(c, u) => ThreadsOK' /\ JobInv'
         /\ \A u \in Users : verify_registration(c, u) => ThreadsOK' /\ JobInv'
         /\ \A t \in Tokens : logout(c, t) => ThreadsOK' /\ JobInv'
<1>1. ASSUME NEW step \in Pc, NEW j \in JobType, Fits(step, j), Begin(c, step, j)
      PROVE  ThreadsOK' /\ JobInv'
  BY <1>1, MoveOK DEF Begin
<1>2. ASSUME NEW e \in Emails, register(c, e) PROVE ThreadsOK' /\ JobInv'
  <2> DEFINE j == [user |-> Null, email |-> e, token |-> Null, since |-> 0]
  <2>1. j \in JobType /\ Fits("insert", j) /\ "insert" \in Pc
    BY DEF JobType, Fits, Pc
  <2>2. Begin(c, "insert", j)
    BY <1>2, Jobs DEF register
  <2>3. QED
    BY <1>1, <2>1, <2>2
<1>3. ASSUME NEW u \in Users, NEW e \in Emails, update_user(c, u, e) PROVE ThreadsOK' /\ JobInv'
  <2> DEFINE j == [user |-> u, email |-> e, token |-> Null, since |-> 0]
  <2>1. j \in JobType /\ Fits("change_email", j) /\ "change_email" \in Pc
    BY DEF JobType, Fits, Pc
  <2>2. Begin(c, "change_email", j)
    BY <1>3, Jobs DEF update_user
  <2>3. QED
    BY <1>1, <2>1, <2>2
<1>4. ASSUME NEW u \in Users, now \in Nat, login(c, u) PROVE ThreadsOK' /\ JobInv'
  <2> DEFINE j == [user |-> u, email |-> Null, token |-> Null, since |-> now]
  <2>1. j \in JobType /\ Fits("password", j) /\ "password" \in Pc
    BY <1>4 DEF JobType, Fits, Pc
  <2>2. Begin(c, "password", j)
    BY <1>4, Jobs DEF login
  <2>3. QED
    BY <1>1, <2>1, <2>2
<1>5. ASSUME NEW u \in Users, verify_registration(c, u) PROVE ThreadsOK' /\ JobInv'
  <2> DEFINE j == [user |-> u, email |-> Null, token |-> Null, since |-> 0]
  <2>1. j \in JobType /\ Fits("rate", j) /\ "rate" \in Pc
    BY DEF JobType, Fits, Pc
  <2>2. Begin(c, "rate", j)
    BY <1>5, Jobs DEF verify_registration
  <2>3. QED
    BY <1>1, <2>1, <2>2
<1>6. ASSUME NEW t \in Tokens, logout(c, t) PROVE ThreadsOK' /\ JobInv'
  <2> DEFINE j == [user |-> Null, email |-> Null, token |-> t, since |-> 0]
  <2>1. j \in JobType /\ Fits("revoke", j) /\ "revoke" \in Pc
    BY DEF JobType, Fits, Pc
  <2>2. Begin(c, "revoke", j)
    BY <1>6, Jobs DEF logout
  <2>3. QED
    BY <1>1, <2>1, <2>2
<1>7. QED
  BY <1>2, <1>3, <1>4, <1>5, <1>6

\* Every step of every request.
LEMMA ThreadStep ==
  ASSUME ThreadsOK, JobInv, now \in Nat, [Next]_vars
  PROVE  ThreadsOK' /\ JobInv'
<1>1. ASSUME UNCHANGED <<pc, job>> PROVE ThreadsOK' /\ JobInv'
  BY <1>1 DEF ThreadsOK, JobInv
<1>2. CASE UNCHANGED vars
  BY <1>1, <1>2 DEF vars
<1>3. ASSUME NEW c \in Calls, InsertUser(c) PROVE ThreadsOK' /\ JobInv'
  <2>1. CASE End(c)
    BY <2>1, EndOK
  <2>2. ASSUME NEW u \in Users, pc' = [pc EXCEPT ![c] = "init_credits"],
               job' = [job EXCEPT ![c] = [NoJob EXCEPT !.user = u]]
        PROVE  ThreadsOK' /\ JobInv'
    <3> DEFINE j == [user |-> u, email |-> Null, token |-> Null, since |-> 0]
    <3>1. j \in JobType /\ Fits("init_credits", j) /\ "init_credits" \in Pc
      BY DEF JobType, Fits, Pc
    <3>2. job' = [job EXCEPT ![c] = j]
      BY <2>2, Jobs
    <3> HIDE DEF j
    <3>3. QED
      BY <2>2, <3>1, <3>2, MoveOK
  <2>3. QED
    BY <1>3, <2>1, <2>2 DEF InsertUser
<1>4. ASSUME NEW c \in Calls,
             ChangeEmail(c) \/ SendOtp(c) \/ IncrementAttempt(c) \/ IssueToken(c)
               \/ CheckPassword(c) \/ RevokeToken(c)
      PROVE  ThreadsOK' /\ JobInv'
  BY <1>4, EndOK DEF ChangeEmail, SendOtp, IncrementAttempt, IssueToken, CheckPassword, RevokeToken
<1>5. ASSUME NEW c \in Calls, InitCredits(c) PROVE ThreadsOK' /\ JobInv'
  <2>1. job[c].user \in Users
    BY <1>5 DEF InitCredits, JobInv, Fits, Pc
  <2>2. QED
    BY <1>5, <2>1, GotoOK DEF InitCredits, Pc
<1>6. ASSUME NEW c \in Calls, CheckRateLimit(c) PROVE ThreadsOK' /\ JobInv'
  <2>1. job[c].user \in Users
    BY <1>6 DEF CheckRateLimit, JobInv, Fits, Pc
  <2>2. End(c) \/ Goto(c, "smu")
    BY <1>6 DEF CheckRateLimit
  <2>3. QED
    BY <2>1, <2>2, GotoOK, EndOK DEF Pc
<1>7. ASSUME NEW c \in Calls, JudgeCode(c) PROVE ThreadsOK' /\ JobInv'
  <2>1. job[c].user \in Users
    BY <1>7 DEF JudgeCode, JobInv, Fits, Pc
  <2>2. End(c) \/ Goto(c, "count") \/ Goto(c, "reset_attempts")
    BY <1>7 DEF JudgeCode, SmuAnswers
  <2>3. QED
    BY <2>1, <2>2, GotoOK, EndOK DEF Pc
<1>8. ASSUME NEW c \in Calls, ResetAttempts(c) PROVE ThreadsOK' /\ JobInv'
  <2>1. job[c].user \in Users
    BY <1>8 DEF ResetAttempts, JobInv, Fits, Pc
  <2>2. QED
    BY <1>8, <2>1, GotoOK DEF ResetAttempts, Pc
<1>9. ASSUME NEW u \in Users, admin_flag_user(u) \/ admin_unflag_user(u)
                                \/ PendingExpires(u) \/ AttemptsExpire(u) \/ LockoutExpires(u)
      PROVE  ThreadsOK' /\ JobInv'
  BY <1>1, <1>9 DEF admin_flag_user, admin_unflag_user, PendingExpires, AttemptsExpire,
                    LockoutExpires
<1>11. ASSUME NEW t \in Tokens, me(t) PROVE ThreadsOK' /\ JobInv'
  BY <1>1, <1>11 DEF me
<1>12. CASE Tick
  BY <1>1, <1>12 DEF Tick
<1>13. QED
  BY <1>2, <1>3, <1>4, <1>5, <1>6, <1>7, <1>8, <1>9, <1>11, <1>12, BeginOK
     DEF Next, Register, Verify, Session

-------------------------------------------------------------------------------
(* Requests at the steps that the other invariants speak of. *)

Watched == {"revoke", "smu", "count", "password"}

\* A request comes to and leaves these steps by the actions named here only.
Moved(c) ==
  \/ pc'[c] = pc[c] /\ job'[c] = job[c]
  \/ pc[c] \notin Watched /\ pc'[c] \notin Watched
  \/ \E t \in Tokens : logout(c, t)
  \/ \E u \in Users : login(c, u)
  \/ CheckRateLimit(c) \/ JudgeCode(c) \/ IncrementAttempt(c) \/ RevokeToken(c) \/ CheckPassword(c)

\* Every step keeps to that.
LEMMA Moves ==
  ASSUME ThreadsOK, [Next]_vars, NEW c \in Calls PROVE Moved(c)
<1>1. pc \in [Calls -> Pc] /\ job \in [Calls -> JobType]
  BY DEF ThreadsOK
<1>2. ASSUME NEW d \in Calls, d # c, NEW step, NEW j,
             pc' = [pc EXCEPT ![d] = step], job' = job \/ job' = [job EXCEPT ![d] = j]
      PROVE  Moved(c)
  BY <1>1, <1>2 DEF Moved
<1>3. ASSUME NEW step, NEW j, pc[c] \notin Watched, step \notin Watched,
             pc' = [pc EXCEPT ![c] = step], job' = job \/ job' = [job EXCEPT ![c] = j]
      PROVE  Moved(c)
  BY <1>1, <1>3 DEF Moved
<1>4. CASE UNCHANGED <<pc, job>>
  BY <1>4 DEF Moved
<1>5. ASSUME NEW d \in Calls,
             \E e \in Emails : register(d, e) \/ \E u \in Users : update_user(d, u, e)
      PROVE  Moved(c)
  BY <1>2, <1>3, <1>5 DEF register, update_user, Begin, Watched
<1>6. ASSUME NEW d \in Calls, \E u \in Users : verify_registration(d, u) PROVE Moved(c)
  BY <1>2, <1>3, <1>6 DEF verify_registration, Begin, Watched
<1>7. ASSUME NEW d \in Calls, \/ \E u \in Users : login(d, u)
                              \/ \E t \in Tokens : logout(d, t)
      PROVE  Moved(c)
  <2>1. CASE d = c
    BY <1>7, <2>1 DEF Moved
  <2>2. CASE d # c
    BY <1>2, <1>7, <2>2 DEF login, logout, Begin
  <2>3. QED
    BY <2>1, <2>2
<1>8. ASSUME NEW d \in Calls, InsertUser(d) \/ ChangeEmail(d) \/ InitCredits(d) \/ SendOtp(d)
      PROVE  Moved(c)
  BY <1>2, <1>3, <1>8 DEF InsertUser, ChangeEmail, InitCredits, SendOtp, End, Goto, Watched
<1>9. ASSUME NEW d \in Calls, ResetAttempts(d) \/ IssueToken(d) PROVE Moved(c)
  BY <1>2, <1>3, <1>9 DEF ResetAttempts, IssueToken, End, Goto, Watched
<1>10. ASSUME NEW d \in Calls,
              CheckRateLimit(d) \/ JudgeCode(d) \/ IncrementAttempt(d) \/ RevokeToken(d)
                \/ CheckPassword(d)
      PROVE  Moved(c)
  <2>1. CASE d = c
    BY <1>10, <2>1 DEF Moved
  <2>2. CASE d # c
    BY <1>2, <1>10, <2>2 DEF CheckRateLimit, JudgeCode, SmuAnswers, IncrementAttempt, RevokeToken,
                             CheckPassword, End, Goto
  <2>3. QED
    BY <2>1, <2>2
<1>11. CASE UNCHANGED vars
  BY <1>4, <1>11 DEF vars
<1>12. ASSUME NEW u \in Users, admin_flag_user(u) \/ admin_unflag_user(u)
                                 \/ PendingExpires(u) \/ AttemptsExpire(u) \/ LockoutExpires(u)
       PROVE  Moved(c)
  BY <1>4, <1>12 DEF admin_flag_user, admin_unflag_user, PendingExpires, AttemptsExpire,
                     LockoutExpires
<1>13. CASE Tick \/ \E t \in Tokens : me(t)
  BY <1>4, <1>13 DEF Tick, me
<1>15. QED
  BY <1>5, <1>6, <1>7, <1>8, <1>9, <1>10, <1>11, <1>12, <1>13 DEF Next, Register, Verify, Session

-------------------------------------------------------------------------------
(* Tables, keys and history. *)

TokenType == [user : Users \cup {Null}, by : {"none", "login", "otp"}, exp : Nat, took : Nat]

UsersOK ==
  /\ email \in [Users -> Emails \cup {Null}]
  /\ flaggedAt \in [Users -> -1..MaxTime] /\ wallet \subseteq Users
OtpOK ==
  /\ pending \subseteq Users /\ locked \subseteq Users
  /\ attempts \in [Users -> Nat] /\ rejected \in [Users -> Nat]
SessionOK ==
  tokens \in [Tokens -> TokenType] /\ blacklist \in [Tokens -> Nat] /\ reused \subseteq Tokens
TimeOK == now \in 0..MaxTime /\ mishaps \in 0..MaxMishaps

\* A login under way began at some time before now, and before its user was flagged.
LoginFacts(c) ==
  LET j == job[c]
  IN pc[c] = "password" =>
       j.since <= now /\ (flaggedAt[j.user] # -1 => j.since <= flaggedAt[j.user])

LoginInv == \A c \in Calls : LoginFacts(c)

Typed == ThreadsOK /\ JobInv /\ LoginInv /\ UsersOK /\ OtpOK /\ SessionOK /\ TimeOK

\* Each step keeps the clock and the mishaps within their bounds.
LEMMA TimeStep ==
  ASSUME TimeOK, [Next]_vars PROVE TimeOK'
<1>1. now' \in 0..MaxTime
  BY Frames, TimeAssumption DEF Frame, Tick, TimeOK
<1>2. mishaps' \in 0..MaxMishaps
  BY Frames, AttemptsAssumption DEF Frame, Mishap, TimeOK
<1>3. QED
  BY <1>1, <1>2 DEF TimeOK

\* Each step keeps what is known of logins under way.
LEMMA LoginStep ==
  ASSUME Typed, [Next]_vars PROVE LoginInv'
<1> USE DEF Typed
<1> SUFFICES ASSUME NEW c \in Calls, pc'[c] = "password" PROVE LoginFacts(c)'
  BY DEF LoginInv, LoginFacts
<1>1. pc \in [Calls -> Pc] /\ job \in [Calls -> JobType] /\ flaggedAt \in [Users -> -1..MaxTime]
  BY DEF ThreadsOK, UsersOK
<1>2. now \in Nat /\ now' \in Nat /\ now' >= now
  BY Frames DEF Frame, Tick, TimeOK
<1>3. CASE pc'[c] = pc[c] /\ job'[c] = job[c]
  <2> DEFINE j == job[c]
  <2>1. j.user \in Users /\ j.since \in Nat
    BY <1>1, <1>3 DEF JobInv, Fits, Pc, JobType
  <2>2. j.since <= now /\ (flaggedAt[j.user] # -1 => j.since <= flaggedAt[j.user])
    BY <1>3 DEF LoginInv, LoginFacts
  <2> HIDE DEF j
  <2>3. flaggedAt'[j.user] \in {flaggedAt[j.user], -1, now}
    BY <1>1, <2>1, Frames DEF Frame, admin_flag_user, admin_unflag_user
  <2>4. j.since <= now' /\ (flaggedAt'[j.user] # -1 => j.since <= flaggedAt'[j.user])
    BY <1>2, <2>1, <2>2, <2>3
  <2>5. QED
    BY <1>3, <2>4 DEF LoginFacts, j
<1>4. ASSUME NEW u \in Users, login(c, u) PROVE LoginFacts(c)'
  <2>1. job'[c] = [user |-> u, email |-> Null, token |-> Null, since |-> now]
    BY <1>1, <1>2, <1>4, Jobs DEF login, Begin
  <2>2. flaggedAt'[u] = -1 /\ now' = now
    BY <1>4 DEF login, users
  <2>3. QED
    BY <1>2, <2>1, <2>2 DEF LoginFacts
<1>5. CASE \/ \E t \in Tokens : logout(c, t)
           \/ CheckRateLimit(c) \/ JudgeCode(c) \/ IncrementAttempt(c) \/ RevokeToken(c)
           \/ CheckPassword(c)
  BY <1>1, <1>5 DEF logout, CheckRateLimit, JudgeCode, SmuAnswers, IncrementAttempt, RevokeToken,
                    CheckPassword, Begin, Goto, End
<1>6. QED
  BY <1>3, <1>4, <1>5, Moves DEF Moved, Watched

\* Each step keeps the rows of users as they may be.
LEMMA UsersStep ==
  ASSUME Typed, [Next]_vars PROVE UsersOK'
<1> USE DEF Typed, UsersOK
<1>1. email' \in [Users -> Emails \cup {Null}]
  <2>1. ASSUME NEW u \in Users, NEW e \in Emails, SetEmail(u, e)
        PROVE  email' \in [Users -> Emails \cup {Null}]
    BY <2>1 DEF SetEmail
  <2>2. ASSUME NEW c \in Calls, InsertUser(c) PROVE email' \in [Users -> Emails \cup {Null}]
    <3>1. job[c].email \in Emails
      BY <2>2 DEF InsertUser, JobInv, Fits
    <3>2. QED
      BY <2>1, <2>2, <3>1 DEF InsertUser
  <2>3. ASSUME NEW c \in Calls, ChangeEmail(c) PROVE email' \in [Users -> Emails \cup {Null}]
    <3>1. job[c].email \in Emails /\ job[c].user \in Users
      BY <2>3 DEF ChangeEmail, JobInv, Fits, Pc
    <3>2. QED
      BY <2>1, <2>3, <3>1 DEF ChangeEmail
  <2>4. QED
    BY <2>2, <2>3, Frames DEF Frame
<1>2. flaggedAt' \in [Users -> -1..MaxTime]
  <2>1. now \in -1..MaxTime /\ -1 \in -1..MaxTime
    BY TimeAssumption DEF TimeOK
  <2>2. QED
    BY <2>1, Frames DEF Frame, admin_flag_user, admin_unflag_user
<1>3. wallet' \subseteq Users
  <2>1. ASSUME NEW c \in Calls, InitCredits(c) PROVE wallet' \subseteq Users
    <3>1. job[c].user \in Users
      BY <2>1 DEF InitCredits, JobInv, Fits, Pc
    <3>2. QED
      BY <2>1, <3>1 DEF InitCredits
  <2>2. QED
    BY <2>1, Frames DEF Frame
<1>4. QED
  BY <1>1, <1>2, <1>3

\* Each step keeps the keys of the one-time passwords as they may be.
LEMMA OtpStep ==
  ASSUME Typed, [Next]_vars PROVE OtpOK'
<1> USE DEF Typed, OtpOK
<1>1. \A c \in Calls :
        pc[c] \in {"send_otp", "rate", "smu", "count", "reset_attempts", "issue"} =>
          job[c].user \in Users
  BY DEF JobInv, Fits, Pc
<1>2. pending' \subseteq Users
  BY <1>1, Frames DEF Frame, SendOtp, send_otp, IssueToken, PendingExpires
<1>3. locked' \subseteq Users
  BY <1>1, Frames DEF Frame, CheckRateLimit, ResetAttempts, LockoutExpires
<1>4. attempts' \in [Users -> Nat] /\ rejected' \in [Users -> Nat]
  <2>1. ASSUME NEW u \in Users, Forgiven(u)
        PROVE  attempts' \in [Users -> Nat] /\ rejected' \in [Users -> Nat]
    BY <2>1 DEF Forgiven
  <2>2. ASSUME NEW c \in Calls, JudgeCode(c)
        PROVE  attempts' \in [Users -> Nat] /\ rejected' \in [Users -> Nat]
    BY <1>1, <2>2 DEF JudgeCode
  <2>3. ASSUME NEW c \in Calls, IncrementAttempt(c)
        PROVE  attempts' \in [Users -> Nat] /\ rejected' \in [Users -> Nat]
    BY <1>1, <2>3 DEF IncrementAttempt
  <2>4. ASSUME NEW c \in Calls, ResetAttempts(c)
        PROVE  attempts' \in [Users -> Nat] /\ rejected' \in [Users -> Nat]
    BY <1>1, <2>1, <2>4 DEF ResetAttempts
  <2>5. QED
    BY <2>1, <2>2, <2>3, <2>4, Frames DEF Frame, AttemptsExpire
<1>5. QED
  BY <1>2, <1>3, <1>4

\* A new token is made out for the user until EXPIRY from now.
LEMMA NewToken ==
  ASSUME SessionOK, TimeOK, NEW u \in Users, NEW how \in {"login", "otp"}, NEW took \in Nat,
         generate_token(u, how, took)
  PROVE  \E t \in Tokens :
           /\ tokens[t] = NoToken
           /\ tokens' = [tokens EXCEPT ![t] =
                           [user |-> u, by |-> how, exp |-> now + EXPIRY, took |-> took]]
           /\ tokens' \in [Tokens -> TokenType]
           /\ tokens'[t] # NoToken
<1>1. now + EXPIRY \in Nat
  BY TimeAssumption DEF TimeOK
<1>2. [user |-> u, by |-> how, exp |-> now + EXPIRY, took |-> took] \in TokenType
  BY <1>1 DEF TokenType
<1>3. [user |-> u, by |-> how, exp |-> now + EXPIRY, took |-> took] # NoToken
  BY DEF NoToken
<1>4. QED
  BY <1>2, <1>3 DEF generate_token, SessionOK

\* How long a login has taken, and that it began before its user was flagged.
LEMMA LoginTakes ==
  ASSUME Typed, NEW c \in Calls, pc[c] = "password"
  PROVE  /\ job[c].user \in Users /\ job[c].since \in Nat /\ now - job[c].since \in Nat
         /\ flaggedAt[job[c].user] # -1 => job[c].since <= flaggedAt[job[c].user]
<1>1. job[c].user \in Users /\ job[c].since \in Nat /\ now \in Nat
  BY DEF Typed, ThreadsOK, JobInv, JobType, Fits, Pc, TimeOK
<1>2. LoginFacts(c)
  BY DEF Typed, LoginInv
<1>3. QED
  BY <1>1, <1>2 DEF LoginFacts

\* The key of a revoked token: it ends in the future and not before the token.
LEMMA NewKey ==
  ASSUME SessionOK, TimeOK, NEW t \in Tokens, blacklist_token(t)
  PROVE  /\ blacklist' \in [Tokens -> Nat]
         /\ blacklist'[t] # 0 /\ blacklist'[t] >= tokens[t].exp
         /\ \A s \in Tokens \ {t} : blacklist'[s] = blacklist[s]
<1> DEFINE ttl == tokens[t].exp - now + BUFFER
           end == now + (IF ttl <= 0 THEN BUFFER ELSE ttl)
<1>1. tokens[t].exp \in Nat
  BY DEF SessionOK, TokenType
<1>2. end \in Nat /\ end # 0 /\ end >= tokens[t].exp
  BY <1>1, TimeAssumption DEF TimeOK
<1>3. blacklist' = [blacklist EXCEPT ![t] = end]
  BY DEF blacklist_token
<1> HIDE DEF end
<1>4. QED
  BY <1>2, <1>3 DEF SessionOK

\* Each step keeps tokens and blacklist as they may be.
LEMMA SessionStep ==
  ASSUME Typed, [Next]_vars PROVE SessionOK'
<1> USE DEF Typed
<1>1. tokens' \in [Tokens -> TokenType]
  <2>1. ASSUME NEW c \in Calls, IssueToken(c) PROVE tokens' \in [Tokens -> TokenType]
    <3>1. job[c].user \in Users
      BY <2>1 DEF IssueToken, JobInv, Fits, Pc
    <3>2. QED
      BY <2>1, <3>1, NewToken DEF IssueToken
  <2>2. ASSUME NEW c \in Calls, CheckPassword(c) PROVE tokens' \in [Tokens -> TokenType]
    <3>1. job[c].user \in Users /\ now - job[c].since \in Nat
      BY <2>2, LoginTakes DEF CheckPassword
    <3>2. QED
      BY <2>2, <3>1, NewToken DEF CheckPassword, SessionOK
  <2>3. QED
    BY <2>1, <2>2, Frames DEF Frame, SessionOK
<1>2. blacklist' \in [Tokens -> Nat]
  <2>1. ASSUME NEW c \in Calls, RevokeToken(c) PROVE blacklist' \in [Tokens -> Nat]
    <3>1. job[c].token \in Tokens
      BY <2>1 DEF RevokeToken, JobInv, Fits
    <3>2. QED
      BY <2>1, <3>1, NewKey DEF RevokeToken, SessionOK
  <2>2. QED
    BY <2>1, Frames DEF Frame, SessionOK
<1>3. reused' \subseteq Tokens
  BY Frames DEF Frame, require_auth, SessionOK
<1>4. QED
  BY <1>1, <1>2, <1>3 DEF SessionOK

\* Everything has its type and every step finds in its job what it needs.
THEOREM Typing == Spec => []Typed
<1>1. Init => Typed
  <2> SUFFICES ASSUME Init PROVE Typed
    OBVIOUS
  <2> USE DEF Init
  <2>1. ThreadsOK /\ JobInv /\ LoginInv
    BY Jobs DEF ThreadsOK, JobInv, LoginInv, LoginFacts, Fits, Pc
  <2>2. UsersOK /\ TimeOK
    BY TimeAssumption, AttemptsAssumption DEF UsersOK, TimeOK
  <2>4. OtpOK
    BY DEF OtpOK
  <2>5. SessionOK
    BY DEF SessionOK, TokenType, NoToken
  <2>6. QED
    BY <2>1, <2>2, <2>4, <2>5 DEF Typed
<1>2. Typed /\ [Next]_vars => Typed'
  <2> SUFFICES ASSUME Typed, [Next]_vars PROVE Typed'
    OBVIOUS
  <2>1. now \in Nat
    BY DEF Typed, TimeOK
  <2>2. QED
    BY <2>1, ThreadStep, LoginStep, UsersStep, OtpStep, SessionStep, TimeStep DEF Typed
<1>3. QED
  BY <1>1, <1>2, PTL DEF Spec

\* Tables, keys, requests and history hold what their columns and fields allow.
THEOREM TypeCorrect == Spec => []TypeOK
<1>1. Typed => TypeOK
  BY DEF Typed, TypeOK, ThreadsOK, UsersOK, OtpOK, SessionOK, TimeOK, JobType, TokenType
<1>2. QED
  BY <1>1, Typing, PTL

-------------------------------------------------------------------------------
(* Addresses. *)

\* Two requests that both found an address free do not both get it: the unique
\* column decides.
THEOREM EmailSafe == Spec => []EmailUnique
<1>1. Init => EmailUnique
  BY DEF Init, EmailUnique, Exists
<1>2. Typed /\ EmailUnique /\ [Next]_vars => EmailUnique'
  <2> SUFFICES ASSUME Typed, EmailUnique, [Next]_vars PROVE EmailUnique'
    OBVIOUS
  <2>1. email \in [Users -> Emails \cup {Null}]
    BY DEF Typed, UsersOK
  <2>2. ASSUME NEW u \in Users, NEW e \in Emails, SetEmail(u, e) PROVE EmailUnique'
    BY <2>1, <2>2 DEF SetEmail, Taken, EmailUnique, Exists
  <2>3. ASSUME NEW c \in Calls, InsertUser(c) PROVE EmailUnique'
    <3>1. job[c].email \in Emails
      BY <2>3 DEF InsertUser, Typed, JobInv, Fits
    <3>2. QED
      BY <2>2, <2>3, <3>1 DEF InsertUser
  <2>4. ASSUME NEW c \in Calls, ChangeEmail(c) PROVE EmailUnique'
    <3>1. job[c].email \in Emails /\ job[c].user \in Users
      BY <2>4 DEF ChangeEmail, Typed, JobInv, Fits, Pc
    <3>2. QED
      BY <2>2, <2>4, <3>1 DEF ChangeEmail
  <2>5. CASE UNCHANGED email
    BY <2>5 DEF EmailUnique, Exists
  <2>6. QED
    BY <2>3, <2>4, <2>5, Frames DEF Frame
<1>3. QED
  BY <1>1, <1>2, Typing, PTL DEF Spec

-------------------------------------------------------------------------------
(* Revoked tokens, and tokens of suspended users. *)

\* A token that was handed out ends a lifetime from now at the latest; the key of
\* a revoked one outlives it.
TokenFacts(t) ==
  /\ tokens[t].by = "none" => tokens[t] = NoToken
  /\ tokens[t] # NoToken => tokens[t].exp <= now + EXPIRY
  /\ blacklist[t] # 0 => tokens[t] # NoToken /\ blacklist[t] >= tokens[t].exp

\* A login that began before its user was flagged has a token that ends a lifetime
\* after that, and as much later as the login took.
FlagFacts(u, t) ==
  tokens[t].by = "login" /\ tokens[t].user = u /\ flaggedAt[u] # -1
    => tokens[t].exp <= flaggedAt[u] + EXPIRY + tokens[t].took

SessionInv ==
  /\ reused = {}
  /\ \A t \in Tokens : TokenFacts(t) /\ \A u \in Users : FlagFacts(u, t)
  /\ \A c \in Calls : pc[c] = "revoke" => tokens[job[c].token] # NoToken

\* What a token is and whose it is does not change once it was handed out.
LEMMA TokenStep ==
  ASSUME Typed, [Next]_vars, NEW t \in Tokens
  PROVE  \/ tokens'[t] = tokens[t]
         \/ /\ tokens[t] = NoToken /\ tokens'[t].exp = now + EXPIRY /\ now' = now
            /\ tokens'[t] # NoToken /\ UNCHANGED <<flaggedAt, blacklist>>
            /\ \/ tokens'[t].by = "otp"
               \/ tokens'[t].by = "login" /\ \A u \in Users : FlagFacts(u, t)'
<1> USE DEF Typed
<1>1. tokens \in [Tokens -> TokenType]
  BY DEF SessionOK
<1>2. ASSUME NEW c \in Calls, IssueToken(c) PROVE
         \/ tokens'[t] = tokens[t]
         \/ /\ tokens[t] = NoToken /\ tokens'[t].exp = now + EXPIRY /\ now' = now
            /\ tokens'[t] # NoToken /\ tokens'[t].by = "otp"
            /\ UNCHANGED <<flaggedAt, blacklist>>
  <2>1. job[c].user \in Users
    BY <1>2 DEF IssueToken, JobInv, Fits, Pc
  <2>2. PICK s \in Tokens :
          /\ tokens[s] = NoToken /\ tokens'[s] # NoToken
          /\ tokens' = [tokens EXCEPT ![s] = [user |-> job[c].user, by |-> "otp",
                                              exp |-> now + EXPIRY, took |-> 0]]
    BY <1>2, <2>1, NewToken DEF IssueToken
  <2>3. UNCHANGED <<now, flaggedAt, blacklist>>
    BY <1>2 DEF IssueToken, users
  <2>4. QED
    BY <1>1, <2>2, <2>3
<1>3. ASSUME NEW c \in Calls, CheckPassword(c) PROVE
         \/ tokens'[t] = tokens[t]
         \/ /\ tokens[t] = NoToken /\ tokens'[t].exp = now + EXPIRY /\ now' = now
            /\ tokens'[t] # NoToken /\ UNCHANGED <<flaggedAt, blacklist>>
            /\ tokens'[t].by = "login" /\ \A u \in Users : FlagFacts(u, t)'
  <2> DEFINE v == job[c].user
             took == now - job[c].since
  <2>1. v \in Users /\ took \in Nat /\ (flaggedAt[v] # -1 => job[c].since <= flaggedAt[v])
    BY <1>3, LoginTakes DEF CheckPassword
  <2>2. UNCHANGED <<now, flaggedAt, blacklist>>
    BY <1>3 DEF CheckPassword, users
  <2>3. CASE UNCHANGED tokens
    BY <2>3
  <2>4. CASE generate_token(v, "login", took)
    <3>1. PICK s \in Tokens :
            /\ tokens[s] = NoToken /\ tokens'[s] # NoToken
            /\ tokens' = [tokens EXCEPT ![s] =
                           [user |-> v, by |-> "login", exp |-> now + EXPIRY, took |-> took]]
      BY <2>1, <2>4, NewToken
    <3>2. CASE t # s
      BY <1>1, <3>1, <3>2
    <3>3. CASE t = s
      <4>1. tokens'[t] = [user |-> v, by |-> "login", exp |-> now + EXPIRY, took |-> took]
        BY <1>1, <3>1, <3>3
      <4>2. flaggedAt[v] # -1 => now + EXPIRY <= flaggedAt[v] + EXPIRY + took
        <5>1. /\ flaggedAt[v] \in Int /\ now \in Nat /\ EXPIRY \in Nat
              /\ job[c].since \in Nat
          BY <1>3, <2>1, TimeAssumption, LoginTakes DEF UsersOK, TimeOK, CheckPassword
        <5>2. QED
          BY <2>1, <5>1
      <4> HIDE DEF took, v
      <4>3. \A u \in Users : FlagFacts(u, t)'
        BY <2>2, <4>1, <4>2 DEF FlagFacts
      <4>4. QED
        BY <2>2, <3>1, <3>3, <4>1, <4>3
    <3>4. QED
      BY <3>2, <3>3
  <2>5. QED
    BY <1>3, <2>3, <2>4 DEF CheckPassword
<1>4. QED
  BY <1>2, <1>3, Frames DEF Frame

\* Keys of revoked tokens.
LEMMA KeyStep ==
  ASSUME Typed, SessionInv, [Next]_vars, NEW t \in Tokens, blacklist'[t] # 0
  PROVE  tokens[t] # NoToken /\ blacklist'[t] >= tokens[t].exp
<1> USE DEF Typed
<1>1. TokenFacts(t)
  BY DEF SessionInv
<1>2. CASE UNCHANGED blacklist
  BY <1>1, <1>2 DEF TokenFacts
<1>3. ASSUME NEW c \in Calls, RevokeToken(c), ~ UNCHANGED blacklist
      PROVE  tokens[t] # NoToken /\ blacklist'[t] >= tokens[t].exp
  <2>1. /\ job[c].token \in Tokens /\ tokens[job[c].token] # NoToken
        /\ blacklist_token(job[c].token)
    BY <1>3 DEF RevokeToken, JobInv, Fits, SessionInv
  <2>2. /\ blacklist'[job[c].token] >= tokens[job[c].token].exp
        /\ \A s \in Tokens \ {job[c].token} : blacklist'[s] = blacklist[s]
    BY <2>1, NewKey
  <2>3. QED
    BY <1>1, <2>1, <2>2 DEF TokenFacts
<1>4. QED
  BY <1>2, <1>3, Frames DEF Frame

\* What is known of tokens stays so.
LEMMA TokenFactsStep ==
  ASSUME Typed, SessionInv, [Next]_vars, NEW t \in Tokens
  PROVE  TokenFacts(t)' /\ \A u \in Users : FlagFacts(u, t)'
<1> USE DEF Typed
<1>1. TokenFacts(t) /\ \A u \in Users : FlagFacts(u, t)
  BY DEF SessionInv
<1>2. /\ tokens[t].exp \in Nat /\ now \in Nat /\ EXPIRY \in Nat /\ now' \in Nat /\ now' >= now
      /\ blacklist \in [Tokens -> Nat]
  BY Frames, TimeAssumption DEF Frame, Tick, SessionOK, TokenType, TimeOK
<1>3. CASE tokens'[t] = tokens[t]
  <2>1. TokenFacts(t)'
    BY <1>1, <1>2, <1>3, KeyStep DEF TokenFacts
  <2>2. ASSUME NEW u \in Users PROVE FlagFacts(u, t)'
    <3>1. FlagFacts(u, t) /\ flaggedAt \in [Users -> -1..MaxTime]
      BY <1>1 DEF UsersOK
    <3>2. CASE flaggedAt'[u] = flaggedAt[u]
      BY <1>3, <3>1, <3>2 DEF FlagFacts
    <3>3. CASE flaggedAt'[u] # flaggedAt[u]
      <4>0. tokens[t].took \in Nat
        BY DEF SessionOK, TokenType
      <4>1. flaggedAt'[u] \in {-1, now}
        BY <3>1, <3>3, Frames DEF Frame, admin_flag_user, admin_unflag_user
      <4>2. tokens[t].by = "login" => tokens[t] # NoToken
        BY DEF NoToken
      <4>3. QED
        BY <1>1, <1>2, <1>3, <4>0, <4>1, <4>2 DEF FlagFacts, TokenFacts
    <3>4. QED
      BY <3>2, <3>3
  <2>3. QED
    BY <2>1, <2>2
<1>4. CASE /\ tokens[t] = NoToken /\ tokens'[t].exp = now + EXPIRY /\ now' = now
           /\ tokens'[t] # NoToken /\ UNCHANGED <<flaggedAt, blacklist>>
           /\ \/ tokens'[t].by = "otp"
              \/ tokens'[t].by = "login" /\ \A u \in Users : FlagFacts(u, t)'
  <2>1. blacklist'[t] = 0
    BY <1>1, <1>4 DEF TokenFacts
  <2>2. TokenFacts(t)'
    BY <1>2, <1>4, <2>1 DEF TokenFacts
  <2>3. \A u \in Users : FlagFacts(u, t)'
    BY <1>4 DEF FlagFacts
  <2>4. QED
    BY <2>2, <2>3
<1>5. QED
  BY <1>3, <1>4, TokenStep

\* Tokens and their keys are as said, and no revoked token was let through.
THEOREM SessionSafe == Spec => []SessionInv
<1>1. Init => SessionInv
  <2> SUFFICES ASSUME Init PROVE SessionInv
    OBVIOUS
  <2>1. ASSUME NEW t \in Tokens PROVE TokenFacts(t) /\ \A u \in Users : FlagFacts(u, t)
    BY DEF Init, TokenFacts, FlagFacts, NoToken
  <2>2. QED
    BY <2>1 DEF Init, SessionInv
<1>2. Typed /\ SessionInv /\ [Next]_vars => SessionInv'
  <2> SUFFICES ASSUME Typed, SessionInv, [Next]_vars PROVE SessionInv'
    OBVIOUS
  <2>1. reused' = {}
    <3>1. ASSUME NEW t \in Tokens, require_auth(t) PROVE reused' = {}
      <4>1. reused = {} /\ TokenFacts(t)
        BY DEF SessionInv
      <4>2. tokens[t].exp \in Nat /\ now \in Nat /\ blacklist[t] \in Nat
        BY DEF Typed, SessionOK, TokenType, TimeOK
      <4>3. QED
        BY <3>1, <4>1, <4>2 DEF require_auth, Valid, is_blacklisted, TokenFacts
    <3>2. QED
      BY <3>1, Frames DEF Frame, SessionInv
  <2>2. ASSUME NEW c \in Calls, pc'[c] = "revoke" PROVE tokens'[job'[c].token] # NoToken
    <3>1. \A t \in Tokens : tokens[t] # NoToken => tokens'[t] # NoToken
      BY TokenStep
    <3>2. pc \in [Calls -> Pc] /\ job \in [Calls -> JobType]
      BY DEF Typed, ThreadsOK
    <3>3. CASE pc'[c] = pc[c] /\ job'[c] = job[c]
      BY <2>2, <3>1, <3>3 DEF SessionInv, Typed, JobInv, Fits
    <3>4. ASSUME NEW t \in Tokens, logout(c, t) PROVE tokens'[job'[c].token] # NoToken
      <4>1. job'[c] = [user |-> Null, email |-> Null, token |-> t, since |-> 0]
        BY <3>2, <3>4, Jobs DEF logout, Begin
      <4>2. tokens[t] # NoToken
        BY <3>4 DEF logout, require_auth, Valid
      <4>3. QED
        BY <3>1, <4>1, <4>2
    <3>5. CASE \/ \E u \in Users : login(c, u)
               \/ CheckRateLimit(c) \/ JudgeCode(c) \/ IncrementAttempt(c) \/ RevokeToken(c)
               \/ CheckPassword(c)
      BY <2>2, <3>2, <3>5 DEF login, CheckRateLimit, JudgeCode, SmuAnswers, IncrementAttempt,
                              RevokeToken, CheckPassword, Begin, Goto, End
    <3>6. QED
      BY <2>2, <3>3, <3>4, <3>5, Moves DEF Moved, Watched, Typed
  <2>3. QED
    BY <2>1, <2>2, TokenFactsStep DEF SessionInv
<1>3. QED
  BY <1>1, <1>2, Typing, PTL DEF Spec

\* A revoked token is refused by the auth orchestrator as long as Redis answers.
THEOREM RevocationSafe == Spec => []RevokedIsRefused
<1>1. SessionInv => RevokedIsRefused
  BY DEF SessionInv, RevokedIsRefused
<1>2. QED
  BY <1>1, SessionSafe, PTL

\* A token's lifetime after a user was flagged, no login of theirs is left, unless it
\* was under way at that time: then it may last longer by the time it took.
THEOREM SuspensionSafe == Spec => []SuspensionTakesEffect
<1>1. Typed /\ SessionInv => SuspensionTakesEffect
  <2> SUFFICES ASSUME Typed, SessionInv, NEW u \in Users, NEW t \in Tokens,
                      flaggedAt[u] # -1, Valid(t), tokens[t].user = u, tokens[t].by = "login"
               PROVE  now < flaggedAt[u] + EXPIRY + tokens[t].took
    BY DEF SuspensionTakesEffect
  <2>1. tokens[t].exp <= flaggedAt[u] + EXPIRY + tokens[t].took
    BY DEF SessionInv, FlagFacts
  <2>2. /\ tokens[t].exp \in Nat /\ tokens[t].took \in Nat /\ now \in Nat
        /\ flaggedAt[u] \in Int /\ EXPIRY \in Nat
    BY TimeAssumption DEF Typed, SessionOK, TokenType, TimeOK, UsersOK
  <2>3. QED
    BY <2>1, <2>2 DEF Valid
<1>2. QED
  BY <1>1, SessionSafe, Typing, PTL

-------------------------------------------------------------------------------
(* Rejected codes. *)

\* Requests whose code the SMU API is judging, or rejected and is yet to count.
Judging(u) == {c \in Calls : pc[c] = "smu" /\ job[c].user = u}
Counting(u) == {c \in Calls : pc[c] = "count" /\ job[c].user = u}

\* A rejected code is counted, about to be counted or was not because Redis was out of
\* reach; and the requests that are allowed to guess on are part of the bound.
GuessFacts(u) ==
  /\ rejected[u] <= attempts[u] + Cardinality(Counting(u)) + mishaps
  /\ rejected[u] + Cardinality(Judging(u)) <= ATTEMPTS + Cardinality(Calls) - 1 + mishaps

GuessInv == \A u \in Users : GuessFacts(u)

\* The requests are finitely many.
LEMMA Sizes ==
  \A u : /\ IsFiniteSet(Judging(u)) /\ Cardinality(Judging(u)) \in Nat
         /\ IsFiniteSet(Counting(u)) /\ Cardinality(Counting(u)) \in Nat
         /\ Cardinality(Calls) \in Nat /\ Cardinality(Judging(u)) <= Cardinality(Calls)
<1> TAKE u
<1>1. Judging(u) \subseteq Calls /\ Counting(u) \subseteq Calls
  BY DEF Judging, Counting
<1>2. /\ IsFiniteSet(Judging(u)) /\ Cardinality(Judging(u)) <= Cardinality(Calls)
      /\ IsFiniteSet(Counting(u))
  BY <1>1, CallsAssumption, FS_Subset
<1>3. QED
  BY <1>2, CallsAssumption, FS_CardinalityType

\* Those that judge or count are not all of them while one asks for leave.
LEMMA OneIsElsewhere ==
  ASSUME NEW u, NEW c \in Calls, pc[c] \notin {"smu", "count"}
  PROVE  Cardinality(Judging(u)) + Cardinality(Counting(u)) <= Cardinality(Calls) - 1
<1> DEFINE J == Judging(u)
           K == Counting(u)
<1>1. J \cap K = {} /\ J \cup K \subseteq Calls \ {c}
  BY DEF Judging, Counting
<1>2. IsFiniteSet(J) /\ IsFiniteSet(K) /\ Cardinality(J) \in Nat /\ Cardinality(K) \in Nat
  BY Sizes
<1> HIDE DEF J, K
<1>3. Cardinality(J \cup K) = Cardinality(J) + Cardinality(K) - Cardinality({})
  BY <1>1, <1>2, FS_Union
<1>4. IsFiniteSet(Calls \ {c}) /\ Cardinality(Calls \ {c}) = Cardinality(Calls) - 1
  BY CallsAssumption, FS_RemoveElement
<1>5. Cardinality(J \cup K) <= Cardinality(Calls \ {c})
  BY <1>1, <1>4, FS_Subset
<1>6. QED
  BY <1>2, <1>3, <1>4, <1>5, FS_EmptySet DEF J, K

\* Nothing is guessed, counted or forgotten for u.
LEMMA GuessKept ==
  ASSUME Typed, [Next]_vars, NEW u \in Users, GuessFacts(u),
         attempts'[u] = attempts[u], rejected'[u] = rejected[u],
         Judging(u)' = Judging(u), Counting(u)' = Counting(u)
  PROVE  GuessFacts(u)'
<1>1. /\ attempts[u] \in Nat /\ rejected[u] \in Nat /\ mishaps \in Nat /\ mishaps' \in Nat
      /\ mishaps' >= mishaps /\ ATTEMPTS \in Nat
  BY Frames, AttemptsAssumption DEF Typed, OtpOK, TimeOK, Frame, Mishap
<1>2. QED
  BY <1>1, Sizes DEF GuessFacts

\* The counter of u was emptied.
LEMMA GuessForgiven ==
  ASSUME Typed, Typed', NEW u \in Users, attempts'[u] = 0, rejected'[u] = 0
  PROVE  GuessFacts(u)'
<1>1. mishaps' \in Nat /\ ATTEMPTS \in Nat \ {0}
  BY AttemptsAssumption DEF Typed, TimeOK
<1>2. /\ Cardinality(Judging(u)') \in Nat /\ Cardinality(Counting(u)') \in Nat
      /\ Cardinality(Calls) \in Nat /\ Cardinality(Judging(u)') <= Cardinality(Calls)
  <2>1. Judging(u)' \subseteq Calls /\ Counting(u)' \subseteq Calls
    BY DEF Judging, Counting
  <2>2. QED
    BY <2>1, CallsAssumption, FS_Subset, FS_CardinalityType
<1>3. QED
  BY <1>1, <1>2 DEF GuessFacts

\* A request goes on to another step, with the same particulars.
LEMMA GuessGoto ==
  ASSUME Typed, NEW c \in Calls, NEW step, Goto(c, step), NEW u
  PROVE  /\ Judging(u)' = IF step = "smu" /\ job[c].user = u THEN Judging(u) \cup {c}
                          ELSE Judging(u) \ {c}
         /\ Counting(u)' = IF step = "count" /\ job[c].user = u THEN Counting(u) \cup {c}
                           ELSE Counting(u) \ {c}
<1>1. pc \in [Calls -> Pc]
  BY DEF Typed, ThreadsOK
<1>2. pc' = [pc EXCEPT ![c] = step] /\ job' = job
  BY DEF Goto
<1>3. QED
  BY <1>1, <1>2 DEF Judging, Counting

\* A request that ends judges and counts no more.
LEMMA GuessEnd ==
  ASSUME Typed, NEW c \in Calls, End(c), NEW u
  PROVE  Judging(u)' = Judging(u) \ {c} /\ Counting(u)' = Counting(u) \ {c}
<1>1. pc'[c] = "idle" /\ \A d \in Calls \ {c} : pc'[d] = pc[d] /\ job'[d] = job[d]
  BY DEF End, Typed, ThreadsOK
<1>2. QED
  BY <1>1 DEF Judging, Counting

\* Each step keeps the bound on rejected codes.
LEMMA GuessStep ==
  ASSUME Typed, Typed', GuessInv, [Next]_vars, NEW u \in Users
  PROVE  GuessFacts(u)'
<1> USE DEF Typed
<1>1. GuessFacts(u)
  BY DEF GuessInv
<1>2. pc \in [Calls -> Pc] /\ job \in [Calls -> JobType]
  BY DEF ThreadsOK
<1>3. attempts \in [Users -> Nat] /\ rejected \in [Users -> Nat]
  BY DEF OtpOK
<1>4. ATTEMPTS \in Nat /\ mishaps \in Nat
  BY AttemptsAssumption DEF TimeOK
<1> DEFINE J == Cardinality(Judging(u))
           K == Cardinality(Counting(u))
           N == Cardinality(Calls)
<1>5. J \in Nat /\ K \in Nat /\ N \in Nat /\ IsFiniteSet(Judging(u)) /\ IsFiniteSet(Counting(u))
  BY Sizes
<1>6. ASSUME NEW c \in Calls, CheckRateLimit(c) PROVE GuessFacts(u)'
  <2>1. pc[c] = "rate" /\ UNCHANGED <<attempts, rejected>>
    BY <1>6 DEF CheckRateLimit
  <2>2. c \notin Judging(u) /\ c \notin Counting(u)
    BY <2>1 DEF Judging, Counting
  <2>3. CASE End(c) \/ (Goto(c, "smu") /\ job[c].user # u)
    <3>1. Judging(u)' = Judging(u) \ {c} /\ Counting(u)' = Counting(u) \ {c}
      <4>1. CASE End(c)
        BY <4>1, GuessEnd
      <4>2. CASE Goto(c, "smu") /\ job[c].user # u
        BY <4>2, GuessGoto
      <4>3. QED
        BY <2>3, <4>1, <4>2
    <3>2. Judging(u)' = Judging(u) /\ Counting(u)' = Counting(u)
      BY <2>2, <3>1
    <3>3. QED
      BY <1>1, <2>1, <3>2, GuessKept
  <2>4. CASE Goto(c, "smu") /\ job[c].user = u
    <3>0. Judging(u)' = Judging(u) \cup {c} /\ Counting(u)' = Counting(u) \ {c}
      BY <2>4, GuessGoto
    <3>1. Judging(u)' = Judging(u) \cup {c} /\ Counting(u)' = Counting(u)
      BY <2>2, <3>0
    <3>2. Cardinality(Judging(u)') = J + 1
      BY <1>5, <2>2, <3>1, FS_AddElement
    <3>3. J + K <= N - 1
      BY <2>1, OneIsElsewhere
    <3>4. (attempts[u] < ATTEMPTS /\ mishaps' = mishaps) \/ mishaps' = mishaps + 1
      BY <1>2, <1>6, <2>4 DEF CheckRateLimit, check_rate_limit, Answered, NoRedis, Mishap, End, Goto
    <3> HIDE DEF J, K, N
    <3>5. rejected[u] <= attempts[u] + K + mishaps /\ rejected[u] + J <= ATTEMPTS + N - 1 + mishaps
      BY <1>1 DEF GuessFacts, J, K, N
    <3>6. attempts[u] \in Nat /\ rejected[u] \in Nat
      BY <1>3
    <3>7. rejected[u] <= attempts[u] + K + mishaps'
      BY <1>4, <1>5, <3>4, <3>5, <3>6
    <3>8. rejected[u] + (J + 1) <= ATTEMPTS + N - 1 + mishaps'
      BY <1>4, <1>5, <3>3, <3>4, <3>5, <3>6
    <3>9. QED
      BY <2>1, <3>1, <3>2, <3>7, <3>8 DEF GuessFacts, J, K, N
  <2>5. QED
    BY <1>6, <2>3, <2>4 DEF CheckRateLimit
<1>7. ASSUME NEW c \in Calls, JudgeCode(c) PROVE GuessFacts(u)'
  <2>1. pc[c] = "smu" /\ UNCHANGED <<attempts, mishaps>> /\ job[c].user \in Users
    BY <1>7 DEF JudgeCode, JobInv, Fits, Pc
  <2>2. c \notin Counting(u) /\ (c \in Judging(u) <=> job[c].user = u)
    BY <2>1 DEF Judging, Counting
  <2>3. Goto(c, "count") \/ Goto(c, "reset_attempts") \/ End(c)
    BY <1>7 DEF JudgeCode
  <2>4. CASE job[c].user # u
    <3>1. Judging(u)' = Judging(u) /\ Counting(u)' = Counting(u)
      <4>1. CASE Goto(c, "count") \/ Goto(c, "reset_attempts")
        <5>1. CASE Goto(c, "count")
          <6>1. Judging(u)' = Judging(u) \ {c} /\ Counting(u)' = Counting(u) \ {c}
            BY <2>4, <5>1, GuessGoto
          <6>2. QED
            BY <2>2, <2>4, <6>1
        <5>2. CASE Goto(c, "reset_attempts")
          <6>1. Judging(u)' = Judging(u) \ {c} /\ Counting(u)' = Counting(u) \ {c}
            BY <5>2, GuessGoto
          <6>2. QED
            BY <2>2, <2>4, <6>1
        <5>3. QED
          BY <4>1, <5>1, <5>2
      <4>2. CASE End(c)
        BY <2>2, <2>4, <4>2, GuessEnd
      <4>3. QED
        BY <2>3, <4>1, <4>2
    <3>2. rejected'[u] = rejected[u]
      BY <1>3, <1>7, <2>1, <2>4 DEF JudgeCode
    <3>3. QED
      BY <1>1, <2>1, <3>1, <3>2, GuessKept
  <2>5. CASE job[c].user = u
    <3>1. /\ Judging(u)' = Judging(u) \ {c}
          /\ \/ Counting(u)' = Counting(u) /\ rejected' = rejected
             \/ Counting(u)' = Counting(u) \cup {c} /\ rejected'[u] = rejected[u] + 1
      <4>1. CASE Goto(c, "count") /\ rejected' = [rejected EXCEPT ![job[c].user] = @ + 1]
        <5>1. Judging(u)' = Judging(u) \ {c} /\ Counting(u)' = Counting(u) \cup {c}
          BY <2>5, <4>1, GuessGoto
        <5>2. rejected'[u] = rejected[u] + 1
          BY <1>3, <2>5, <4>1
        <5>3. QED
          BY <5>1, <5>2
      <4>2. CASE Goto(c, "reset_attempts") /\ UNCHANGED rejected
        <5>1. /\ pc'[c] = "reset_attempts"
              /\ \A d \in Calls \ {c} : pc'[d] = pc[d] /\ job'[d] = job[d]
          BY <1>2, <4>2 DEF Goto
        <5>2. Judging(u)' = Judging(u) \ {c} /\ Counting(u)' = Counting(u) \ {c}
          BY <5>1 DEF Judging, Counting
        <5>3. QED
          BY <2>2, <4>2, <5>2
      <4>3. CASE End(c) /\ UNCHANGED rejected
        <5>1. Judging(u)' = Judging(u) \ {c} /\ Counting(u)' = Counting(u) \ {c}
          BY <4>3, GuessEnd
        <5>2. QED
          BY <2>2, <4>3, <5>1
      <4>4. QED
        BY <1>7, <4>1, <4>2, <4>3 DEF JudgeCode
    <3>2. Cardinality(Judging(u)') = J - 1
      BY <1>5, <2>2, <2>5, <3>1, FS_RemoveElement
    <3>3. \/ Cardinality(Counting(u)') = K /\ rejected' = rejected
          \/ Cardinality(Counting(u)') = K + 1 /\ rejected'[u] = rejected[u] + 1
      BY <1>5, <2>2, <3>1, FS_AddElement
    <3>4. rejected[u] <= attempts[u] + K + mishaps /\ rejected[u] + J <= ATTEMPTS + N - 1 + mishaps
      BY <1>1 DEF GuessFacts
    <3>5. attempts[u] \in Nat /\ rejected[u] \in Nat
      BY <1>3
    <3> HIDE DEF J, K, N
    <3>6. QED
      BY <1>4, <1>5, <2>1, <3>2, <3>3, <3>4, <3>5 DEF GuessFacts, N
  <2>6. QED
    BY <2>4, <2>5
<1>8. ASSUME NEW c \in Calls, IncrementAttempt(c) PROVE GuessFacts(u)'
  <2>1. pc[c] = "count" /\ UNCHANGED rejected /\ job[c].user \in Users /\ End(c)
    BY <1>8 DEF IncrementAttempt, JobInv, Fits, Pc
  <2>2. c \notin Judging(u) /\ (c \in Counting(u) <=> job[c].user = u)
    BY <2>1 DEF Judging, Counting
  <2>3. Judging(u)' = Judging(u) /\ Counting(u)' = Counting(u) \ {c}
    <3>1. Judging(u)' = Judging(u) \ {c} /\ Counting(u)' = Counting(u) \ {c}
      BY <2>1, GuessEnd
    <3>2. QED
      BY <2>2, <3>1
  <2>4. CASE job[c].user # u
    <3>1. attempts'[u] = attempts[u]
      BY <1>3, <1>8, <2>1, <2>4 DEF IncrementAttempt
    <3>2. QED
      BY <1>1, <2>1, <2>2, <2>3, <2>4, <3>1, GuessKept
  <2>5. CASE job[c].user = u
    <3>1. Cardinality(Counting(u)') = K - 1
      BY <1>5, <2>2, <2>3, <2>5, FS_RemoveElement
    <3>2. \/ attempts'[u] = attempts[u] + 1 /\ mishaps' = mishaps
          \/ attempts'[u] = attempts[u] /\ mishaps' = mishaps + 1
      BY <1>3, <1>8, <2>1, <2>5 DEF IncrementAttempt, Answered, NoRedis, Mishap
    <3>3. rejected[u] <= attempts[u] + K + mishaps /\ rejected[u] + J <= ATTEMPTS + N - 1 + mishaps
      BY <1>1 DEF GuessFacts
    <3>4. attempts[u] \in Nat /\ rejected[u] \in Nat
      BY <1>3
    <3>5. Cardinality(Judging(u)') = J
      BY <2>3
    <3> HIDE DEF J, K, N
    <3>6. QED
      BY <1>4, <1>5, <2>1, <3>1, <3>2, <3>3, <3>4, <3>5 DEF GuessFacts, N
  <2>6. QED
    BY <2>4, <2>5
<1>9. ASSUME NEW v \in Users, Forgiven(v), Judging(u)' = Judging(u), Counting(u)' = Counting(u)
      PROVE  GuessFacts(u)'
  <2>1. CASE u = v
    <3>1. attempts'[u] = 0 /\ rejected'[u] = 0
      BY <1>3, <1>9, <2>1 DEF Forgiven
    <3>2. QED
      BY <3>1, GuessForgiven
  <2>2. CASE u # v
    BY <1>1, <1>3, <1>9, <2>2, GuessKept DEF Forgiven
  <2>3. QED
    BY <2>1, <2>2
<1>10. CASE ~ \E c \in Calls : CheckRateLimit(c) \/ JudgeCode(c) \/ IncrementAttempt(c)
  <2>1. ASSUME NEW c \in Calls
        PROVE  /\ c \in Judging(u)' <=> c \in Judging(u)
               /\ c \in Counting(u)' <=> c \in Counting(u)
    <3>1. CASE pc'[c] = pc[c] /\ job'[c] = job[c]
      BY <3>1 DEF Judging, Counting
    <3>2. CASE pc[c] \notin Watched /\ pc'[c] \notin Watched
      BY <3>2 DEF Judging, Counting, Watched
    <3>3. CASE \/ \E t \in Tokens : logout(c, t)
               \/ \E v \in Users : login(c, v)
               \/ RevokeToken(c) \/ CheckPassword(c)
      BY <1>2, <3>3 DEF logout, login, RevokeToken, CheckPassword, Begin, End, Judging, Counting
    <3>4. QED
      BY <1>10, <3>1, <3>2, <3>3, Moves DEF Moved
  <2>2. Judging(u)' = Judging(u) /\ Counting(u)' = Counting(u)
    BY <2>1 DEF Judging, Counting
  <2>3. CASE UNCHANGED <<attempts, rejected>>
    BY <1>1, <2>2, <2>3, GuessKept
  <2>4. ASSUME NEW c \in Calls, ResetAttempts(c) PROVE GuessFacts(u)'
    <3>1. job[c].user \in Users
      BY <2>4 DEF ResetAttempts, JobInv, Fits, Pc
    <3>2. QED
      BY <1>9, <2>2, <2>3, <2>4, <3>1 DEF ResetAttempts
  <2>5. ASSUME NEW v \in Users, AttemptsExpire(v) PROVE GuessFacts(u)'
    BY <1>9, <2>2, <2>5 DEF AttemptsExpire
  <2>6. QED
    BY <1>10, <2>3, <2>4, <2>5, Frames DEF Frame
<1>11. QED
  BY <1>6, <1>7, <1>8, <1>10

\* The limit on codes that the SMU API rejects with 400 holds per counting window, but
\* for the requests that were let through before it was reached and the times Redis
\* was out of reach.  It says nothing of codes the API refuses in an answer of 200.
THEOREM RejectedSafe == Spec => []RejectedBounded
<1>1. Init => GuessInv
  <2> SUFFICES ASSUME Init, NEW u \in Users PROVE GuessFacts(u)
    BY DEF GuessInv
  <2>1. Judging(u) = {}
    BY DEF Init, Judging
  <2>2. rejected[u] = 0 /\ attempts[u] = 0 /\ mishaps = 0
    BY DEF Init
  <2>3. QED
    BY <2>1, <2>2, Sizes, FS_EmptySet, AttemptsAssumption DEF GuessFacts
<1>2. Typed /\ Typed' /\ GuessInv /\ [Next]_vars => GuessInv'
  BY GuessStep DEF GuessInv
<1>3. Typed /\ GuessInv => RejectedBounded
  <2> SUFFICES ASSUME Typed, GuessInv, NEW u \in Users
               PROVE  rejected[u] <= ATTEMPTS + Cardinality(Calls) - 1 + mishaps
    BY DEF RejectedBounded
  <2>1. GuessFacts(u) /\ rejected[u] \in Nat /\ mishaps \in Nat /\ ATTEMPTS \in Nat
    BY AttemptsAssumption DEF GuessInv, Typed, OtpOK, TimeOK
  <2>2. QED
    BY <2>1, Sizes DEF GuessFacts
<1>4. QED
  BY <1>1, <1>2, <1>3, Typing, PTL DEF Spec

===============================================================================
