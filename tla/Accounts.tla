------------------------------- MODULE Accounts -------------------------------
(***************************************************************************)
(* Accounts and sessions: orchestrators/auth-orchestrator registers users, *)
(* signs tokens and revokes them (shared/token_blacklist.py, in Redis);    *)
(* services/user-service keeps the users; services/otp-wrapper has the SMU *)
(* API judge one-time passwords and counts those it rejects.               *)
(*                                                                         *)
(* A step is one call to Redis, to a service or to the database.  A call   *)
(* may fail, a failed write not being applied; MaxMishaps bounds how often. *)
(* Passwords, names, roles and favourites are left out, and the password-  *)
(* reset tokens of user-service, which nothing accepts (README.md).        *)
(***************************************************************************)
EXTENDS Integers, FiniteSets

CONSTANTS Users, Emails,      \* uuid4 of the rows, and addresses
          Tokens,             \* jti of JWTs
          Calls,              \* request threads
          EXPIRY, BUFFER,     \* JWT_EXPIRY_HOURS, BLACKLIST_TTL_BUFFER
          ATTEMPTS,           \* RATE_LIMIT_ATTEMPTS
          MaxTime,            \* bound: the clock stops here
          MaxMishaps,         \* bound: calls that fail
          Null

ASSUME TimeAssumption == EXPIRY \in Nat \ {0} /\ BUFFER \in Nat \ {0} /\ MaxTime \in Nat
ASSUME AttemptsAssumption == ATTEMPTS \in Nat \ {0} /\ MaxMishaps \in Nat
ASSUME CallsAssumption == IsFiniteSet(Calls)
ASSUME NullAssumption == Null \notin Users \cup Emails \cup Tokens

VARIABLES email,       \* user-service: email[u], Null for a row that does not exist
          flaggedAt,   \* user-service, isFlagged: since when, -1 for not
          wallet,      \* OutSystems: users with a credit row
          pending,     \* Redis, pending_otp: users with a one-time password to enter
          attempts,    \* Redis, otp:rate: rejected codes counted for the phone of u
          locked,      \* Redis, otp:lock: phones (of users) that are locked
          tokens,      \* JWTs in the users' hands: whose, how obtained, until when, and
                       \* how long the login took that it was obtained by (history)
          blacklist,   \* Redis, token_blacklist: until when the key exists, 0 for not
          now, mishaps,
          pc, job,     \* the step request c is at, and what it is about
          \* History.
          rejected,    \* rejected[u]: codes the SMU API answered with 400 since the
                       \* counter was last empty
          reused       \* revoked tokens that require_auth let through, Redis answering

vars == <<email, flaggedAt, wallet, pending, attempts, locked, tokens, blacklist,
          now, mishaps, pc, job, rejected, reused>>
users == <<email, flaggedAt, wallet>>
otp == <<pending, attempts, locked, rejected>>
session == <<tokens, blacklist, reused>>

-------------------------------------------------------------------------------
Pc == {"idle", "insert", "init_credits", "send_otp", "change_email", "rate", "smu", "count",
       "reset_attempts", "issue", "password", "revoke"}

\* Tables, keys, requests and history hold what their columns and fields allow.
TypeOK ==
  /\ email \in [Users -> Emails \cup {Null}]
  /\ flaggedAt \in [Users -> -1..MaxTime] /\ wallet \subseteq Users
  /\ pending \subseteq Users /\ locked \subseteq Users
  /\ attempts \in [Users -> Nat] /\ rejected \in [Users -> Nat]
  /\ tokens \in [Tokens -> [user : Users \cup {Null}, by : {"none", "login", "otp"},
                            exp : Nat, took : Nat]]
  /\ blacklist \in [Tokens -> Nat]
  /\ now \in 0..MaxTime /\ mishaps \in 0..MaxMishaps
  /\ pc \in [Calls -> Pc]
  /\ job \in [Calls -> [user : Users \cup {Null}, email : Emails \cup {Null},
                        token : Tokens \cup {Null}, since : Nat]]
  /\ reused \subseteq Tokens

NoJob == [user |-> Null, email |-> Null, token |-> Null, since |-> 0]
NoToken == [user |-> Null, by |-> "none", exp |-> 0, took |-> 0]

Init ==
  /\ email = [u \in Users |-> Null] /\ flaggedAt = [u \in Users |-> -1] /\ wallet = {}
  /\ pending = {} /\ locked = {}
  /\ attempts = [u \in Users |-> 0] /\ rejected = [u \in Users |-> 0]
  /\ tokens = [t \in Tokens |-> NoToken] /\ blacklist = [t \in Tokens |-> 0]
  /\ now = 0 /\ mishaps = 0
  /\ pc = [c \in Calls |-> "idle"] /\ job = [c \in Calls |-> NoJob]
  /\ reused = {}

-------------------------------------------------------------------------------
Mishap == mishaps < MaxMishaps /\ mishaps' = mishaps + 1
Answered == UNCHANGED mishaps

\* GET /users/{id} finds a row; GET /users/by-email/{email} finds u's row.
Exists(u) == email[u] # Null
get_user_by_email(e, u) == Exists(u) /\ email[u] = e

\* create_user and update_user look for another row with the address.
Taken(e, u) == \E v \in Users \ {u} : email[v] = e

Begin(c, step, j) ==
  /\ pc[c] = "idle" /\ pc' = [pc EXCEPT ![c] = step] /\ job' = [job EXCEPT ![c] = j]
Goto(c, step) == pc' = [pc EXCEPT ![c] = step] /\ UNCHANGED job
End(c) == pc' = [pc EXCEPT ![c] = "idle"] /\ job' = [job EXCEPT ![c] = NoJob]

-------------------------------------------------------------------------------
(* POST /auth/register, and user-service. *)

\* create_user looks for the address first.
register(c, e) ==
  /\ ~ Taken(e, Null) /\ Begin(c, "insert", [NoJob EXCEPT !.email = e])
  /\ UNCHANGED <<users, otp, session, now, mishaps>>

\* Mutant: the column email is not unique.
SetEmailAny(u, e) == email' = [email EXCEPT ![u] = e]

\* users.email is unique: a second row with the address is an IntegrityError.
SetEmail(u, e) ==
  email' = IF Taken(e, u) THEN email ELSE [email EXCEPT ![u] = e]

InsertUser(c) ==
  /\ pc[c] = "insert"
  /\ \E u \in Users :
       /\ ~ Exists(u) /\ SetEmail(u, job[c].email)
       /\ IF email' = email THEN End(c)
          ELSE /\ pc' = [pc EXCEPT ![c] = "init_credits"]
               /\ job' = [job EXCEPT ![c] = [NoJob EXCEPT !.user = u]]
  /\ UNCHANGED <<flaggedAt, wallet, otp, session, now, mishaps>>

\* The credit row and the one-time password: failures are ignored.
InitCredits(c) ==
  /\ pc[c] = "init_credits" /\ Goto(c, "send_otp")
  /\ \/ Answered /\ wallet' = wallet \cup {job[c].user}
     \/ Mishap /\ UNCHANGED wallet
  /\ UNCHANGED <<email, flaggedAt, otp, session, now>>

\* POST /otp/send of the wrapper, whose session id the orchestrator keeps in
\* pending_otp; with no answer from the SMU API, or no id in it, there is none.
send_otp(u) ==
  \/ Answered /\ pending' = pending \cup {u}
  \/ Mishap /\ UNCHANGED pending

SendOtp(c) ==
  /\ pc[c] = "send_otp" /\ End(c) /\ send_otp(job[c].user)
  /\ UNCHANGED <<users, attempts, locked, rejected, session, now>>

\* PATCH /users/{id} with an address: looked for first, then written.
update_user(c, u, e) ==
  /\ Exists(u) /\ ~ Taken(e, u)
  /\ Begin(c, "change_email", [NoJob EXCEPT !.user = u, !.email = e])
  /\ UNCHANGED <<users, otp, session, now, mishaps>>

ChangeEmail(c) ==
  /\ pc[c] = "change_email" /\ SetEmail(job[c].user, job[c].email) /\ End(c)
  /\ UNCHANGED <<flaggedAt, wallet, otp, session, now, mishaps>>

admin_flag_user(u) ==
  /\ Exists(u) /\ flaggedAt[u] = -1 /\ flaggedAt' = [flaggedAt EXCEPT ![u] = now]
  /\ UNCHANGED <<email, wallet, otp, session, now, mishaps, pc, job>>

admin_unflag_user(u) ==
  /\ flaggedAt[u] # -1 /\ flaggedAt' = [flaggedAt EXCEPT ![u] = -1]
  /\ UNCHANGED <<email, wallet, otp, session, now, mishaps, pc, job>>

-------------------------------------------------------------------------------
(* POST /auth/verify-registration, and POST /otp/verify of the wrapper. *)

verify_registration(c, u) ==
  /\ Exists(u) /\ u \in pending /\ Begin(c, "rate", [NoJob EXCEPT !.user = u])
  /\ UNCHANGED <<users, otp, session, now, mishaps>>

\* Mutant: one attempt more.
check_rate_limit_late(u) == u \notin locked /\ attempts[u] <= ATTEMPTS

\* _check_rate_limit
check_rate_limit(u) == u \notin locked /\ attempts[u] < ATTEMPTS

\* The wrapper's Redis client cannot be had.
NoRedis == Mishap

\* Refusing locks the phone.  With Redis unreachable every attempt is allowed.
CheckRateLimit(c) ==
  /\ pc[c] = "rate"
  /\ LET u == job[c].user IN
     \/ check_rate_limit(u) /\ Answered /\ Goto(c, "smu") /\ UNCHANGED locked
     \/ ~ check_rate_limit(u) /\ Answered /\ End(c) /\ locked' = locked \cup {u}
     \/ NoRedis /\ Goto(c, "smu") /\ UNCHANGED locked
  /\ UNCHANGED <<users, pending, attempts, rejected, session, now>>

\* What POST /VerifyOTP of the SMU API answers.  Both of the middle answers are a
\* wrong code to the caller; only the first of them is counted.
SmuAnswers == {"verified", "400", "200, not verified", "no answer"}

\* POST /otp/verify, from the call of the SMU API on.
JudgeCode(c) ==
  /\ pc[c] = "smu"
  /\ \E answer \in SmuAnswers :
       /\ CASE answer = "verified" -> Goto(c, "reset_attempts")
            [] answer = "400" -> Goto(c, "count")
            [] OTHER -> End(c)
       /\ rejected' = IF answer = "400" THEN [rejected EXCEPT ![job[c].user] = @ + 1]
                      ELSE rejected
  /\ UNCHANGED <<users, pending, attempts, locked, session, now, mishaps>>

\* _increment_attempt
IncrementAttempt(c) ==
  /\ pc[c] = "count" /\ End(c)
  /\ \/ Answered /\ attempts' = [attempts EXCEPT ![job[c].user] = @ + 1]
     \/ NoRedis /\ UNCHANGED attempts
  /\ UNCHANGED <<users, pending, locked, rejected, session, now>>

Forgiven(u) == attempts' = [attempts EXCEPT ![u] = 0] /\ rejected' = [rejected EXCEPT ![u] = 0]

\* _reset_attempts
ResetAttempts(c) ==
  /\ pc[c] = "reset_attempts" /\ Goto(c, "issue")
  /\ \/ Answered /\ Forgiven(job[c].user) /\ locked' = locked \ {job[c].user}
     \/ NoRedis /\ UNCHANGED <<attempts, rejected, locked>>
  /\ UNCHANGED <<users, pending, session, now>>

\* Keys in Redis run out.
PendingExpires(u) ==
  /\ u \in pending /\ pending' = pending \ {u}
  /\ UNCHANGED <<users, attempts, locked, rejected, session, now, mishaps, pc, job>>

AttemptsExpire(u) ==
  /\ attempts[u] > 0 /\ Forgiven(u)
  /\ UNCHANGED <<users, pending, locked, session, now, mishaps, pc, job>>

LockoutExpires(u) ==
  /\ u \in locked /\ locked' = locked \ {u}
  /\ UNCHANGED <<users, pending, attempts, rejected, session, now, mishaps, pc, job>>

-------------------------------------------------------------------------------
(* Tokens. *)

\* Mutant: the token is made out without its time of expiry.
generate_token_endless(u, how, took) ==
  \E t \in Tokens :
    /\ tokens[t] = NoToken
    /\ tokens' = [tokens EXCEPT ![t] = [user |-> u, by |-> how, exp |-> Null, took |-> took]]

\* _generate_token
generate_token(u, how, took) ==
  \E t \in Tokens :
    /\ tokens[t] = NoToken
    /\ tokens' = [tokens EXCEPT ![t] =
                    [user |-> u, by |-> how, exp |-> now + EXPIRY, took |-> took]]

\* The end of verify_registration: a token, whether or not the user is flagged.
IssueToken(c) ==
  /\ pc[c] = "issue" /\ End(c) /\ generate_token(job[c].user, "otp", 0)
  /\ \/ Answered /\ pending' = pending \ {job[c].user}
     \/ Mishap /\ UNCHANGED pending
  /\ UNCHANGED <<users, attempts, locked, rejected, blacklist, reused, now>>

\* Mutant: suspended users may log in.
login_flagged(c, u) ==
  /\ \E e \in Emails : get_user_by_email(e, u)
  /\ Begin(c, "password", [NoJob EXCEPT !.user = u, !.since = now])
  /\ UNCHANGED <<users, otp, session, now, mishaps>>

\* POST /auth/login: the row is fetched once, and says whether the user is flagged.
login(c, u) ==
  /\ \E e \in Emails : get_user_by_email(e, u)
  /\ flaggedAt[u] = -1 /\ Begin(c, "password", [NoJob EXCEPT !.user = u, !.since = now])
  /\ UNCHANGED <<users, otp, session, now, mishaps>>

\* The rest of it, on what was fetched: bcrypt takes its time, and the token
\* is made out after it.
CheckPassword(c) ==
  /\ pc[c] = "password" /\ End(c)
  /\ generate_token(job[c].user, "login", now - job[c].since) \/ UNCHANGED tokens
  /\ UNCHANGED <<users, otp, blacklist, reused, now, mishaps>>

\* TokenBlacklist has no Redis client.
NoBlacklist == Mishap

Valid(t) == tokens[t] # NoToken /\ now < tokens[t].exp

\* is_blacklisted: the key is there.
is_blacklisted(t) == now < blacklist[t]

\* require_auth of the auth orchestrator lets a request through; nothing is
\* changed but the history.  With Redis unreachable it lets everything through.
require_auth(t) ==
  /\ Valid(t)
  /\ \/ ~ is_blacklisted(t) /\ Answered
        /\ reused' = IF blacklist[t] # 0 THEN reused \cup {t} ELSE reused
     \/ NoBlacklist /\ UNCHANGED reused

me(t) == require_auth(t) /\ UNCHANGED <<users, otp, tokens, blacklist, now, pc, job>>

\* POST /auth/logout, and /auth/logout-all, which revokes this token only.
logout(c, t) ==
  /\ require_auth(t) /\ Begin(c, "revoke", [NoJob EXCEPT !.token = t])
  /\ UNCHANGED <<users, otp, tokens, blacklist, now>>

\* Mutant: the key lives for the buffer only.
blacklist_token_briefly(t) == blacklist' = [blacklist EXCEPT ![t] = now + BUFFER]

\* blacklist_token: the key is to outlive the token.
blacklist_token(t) ==
  LET ttl == tokens[t].exp - now + BUFFER
  IN blacklist' = [blacklist EXCEPT ![t] = now + (IF ttl <= 0 THEN BUFFER ELSE ttl)]

RevokeToken(c) ==
  /\ pc[c] = "revoke" /\ End(c)
  /\ \/ Answered /\ blacklist_token(job[c].token)
     \/ NoBlacklist /\ UNCHANGED blacklist
  /\ UNCHANGED <<users, otp, tokens, reused, now>>

Tick ==
  /\ now < MaxTime /\ now' = now + 1
  /\ UNCHANGED <<users, otp, session, mishaps, pc, job>>

-------------------------------------------------------------------------------
Register(c) == InsertUser(c) \/ InitCredits(c) \/ SendOtp(c) \/ ChangeEmail(c)
Verify(c) == CheckRateLimit(c) \/ JudgeCode(c) \/ IncrementAttempt(c) \/ ResetAttempts(c)
               \/ IssueToken(c)
Session(c) == CheckPassword(c) \/ RevokeToken(c)

Next ==
  \/ \E c \in Calls : Register(c) \/ Verify(c) \/ Session(c)
  \/ \E c \in Calls, e \in Emails : register(c, e) \/ \E u \in Users : update_user(c, u, e)
  \/ \E c \in Calls, u \in Users : login(c, u) \/ verify_registration(c, u)
  \/ \E c \in Calls, t \in Tokens : logout(c, t)
  \/ \E t \in Tokens : me(t)
  \/ \E u \in Users : admin_flag_user(u) \/ admin_unflag_user(u)
                        \/ PendingExpires(u) \/ AttemptsExpire(u) \/ LockoutExpires(u)
  \/ Tick

Spec == Init /\ [][Next]_vars

-------------------------------------------------------------------------------
\* Two requests that both found an address free do not both get it.
EmailUnique ==
  \A u, v \in Users : u # v /\ Exists(u) => email[u] # email[v]

\* Codes that the SMU API rejects with 400, per counting window: the limit, one
\* more for each other request that was let through before the limit was reached,
\* and one for each time Redis was out of reach.  Wrong codes that it answers with
\* 200 and "not verified" are never counted: no bound holds for them.
RejectedBounded ==
  \A u \in Users : rejected[u] <= ATTEMPTS + Cardinality(Calls) - 1 + mishaps

\* A token that was revoked is not let through again by the auth orchestrator as
\* long as Redis answers: the key outlives the token.  (The other orchestrators
\* do not consult the blacklist at all.)
RevokedIsRefused == reused = {}

\* A token's lifetime after a user was flagged, no login of theirs is left; a login
\* that was under way when the flag was set may add the time it took.  Only
\* verify_registration hands tokens to flagged users for longer.
SuspensionTakesEffect ==
  \A u \in Users, t \in Tokens :
    flaggedAt[u] # -1 /\ Valid(t) /\ tokens[t].user = u /\ tokens[t].by = "login"
      => now < flaggedAt[u] + EXPIRY + tokens[t].took
===============================================================================
