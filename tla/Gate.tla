--------------------------------- MODULE Gate ---------------------------------
(***************************************************************************)
(* The gate: orchestrators/ticket-verification-orchestrator checks one     *)
(* ticket in, by its QR code or by hand, while the attendee's app renews   *)
(* the QR code (orchestrators/qr-orchestrator) and the owner may put the   *)
(* ticket on the market.  Locks, logs and rows of two tickets have nothing *)
(* in common, so one ticket is all there is.                               *)
(*                                                                         *)
(* A step is one call to Redis or to another service.  Any of them may     *)
(* fail; a failed write may have been applied.  Staff requests run on       *)
(* processes that may be killed, in which case no "finally" runs.          *)
(***************************************************************************)
EXTENDS Integers

CONSTANTS Staff,    \* request threads of the verification orchestrator
          QrIds,    \* hashes _generate_qr can return
          Null

ASSUME StaffAssumption == Null \notin Staff \cup QrIds

Many == 2           \* bound: admissions are counted up to here

VARIABLES status,      \* ticket-service: the ticket's status
          qr,          \* ticket-service: the hash on the ticket's row
          log,         \* ticket-log-service: a checked_in entry exists
          lock,        \* Redis, scan_lock: whose token it holds, and whether it expires
          generated,   \* hashes made so far
          unsaved,     \* hashes made by a get_qr that has not written them yet
          aged,        \* hashes older than QR_TTL_SECONDS
          market,      \* how far the marketplace is with the ticket
          pc,          \* pc[s]: the step request s is at
          guard,       \* guard[s]: "lock", "no-lock" (Redis was down) or "manual"
          seen,        \* seen[s]: status and hash as request s read them
          \* History.
          admitted,    \* SUCCESS answers, counted up to Many
          lapsed,      \* requests whose lock expired under them
          exposed,     \* the log could not be relied on to stop a second admission
          stranded     \* a request was killed between PATCH "used" and its answer

vars == <<status, qr, log, lock, generated, unsaved, aged, market, pc, guard, seen,
          admitted, lapsed, exposed, stranded>>
attendee == <<qr, generated, unsaved, aged>>
history == <<admitted, lapsed, exposed, stranded>>

-------------------------------------------------------------------------------
Status == {"active", "listed", "used", "pending_transfer"}
Locked == {"check", "logs", "use", "record", "release"}   \* between acquire and release
Window == {"use", "record"}          \* past the duplicate check, not logged yet

\* Tables, requests and history hold what their columns and fields allow.
TypeOK ==
  /\ status \in Status /\ log \in BOOLEAN
  /\ qr \in QrIds \cup {Null} /\ generated \subseteq QrIds
  /\ unsaved \subseteq generated /\ aged \subseteq generated
  /\ lock \in [token : Staff \cup {Null}, ex : BOOLEAN]
  /\ market \in {"none", "listing", "listed"}
  /\ pc \in [Staff -> Locked \cup {"idle", "lock"}]
  /\ guard \in [Staff -> {"none", "lock", "no-lock", "manual"}]
  /\ seen \in [Staff -> [status : Status, qr : QrIds \cup {Null}]]
  /\ admitted \in 0..Many /\ lapsed \subseteq Staff
  /\ exposed \in BOOLEAN /\ stranded \in BOOLEAN

Unlocked == [token |-> Null, ex |-> FALSE]
NotSeen == [status |-> "active", qr |-> Null]

\* A ticket as buy_ticket leaves it, and nobody at the gate.
Init ==
  /\ status = "active" /\ qr = Null /\ log = FALSE /\ lock = Unlocked
  /\ generated = {} /\ unsaved = {} /\ aged = {} /\ market = "none"
  /\ pc = [s \in Staff |-> "idle"] /\ guard = [s \in Staff |-> "none"]
  /\ seen = [s \in Staff |-> NotSeen]
  /\ admitted = 0 /\ lapsed = {} /\ exposed = FALSE /\ stranded = FALSE

-------------------------------------------------------------------------------
(* The attendee's app and the marketplace. *)

\* _generate_qr: the hash of the ticket and the time is new each time.
generate_qr(h) == h \notin generated /\ generated' = generated \cup {h}

\* GET /tickets/{id}/qr: the ticket is read and must be active; a hash is made.
get_qr(h) ==
  /\ status = "active" /\ generate_qr(h) /\ unsaved' = unsaved \cup {h}
  /\ UNCHANGED <<status, qr, log, lock, aged, market, pc, guard, seen, history>>

\* The PATCH that puts it on the row; the hash it replaces no longer finds the ticket.
SaveQr(h) ==
  /\ h \in unsaved /\ unsaved' = unsaved \ {h}
  /\ qr' \in {h, qr}
  /\ UNCHANGED <<status, log, lock, generated, aged, market, pc, guard, seen, history>>

QrExpires(h) ==
  /\ h \in generated \ aged /\ aged' = aged \cup {h}
  /\ UNCHANGED <<status, qr, log, lock, generated, unsaved, market, pc, guard, seen, history>>

\* list_ticket of the marketplace reads the status and writes it one call later;
\* delist, and the end of a transfer, write "active" whatever they find.
list_ticket ==
  /\ market = "none" /\ status = "active" /\ market' = "listing"
  /\ UNCHANGED <<status, attendee, log, lock, pc, guard, seen, history>>

MarkListed ==
  /\ market = "listing" /\ market' = "listed" /\ status' = "listed"
  /\ UNCHANGED <<attendee, log, lock, pc, guard, seen, history>>

delist ==
  /\ market = "listed" /\ market' = "none" /\ status' = "active"
  /\ UNCHANGED <<attendee, log, lock, pc, guard, seen, history>>

-------------------------------------------------------------------------------
(* The scan lock in Redis. *)

\* Mutant: SET NX without EX.
LockSetForever(s) == lock' = [token |-> s, ex |-> FALSE]

\* SET scan_lock token NX EX LOCK_TTL_SECONDS, on a key that is not there.
LockSet(s) == lock' = [token |-> s, ex |-> TRUE]

Goto(s, step) == pc' = [pc EXCEPT ![s] = step]
Forget(s) == [seen EXCEPT ![s] = NotSeen]    \* what was read is not used any more

\* _acquire_scan_lock: the lock, "no-lock" when Redis cannot be reached, or None
\* after MAX_LOCK_RETRIES tries that found it taken or failed, a 409 to staff; a
\* try that failed may have set the key, which the next tries then find taken.
acquire_scan_lock(s) ==
  \/ /\ lock.token = Null /\ LockSet(s) /\ Goto(s, "check")
     /\ guard' = [guard EXCEPT ![s] = "lock"]
  \/ /\ Goto(s, "check") /\ guard' = [guard EXCEPT ![s] = "no-lock"] /\ UNCHANGED lock
  \/ /\ Goto(s, "idle") /\ UNCHANGED guard
     /\ UNCHANGED lock \/ (lock.token = Null /\ LockSet(s))

AcquireLock(s) ==
  /\ pc[s] = "lock" /\ acquire_scan_lock(s)
  /\ seen' = IF pc'[s] = "idle" THEN Forget(s) ELSE seen
  /\ UNCHANGED <<status, attendee, log, market, history>>

\* Mutant: DEL scan_lock whoever holds it.
release_scan_lock_any(s) == IF guard[s] = "lock" THEN lock' \in {Unlocked, lock} ELSE UNCHANGED lock

\* _release_scan_lock: the key goes if it still holds this request's token;
\* with Redis unreachable it stays.
release_scan_lock(s) ==
  IF guard[s] = "lock" /\ lock.token = s THEN lock' \in {Unlocked, lock} ELSE UNCHANGED lock

\* The "finally" of scan; manual_verify has no lock and ends here too.
ReleaseLock(s) ==
  /\ pc[s] = "release" /\ release_scan_lock(s) /\ Goto(s, "idle")
  /\ guard' = [guard EXCEPT ![s] = "none"] /\ lapsed' = lapsed \ {s}
  /\ UNCHANGED <<status, attendee, log, market, seen, admitted, exposed, stranded>>

\* LOCK_TTL_SECONDS are over, the scan that set the key running or not.
LockExpires ==
  /\ lock.token # Null /\ lock.ex /\ lock' = Unlocked
  /\ lapsed' = IF pc[lock.token] \in Locked /\ guard[lock.token] = "lock"
                 THEN lapsed \cup {lock.token} ELSE lapsed
  /\ UNCHANGED <<status, attendee, log, market, pc, guard, seen, admitted, exposed, stranded>>

-------------------------------------------------------------------------------
(* POST /verify/scan and POST /verify/manual. *)

\* GET /tickets/qr/{hash} of the ticket service: only the last hash finds the ticket.
get_ticket_by_qr_hash(h) == h = qr

\* The ticket is looked up by the hash before the lock is asked for.
scan(s, h) ==
  /\ pc[s] = "idle" /\ get_ticket_by_qr_hash(h) /\ Goto(s, "lock")
  /\ seen' = [seen EXCEPT ![s] = [status |-> status, qr |-> h]]
  /\ UNCHANGED <<status, attendee, log, lock, market, guard, history>>

manual_verify(s) ==
  /\ pc[s] = "idle" /\ Goto(s, "check")
  /\ guard' = [guard EXCEPT ![s] = "manual"]
  /\ seen' = [seen EXCEPT ![s] = [status |-> status, qr |-> Null]]
  /\ UNCHANGED <<status, attendee, log, lock, market, history>>

\* Mutant: the ticket is marked used before the checks are through.
CheckTicketMarks(s) ==
  /\ pc[s] = "check" /\ Goto(s, "logs") /\ status' = "used"
  /\ seen[s].qr \notin aged /\ seen[s].status = "active"
  /\ seen' = Forget(s)
  /\ UNCHANGED <<attendee, log, lock, market, guard, history>>

\* manual_verify: event, seat and status, as read first.
ManualChecks(s) == guard[s] = "manual" /\ seen[s].status = "active"

\* scan: age of the QR code, event, seat and status, as read before the lock.
ScanChecks(s) == guard[s] # "manual" /\ seen[s].qr \notin aged /\ seen[s].status = "active"

\* Refusing also stands for an event or seat that is not as it should be or that
\* cannot be read, and for a QR code from the future.
CheckTicket(s) ==
  /\ pc[s] = "check"
  /\ \/ (ScanChecks(s) \/ ManualChecks(s)) /\ Goto(s, "logs")
     \/ Goto(s, "release")
  /\ seen' = Forget(s)
  /\ UNCHANGED <<status, attendee, log, lock, market, guard, history>>

\* GET /ticket-logs/ticket/{id} has a checked_in entry.
already_in == log

\* POST /ticket-logs of a checked_in entry; the other entries decide nothing.
create_ticket_log == log' = TRUE

\* A request that no live lock protects, and two in the window one of which is such.
Bare(s) == guard[s] # "lock" \/ s \in lapsed
Overlap(s) == \E r \in Staff \ {s} : pc[r] \in Window /\ (Bare(s) \/ Bare(r))

\* Mutant: the log is not consulted, the status being "active".
ReadLogsNot(s) ==
  /\ pc[s] = "logs" /\ guard[s] # "manual" /\ Goto(s, "use")
  /\ exposed' = (exposed \/ Overlap(s))
  /\ UNCHANGED <<status, attendee, log, lock, market, guard, seen, admitted, lapsed, stranded>>

\* A checked_in entry is a duplicate; logs that cannot be read count as none.
\* Refusing also stands for the wrong venue or event.
DuplicateCheck(s) ==
  /\ pc[s] = "logs"
  /\ \/ Goto(s, "release") /\ UNCHANGED exposed
     \/ \E unread \in BOOLEAN :
          /\ unread \/ ~ already_in
          /\ Goto(s, "use")
          /\ exposed' = (exposed \/ unread \/ Overlap(s))
  /\ UNCHANGED <<status, attendee, log, lock, market, guard, seen, admitted, lapsed, stranded>>

\* The check of scan, and that of manual_verify.
ReadLogs(s) == guard[s] # "manual" /\ DuplicateCheck(s)
ReadLogsManually(s) == guard[s] = "manual" /\ DuplicateCheck(s)

\* Mutant: the status of the log entry is written to the ticket.
MarkUsedCheckedIn(s) ==
  /\ pc[s] = "use" /\ Goto(s, "record")
  /\ status' \in {"checked_in", status}
  /\ UNCHANGED <<attendee, log, lock, market, guard, seen, history>>

\* PATCH status "used"; the result is not looked at.
MarkUsed(s) ==
  /\ pc[s] = "use" /\ Goto(s, "record")
  /\ status' \in {"used", status}
  /\ UNCHANGED <<attendee, log, lock, market, guard, seen, history>>

\* POST of the checked_in entry, its result not looked at, and SUCCESS.
LetIn(s) ==
  /\ pc[s] = "record" /\ Goto(s, "release")
  /\ create_ticket_log \/ UNCHANGED log
  /\ exposed' = (exposed \/ ~ log')
  /\ admitted' = IF admitted = Many THEN Many ELSE admitted + 1
  /\ UNCHANGED <<status, attendee, lock, market, guard, seen, lapsed, stranded>>

\* The end of scan, and that of manual_verify.
RecordEntry(s) == guard[s] # "manual" /\ LetIn(s)
RecordManually(s) == guard[s] = "manual" /\ LetIn(s)

\* The process is killed.
Kill(s) ==
  /\ pc[s] # "idle" /\ Goto(s, "idle")
  /\ guard' = [guard EXCEPT ![s] = "none"] /\ lapsed' = lapsed \ {s}
  /\ stranded' = (stranded \/ pc[s] = "record") /\ seen' = Forget(s)
  /\ UNCHANGED <<status, attendee, log, lock, market, admitted, exposed>>

-------------------------------------------------------------------------------
Step(s) ==
  \/ AcquireLock(s) \/ CheckTicket(s) \/ ReadLogs(s) \/ ReadLogsManually(s) \/ MarkUsed(s)
  \/ RecordEntry(s) \/ RecordManually(s) \/ ReleaseLock(s)

Next ==
  \/ \E h \in QrIds : get_qr(h) \/ SaveQr(h) \/ QrExpires(h)
  \/ list_ticket \/ MarkListed \/ delist \/ LockExpires
  \/ \E s \in Staff : manual_verify(s) \/ Step(s) \/ Kill(s) \/ \E h \in QrIds : scan(s, h)

\* Redis expires keys by itself; a request that is not killed goes on.
Spec == Init /\ [][Next]_vars /\ WF_vars(LockExpires)

-------------------------------------------------------------------------------
\* A ticket is let in once.  It takes a checked_in entry that was lost or could
\* not be read, or two requests past the duplicate check of which one had no
\* lock (Redis down, manual_verify) or outlived it, to let it in again: a status
\* that was read before the lock, or that the marketplace set back, does not.
AdmittedOnce == admitted > 1 => exposed

\* The lock does its work: two scans that both acquired it are inside only if
\* the lock of one expired under it.  In particular a scan that outlived its
\* lock does not release the next one's.
LockExcludes ==
  \A s, r \in Staff :
    s # r /\ pc[s] \in Locked /\ pc[r] \in Locked
      /\ guard[s] = "lock" /\ guard[r] = "lock" => s \in lapsed \/ r \in lapsed

\* A ticket that says "used" let somebody in, or is about to, unless the process
\* was killed between marking it and answering: checks that refuse a ticket do
\* not spend it.
UsedMeansAdmitted ==
  status = "used" => admitted > 0 \/ stranded \/ \E s \in Staff : pc[s] = "record"

\* A lock does not outlive its holder for ever, whether Redis was unreachable
\* when it should have been released or the process was killed.
LockIsFreed == \A s \in Staff : lock.token = s ~> lock.token # s
===============================================================================
