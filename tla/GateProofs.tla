------------------------------ MODULE GateProofs ------------------------------
(***************************************************************************)
(* Proofs of the safety properties of Gate for any number of requests at   *)
(* the gate and of QR codes.                                               *)
(***************************************************************************)
EXTENDS Gate, TLAPS

-------------------------------------------------------------------------------
(* The inductive invariants. *)

\* Who acquired the scan lock and was not outlived by it holds it now.  This is
\* what the token in the key is for: releasing compares it, so that no request
\* takes the lock of another away.
HolderInv ==
  \A s \in Staff :
    pc[s] \in Locked /\ guard[s] = "lock" /\ s \notin lapsed => lock.token = s

\* As long as nothing defeated the log: an admission is on record, nobody is past
\* the duplicate check once there is a record, and never two requests at a time.
EntryInv ==
  ~ exposed =>
    /\ admitted <= 1
    /\ admitted > 0 => log
    /\ log => \A s \in Staff : pc[s] \notin Window
    /\ \A s, r \in Staff : pc[s] \in Window /\ pc[r] \in Window => s = r

-------------------------------------------------------------------------------
(* Types. *)

\* The attendee's app, the marketplace and time keep the types.
LEMMA TypeSurroundings ==
  ASSUME TypeOK,
         \/ \E h \in QrIds : get_qr(h) \/ SaveQr(h) \/ QrExpires(h)
         \/ list_ticket \/ MarkListed \/ delist \/ LockExpires
  PROVE  TypeOK'
<1> USE DEF TypeOK, attendee, history
<1>1. ASSUME NEW h \in QrIds, get_qr(h) PROVE TypeOK'
  BY <1>1 DEF get_qr, generate_qr
<1>2. ASSUME NEW h \in QrIds, SaveQr(h) PROVE TypeOK'
  BY <1>2 DEF SaveQr
<1>3. ASSUME NEW h \in QrIds, QrExpires(h) PROVE TypeOK'
  BY <1>3 DEF QrExpires
<1>4. CASE list_ticket
  BY <1>4 DEF list_ticket
<1>5. CASE MarkListed
  BY <1>5 DEF MarkListed, Status
<1>6. CASE delist
  BY <1>6 DEF delist, Status
<1>7. CASE LockExpires
  BY <1>7 DEF LockExpires, Unlocked
<1>8. QED
  BY <1>1, <1>2, <1>3, <1>4, <1>5, <1>6, <1>7

\* What a request forgets is of the type of what it has seen.
LEMMA ForgetType ==
  ASSUME TypeOK, NEW s \in Staff
  PROVE  Forget(s) \in [Staff -> [status : Status, qr : QrIds \cup {Null}]]
  BY DEF TypeOK, Forget, NotSeen, Status

\* A key that is set, or gone, is of the type of the lock.
LEMMA LockType ==
  /\ Unlocked \in [token : Staff \cup {Null}, ex : BOOLEAN]
  /\ \A s \in Staff : [token |-> s, ex |-> TRUE] \in [token : Staff \cup {Null}, ex : BOOLEAN]
  BY DEF Unlocked

\* A request keeps the types.
LEMMA TypeRequest ==
  ASSUME TypeOK, NEW s \in Staff,
         manual_verify(s) \/ Step(s) \/ Kill(s) \/ \E h \in QrIds : scan(s, h)
  PROVE  TypeOK'
<1> USE DEF TypeOK, attendee, history, Goto, Locked
<1>1. ASSUME NEW h \in QrIds, scan(s, h) PROVE TypeOK'
  BY <1>1 DEF scan
<1>2. CASE manual_verify(s)
  BY <1>2 DEF manual_verify
<1>3. CASE AcquireLock(s)
  <2>1. lock' \in [token : Staff \cup {Null}, ex : BOOLEAN]
    BY <1>3, LockType DEF AcquireLock, acquire_scan_lock, LockSet
  <2>2. QED
    BY <1>3, <2>1, ForgetType DEF AcquireLock, acquire_scan_lock
<1>4. CASE CheckTicket(s)
  BY <1>4, ForgetType DEF CheckTicket
<1>5. CASE DuplicateCheck(s)
  BY <1>5 DEF DuplicateCheck, Overlap, Bare
<1>6. CASE MarkUsed(s)
  BY <1>6 DEF MarkUsed, Status
<1>7. CASE LetIn(s)
  <2>1. log' \in BOOLEAN /\ exposed' \in BOOLEAN
    BY <1>7, Zenon DEF LetIn, create_ticket_log
  <2>2. admitted' \in 0..Many
    BY <1>7 DEF LetIn, Many
  <2>3. QED
    BY <1>7, <2>1, <2>2 DEF LetIn
<1>8. CASE ReleaseLock(s)
  <2>1. lock' \in [token : Staff \cup {Null}, ex : BOOLEAN]
    BY <1>8, LockType DEF ReleaseLock, release_scan_lock
  <2>2. QED
    BY <1>8, <2>1 DEF ReleaseLock
<1>9. CASE Kill(s)
  BY <1>9, ForgetType DEF Kill
<1>10. QED
  BY <1>1, <1>2, <1>3, <1>4, <1>5, <1>6, <1>7, <1>8, <1>9
     DEF Step, ReadLogs, ReadLogsManually, RecordEntry, RecordManually

\* At every moment the ticket's row, its log, the lock and the requests at the gate
\* hold what their columns and fields allow.
THEOREM TypeCorrect == Spec => []TypeOK
<1>1. Init => TypeOK
  <2> SUFFICES ASSUME Init PROVE TypeOK
    OBVIOUS
  <2>1. log \in BOOLEAN /\ exposed \in BOOLEAN /\ stranded \in BOOLEAN
    BY Zenon DEF Init
  <2>2. lock \in [token : Staff \cup {Null}, ex : BOOLEAN]
    BY LockType DEF Init
  <2>3. seen \in [Staff -> [status : Status, qr : QrIds \cup {Null}]]
    BY DEF Init, NotSeen, Status
  <2>4. QED
    BY <2>1, <2>2, <2>3 DEF Init, TypeOK, Status, Locked, Many
<1>2. TypeOK /\ [Next]_vars => TypeOK'
  <2> SUFFICES ASSUME TypeOK, [Next]_vars PROVE TypeOK'
    OBVIOUS
  <2>1. CASE UNCHANGED vars
    BY <2>1 DEF TypeOK, vars
  <2>2. CASE Next
    BY <2>2, TypeSurroundings, TypeRequest DEF Next
  <2>3. QED
    BY <2>1, <2>2
<1>3. QED
  BY <1>1, <1>2, PTL DEF Spec

-------------------------------------------------------------------------------
(* Everything but requests and the lock's expiry leaves requests and lock alone. *)

\* The attendee's app and the marketplace touch the ticket's row only, and never
\* set it to "used".
LEMMA Surroundings ==
  ASSUME \/ \E h \in QrIds : get_qr(h) \/ SaveQr(h) \/ QrExpires(h)
         \/ list_ticket \/ MarkListed \/ delist
  PROVE  /\ UNCHANGED <<lock, log, pc, guard, admitted, lapsed, exposed, stranded>>
         /\ status' \in {status, "listed", "active"}
  BY Zenon DEF get_qr, SaveQr, QrExpires, list_ticket, MarkListed, delist, attendee, history

\* The steps of a request, manual and by scan alike.
LEMMA StepCases ==
  ASSUME NEW s \in Staff, Step(s)
  PROVE  \/ AcquireLock(s) \/ CheckTicket(s) \/ DuplicateCheck(s) \/ MarkUsed(s)
         \/ LetIn(s) \/ ReleaseLock(s)
  BY DEF Step, ReadLogs, ReadLogsManually, RecordEntry, RecordManually

-------------------------------------------------------------------------------
(* The scan lock. *)

\* No step takes the lock from a request that acquired it, but time.
LEMMA HolderStep ==
  ASSUME TypeOK, HolderInv, [Next]_vars
  PROVE  HolderInv'
<1> USE DEF TypeOK, HolderInv, attendee, history
<1>1. CASE UNCHANGED vars
  BY <1>1 DEF vars
<1>2. CASE \/ \E h \in QrIds : get_qr(h) \/ SaveQr(h) \/ QrExpires(h)
           \/ list_ticket \/ MarkListed \/ delist
  BY <1>2, Surroundings
<1>3. CASE LockExpires
  BY <1>3, StaffAssumption DEF LockExpires, Unlocked
<1>4. ASSUME NEW s \in Staff, manual_verify(s) \/ Kill(s) \/ \E h \in QrIds : scan(s, h)
      PROVE  HolderInv'
  BY <1>4 DEF manual_verify, Kill, scan, Goto, Locked
<1>5. ASSUME NEW s \in Staff, AcquireLock(s) PROVE HolderInv'
  BY <1>5, StaffAssumption DEF AcquireLock, acquire_scan_lock, LockSet, Goto, Locked
<1>6. ASSUME NEW s \in Staff, ReleaseLock(s) PROVE HolderInv'
  BY <1>6 DEF ReleaseLock, release_scan_lock, Goto, Locked
<1>7. ASSUME NEW s \in Staff, CheckTicket(s) \/ DuplicateCheck(s) \/ MarkUsed(s) \/ LetIn(s)
      PROVE  HolderInv'
  BY <1>7 DEF CheckTicket, DuplicateCheck, MarkUsed, LetIn, Goto, Locked
<1>8. QED
  BY <1>1, <1>2, <1>3, <1>4, <1>5, <1>6, <1>7, StepCases DEF Next

\* Whoever acquired the lock and was not outlived by it holds it, at every moment.
THEOREM Holder == Spec => []HolderInv
<1>1. Init => HolderInv
  BY DEF Init, HolderInv, Locked
<1>2. TypeOK /\ HolderInv /\ [Next]_vars => HolderInv'
  BY HolderStep
<1>3. QED
  BY <1>1, <1>2, TypeCorrect, PTL DEF Spec

\* Two scans that both acquired the lock are inside only if the lock of one of them
\* expired under it, for any number of requests, kills and Redis failures.
THEOREM LockSafe == Spec => []LockExcludes
<1>1. HolderInv => LockExcludes
  BY DEF HolderInv, LockExcludes
<1>2. QED
  BY <1>1, Holder, PTL

-------------------------------------------------------------------------------
(* Admission. *)

\* A request that passes the duplicate check without exposing the log found no
\* entry in it and is alone in the window: any other there would hold the lock, too.
LEMMA PassesCheck ==
  ASSUME TypeOK, HolderInv, NEW s \in Staff, DuplicateCheck(s), ~ exposed', pc'[s] = "use"
  PROVE  /\ ~ exposed /\ ~ log
         /\ \A r \in Staff \ {s} : pc[r] \notin Window
<1>1. pc[s] = "logs" /\ ~ Goto(s, "release")
  BY DEF DuplicateCheck, Goto, TypeOK
<1>2. ~ exposed /\ ~ log /\ ~ Overlap(s)
  BY <1>1, Zenon DEF DuplicateCheck, already_in
<1>3. ASSUME NEW r \in Staff \ {s}, pc[r] \in Window PROVE FALSE
  <2>1. ~ Bare(s) /\ ~ Bare(r)
    BY <1>2, <1>3 DEF Overlap
  <2>2. lock.token = s /\ lock.token = r
    BY <1>1, <1>3, <2>1 DEF HolderInv, Bare, Locked, Window
  <2>3. QED
    BY <2>2
<1>4. QED
  BY <1>2, <1>3

\* EntryInv is kept by everything that leaves log and admissions alone and moves
\* at most one request, not into the window.
LEMMA OutsideWindow ==
  ASSUME TypeOK, EntryInv, UNCHANGED <<log, admitted, exposed>>,
         \A r \in Staff : pc'[r] \in Window => pc[r] \in Window
  PROVE  EntryInv'
  BY DEF EntryInv

\* Every step keeps EntryInv.
LEMMA EntryStep ==
  ASSUME TypeOK, HolderInv, EntryInv, [Next]_vars
  PROVE  EntryInv'
<1> USE DEF attendee, history
<1>1. CASE UNCHANGED vars
  BY <1>1, OutsideWindow DEF vars
<1>2. CASE \/ \E h \in QrIds : get_qr(h) \/ SaveQr(h) \/ QrExpires(h)
           \/ list_ticket \/ MarkListed \/ delist
  BY <1>2, Surroundings, OutsideWindow
<1>3. CASE LockExpires
  BY <1>3, OutsideWindow DEF LockExpires
<1>4. ASSUME NEW s \in Staff,
             \/ manual_verify(s) \/ Kill(s) \/ AcquireLock(s) \/ CheckTicket(s)
             \/ MarkUsed(s) \/ ReleaseLock(s) \/ \E h \in QrIds : scan(s, h)
      PROVE  EntryInv'
  <2>1. UNCHANGED <<log, admitted, exposed>>
    BY <1>4, Zenon DEF manual_verify, Kill, AcquireLock, CheckTicket, MarkUsed, ReleaseLock, scan
  <2>2. \A r \in Staff : pc'[r] \in Window => pc[r] \in Window
    BY <1>4 DEF TypeOK, manual_verify, Kill, AcquireLock, acquire_scan_lock, CheckTicket,
                MarkUsed, ReleaseLock, scan, Goto, Window
  <2>3. QED
    BY <2>1, <2>2, OutsideWindow
<1>5. ASSUME NEW s \in Staff, DuplicateCheck(s) PROVE EntryInv'
  <2> SUFFICES ASSUME ~ exposed' PROVE EntryInv'
    BY DEF EntryInv
  <2>1. UNCHANGED <<log, admitted>> /\ ~ exposed
    <3>1. \/ UNCHANGED exposed
          \/ \E unread \in BOOLEAN : exposed' = (exposed \/ unread \/ Overlap(s))
      BY <1>5, Zenon DEF DuplicateCheck
    <3>2. ~ exposed
      BY <3>1
    <3>3. QED
      BY <1>5, <3>2 DEF DuplicateCheck
  <2>2. CASE pc'[s] = "use"
    <3>1. ~ log /\ \A r \in Staff \ {s} : pc[r] \notin Window
      BY <1>5, <2>2, PassesCheck
    <3>2. \A r \in Staff \ {s} : pc'[r] = pc[r]
      BY <1>5 DEF DuplicateCheck, Goto, TypeOK
    <3>3. QED
      BY <2>1, <3>1, <3>2 DEF EntryInv
  <2>3. CASE pc'[s] # "use"
    <3>1. \A r \in Staff : pc'[r] \in Window => pc[r] \in Window
      BY <1>5, <2>3 DEF DuplicateCheck, Goto, TypeOK, Window
    <3>2. QED
      BY <2>1, <3>1 DEF EntryInv
  <2>4. QED
    BY <2>2, <2>3
<1>6. ASSUME NEW s \in Staff, LetIn(s) PROVE EntryInv'
  <2> SUFFICES ASSUME ~ exposed' PROVE EntryInv'
    BY DEF EntryInv
  <2>1. ~ exposed /\ log' = TRUE
    BY <1>6, Zenon DEF LetIn, create_ticket_log, TypeOK
  <2>2. pc[s] \in Window
    BY <1>6 DEF LetIn, Window
  <2>3. admitted = 0
    BY <2>1, <2>2 DEF EntryInv, TypeOK, Many
  <2>4. admitted' = 1
    BY <1>6, <2>3 DEF LetIn, Many
  <2>5. \A r \in Staff : pc'[r] \notin Window
    BY <1>6, <2>1, <2>2 DEF EntryInv, LetIn, Goto, TypeOK, Window
  <2>6. QED
    BY <2>1, <2>4, <2>5 DEF EntryInv
<1>7. QED
  BY <1>1, <1>2, <1>3, <1>4, <1>5, <1>6, StepCases DEF Next

\* A ticket is let in once, unless a checked_in entry was lost or could not be read,
\* or two requests were past the duplicate check of which one had no live lock: for
\* any number of requests, whatever the marketplace and the attendee's app do.
THEOREM EntrySafe == Spec => []AdmittedOnce
<1>1. Init => EntryInv
  BY DEF Init, EntryInv, Window
<1>2. TypeOK /\ HolderInv /\ EntryInv /\ [Next]_vars => EntryInv'
  BY EntryStep
<1>3. TypeOK /\ EntryInv => AdmittedOnce
  BY DEF TypeOK, EntryInv, AdmittedOnce, Many
<1>4. QED
  BY <1>1, <1>2, <1>3, TypeCorrect, Holder, PTL DEF Spec

-------------------------------------------------------------------------------
(* The ticket's status. *)

\* No step spends the ticket without letting somebody in, but a kill.
LEMMA UsedStep ==
  ASSUME TypeOK, UsedMeansAdmitted, [Next]_vars
  PROVE  UsedMeansAdmitted'
<1> USE DEF TypeOK, UsedMeansAdmitted, attendee, history
<1>1. CASE UNCHANGED vars
  BY <1>1 DEF vars
<1>2. CASE \/ \E h \in QrIds : get_qr(h) \/ SaveQr(h) \/ QrExpires(h)
           \/ list_ticket \/ MarkListed \/ delist
  BY <1>2, Surroundings
<1>3. CASE LockExpires
  BY <1>3 DEF LockExpires
<1>4. ASSUME NEW s \in Staff,
             \/ manual_verify(s) \/ AcquireLock(s) \/ CheckTicket(s) \/ DuplicateCheck(s)
             \/ ReleaseLock(s) \/ \E h \in QrIds : scan(s, h)
      PROVE  UsedMeansAdmitted'
  <2>1. /\ UNCHANGED <<status, admitted, stranded>> /\ pc[s] # "record"
    BY <1>4 DEF manual_verify, AcquireLock, CheckTicket, DuplicateCheck, ReleaseLock, scan
  <2>2. \A r \in Staff \ {s} : pc'[r] = pc[r]
    BY <1>4 DEF manual_verify, AcquireLock, acquire_scan_lock, CheckTicket, DuplicateCheck,
                ReleaseLock, scan, Goto
  <2>3. QED
    BY <2>1, <2>2
<1>5. ASSUME NEW s \in Staff, MarkUsed(s) PROVE UsedMeansAdmitted'
  BY <1>5 DEF MarkUsed, Goto, Locked
<1>6. ASSUME NEW s \in Staff, LetIn(s) PROVE UsedMeansAdmitted'
  BY <1>6 DEF LetIn, Many
<1>7. ASSUME NEW s \in Staff, Kill(s) PROVE UsedMeansAdmitted'
  <2>1. CASE pc[s] = "record"
    BY <1>7, <2>1, Zenon DEF Kill
  <2>2. CASE pc[s] # "record"
    <3>1. UNCHANGED <<status, admitted>> /\ (stranded => stranded')
      BY <1>7, Zenon DEF Kill
    <3>2. \A r \in Staff : pc[r] = "record" => pc'[r] = "record"
      BY <1>7, <2>2 DEF Kill, Goto
    <3>3. QED
      BY <3>1, <3>2
  <2>3. QED
    BY <2>1, <2>2
<1>8. QED
  BY <1>1, <1>2, <1>3, <1>4, <1>5, <1>6, <1>7, StepCases DEF Next

\* A ticket marked "used" let somebody in, or is about to, or its request was killed
\* between the mark and the answer: no refused ticket is spent.
THEOREM UsedSafe == Spec => []UsedMeansAdmitted
<1>1. Init => UsedMeansAdmitted
  BY DEF Init, UsedMeansAdmitted
<1>2. TypeOK /\ UsedMeansAdmitted /\ [Next]_vars => UsedMeansAdmitted'
  BY UsedStep
<1>3. QED
  BY <1>1, <1>2, TypeCorrect, PTL DEF Spec
===============================================================================
