--------------------------------- MODULE Scans ---------------------------------
(***************************************************************************)
(* Checking tickets on a train (verificationService): scans that devices   *)
(* record without a network and upload later, in batches that are sent     *)
(* again when no answer comes (sync, and resolve for each scan of it).  A  *)
(* scan made with a network is a batch of one.                             *)
(*                                                                         *)
(* resolve looks the scan up, judges the ticket, marks it under a lock of  *)
(* its own and writes the scan's row last, each in a statement or a        *)
(* transaction of its own, so two uploads of one scan, two checkers with   *)
(* one ticket, a return and a crash may come between any two of them.      *)
(***************************************************************************)
EXTENDS Integers

CONSTANTS
  Tickets,
  Legs,        \* the standing tickets among them, which go back with the seat they join
  MaxScans,    \* bound: scans are 1 .. MaxScans, in the order of a device's backlog
  Devices,
  DeviceOf,    \* the device that made each scan
  Presents,    \* the ticket each scan was shown, or NoTicket
  NoTicket,    \* a forged or unreadable code, or one that names no ticket
  Looks,       \* the scans that only look (mark is false)
  Elsewhere,   \* the scans made on another train than the ticket's
  Requests,    \* uploads the server may be working on at once
  MaxFaults    \* bound: rows that cannot be written, answers lost and crashes

Scans == 1 .. MaxScans

ASSUME ScansAssumption ==
  /\ MaxScans \in Nat /\ MaxFaults \in Nat
  /\ DeviceOf \in [Scans -> Devices] /\ Presents \in [Scans -> Tickets \union {NoTicket}]
  /\ Legs \subseteq Tickets /\ NoTicket \notin Tickets /\ Looks \subseteq Scans /\ Elsewhere \subseteq Scans

TicketStatus == {"valid", "used", "refunded"}
\* forged, unreadable and unknown are one: no_ticket.
Verdicts ==
  {"accepted", "checked", "already_used", "not_valid", "wrong_service", "no_ticket"}
NoRow == "none"

VARIABLES
  status,     \* status[t]: tickets.status; refunded is any status but valid and used
  returning,  \* the legs that returns of their seats have found valid and not yet written
  cancelled,  \* the train has been cancelled
  scan,       \* scan[s]: unread, held by its device, or done: acknowledged
  row,        \* row[s]: the verdict in ticket_scans under s's client_reference
  request,    \* the uploads in progress
  counted,    \* counted[s]: how many reports of a sync counted s as an admission
  faults

vars == <<status, returning, cancelled, scan, row, request, counted, faults>>

\* batch: what was sent; todo: what is left of it; stage: how far its first scan has
\* come; admitted, failed: the results the report will count as such.
Idle == [stage |-> "idle", batch |-> {}, todo |-> {}, verdict |-> NoRow,
         admitted |-> {}, failed |-> {}]
Stages == {"idle", "next", "judging", "marking", "recording"}
Uploads == [stage : Stages, batch : SUBSET Scans, todo : SUBSET Scans,
            verdict : Verdicts \union {NoRow}, admitted : SUBSET Scans, failed : SUBSET Scans]

Init ==
  /\ status = [t \in Tickets |-> "valid"]
  /\ returning = {} /\ cancelled = FALSE
  /\ scan = [s \in Scans |-> "unread"]
  /\ row = [s \in Scans |-> NoRow]
  /\ request = [q \in Requests |-> Idle]
  /\ counted = [s \in Scans |-> 0]
  /\ faults = 0

-----------------------------------------------------------------------------
(* Passengers, the operator and the devices                                *)

\* A return, or the refund of a cancellation: the ticket's row is locked, and valid.
Refund(t) ==
  /\ status[t] = "valid"
  /\ status' = [status EXCEPT ![t] = "refunded"]
  /\ UNCHANGED <<returning, cancelled, scan, row, request, counted, faults>>

\* A return of the seat reads its legs that are valid, without a lock (releaseStandingFor) ...
LegRead(t) ==
  /\ t \in Legs /\ status[t] = "valid"
  /\ returning' = returning \union {t}
  /\ UNCHANGED <<status, cancelled, scan, row, request, counted, faults>>

\* ... and writes each by its id, whatever it has become.
LegRefund(t) ==
  /\ t \in returning /\ returning' = returning \ {t}
  /\ status' = [status EXCEPT ![t] = "refunded"]
  /\ UNCHANGED <<cancelled, scan, row, request, counted, faults>>

\* The return is rolled back.
LegKept(t) ==
  /\ t \in returning /\ returning' = returning \ {t}
  /\ UNCHANGED <<status, cancelled, scan, row, request, counted, faults>>

CancelTrip ==
  /\ ~cancelled /\ cancelled' = TRUE
  /\ UNCHANGED <<status, returning, scan, row, request, counted, faults>>

\* A checker reads a code; the device keeps it, behind those it has read before.
Read(s) ==
  /\ \A earlier \in 1 .. s - 1 : DeviceOf[earlier] = DeviceOf[s] => scan[earlier] # "unread"
  /\ scan[s] = "unread" /\ scan' = [scan EXCEPT ![s] = "held"]
  /\ UNCHANGED <<status, returning, cancelled, row, request, counted, faults>>

Backlog(d) == {s \in Scans : DeviceOf[s] = d /\ scan[s] = "held"}

\* The device sends what it holds, whether or not an earlier upload is still at work.
Upload(q, d) ==
  /\ request[q].stage = "idle" /\ Backlog(d) # {}
  /\ request' = [request EXCEPT ![q] =
                   [Idle EXCEPT !.stage = "next", !.batch = Backlog(d), !.todo = Backlog(d)]]
  /\ UNCHANGED <<status, returning, cancelled, scan, row, counted, faults>>

-----------------------------------------------------------------------------
(* sync, with resolve for one scan after the other                         *)

\* A batch is worked through in the device's order; s is next in it.
Current(q, s) ==
  s \in request[q].todo /\ \A other \in request[q].todo : s <= other
At(q, s, stage) == Current(q, s) /\ request[q].stage = stage

Stage(q, stage, verdict) ==
  request' = [request EXCEPT ![q].stage = stage, ![q].verdict = verdict]

\* On to the next scan of the batch.
Result(q, s, admitted, failed) ==
  request' = [request EXCEPT ![q].stage = "next", ![q].verdict = NoRow,
                             ![q].todo = @ \ {s},
                             ![q].admitted = @ \union admitted,
                             ![q].failed = @ \union failed]

\* Mistake: a scan of the same ticket counts as this one.
RecordedForTicket(s) == \E other \in Scans : Presents[other] = Presents[s] /\ row[other] # NoRow
\* A row has the scan's client_reference.
Recorded(s) == row[s] # NoRow

\* Mistake: the verdict of the row counts again.
DuplicateCounts(s) == IF row[s] = "accepted" THEN {s} ELSE {}
\* A duplicate is no admission of this batch.
DuplicateAdmits(s) == {}

\* A scan recorded before is answered with its row.
Duplicate(q, s) ==
  /\ At(q, s, "next") /\ Recorded(s)
  /\ Result(q, s, DuplicateAdmits(s), {})
  /\ UNCHANGED <<status, returning, cancelled, scan, row, counted, faults>>

Fresh(q, s) ==
  /\ At(q, s, "next") /\ ~Recorded(s)
  /\ Stage(q, "judging", NoRow)
  /\ UNCHANGED <<status, returning, cancelled, scan, row, counted, faults>>

\* judge: the most explainable refusal wins.
Judgement(s) ==
  IF Presents[s] = NoTicket THEN "no_ticket"
  ELSE CASE status[Presents[s]] = "used"     -> "already_used"
         [] status[Presents[s]] = "refunded" -> "not_valid"
         [] status[Presents[s]] = "valid"    -> IF cancelled THEN "not_valid"
                                                ELSE IF s \in Elsewhere THEN "wrong_service"
                                                ELSE "accepted"

Judge(q, s) ==
  /\ At(q, s, "judging")
  /\ LET verdict == Judgement(s)
     IN CASE verdict # "accepted" -> Stage(q, "recording", verdict)
          [] verdict = "accepted" /\ s \in Looks -> Stage(q, "recording", "checked")
          [] verdict = "accepted" /\ s \notin Looks -> Stage(q, "marking", verdict)
  /\ UNCHANGED <<status, returning, cancelled, scan, row, counted, faults>>

\* Mistake: the judgement stands.
MarkedUnchecked(t) == "accepted"
\* The ticket's row is locked and read again.
Marked(t) ==
  CASE status[t] = "used"     -> "already_used"
    [] status[t] = "refunded" -> "not_valid"
    [] status[t] = "valid"    -> "accepted"

Mark(q, s) ==
  LET t == Presents[s]
  IN /\ At(q, s, "marking")
     /\ Stage(q, "recording", Marked(t))
     /\ status' = IF Marked(t) = "accepted" THEN [status EXCEPT ![t] = "used"] ELSE status
     /\ UNCHANGED <<returning, cancelled, scan, row, counted, faults>>

Record(q, s) ==
  /\ At(q, s, "recording") /\ row[s] = NoRow
  /\ row' = [row EXCEPT ![s] = request[q].verdict]
  /\ Result(q, s, IF request[q].verdict = "accepted" THEN {s} ELSE {}, {})
  /\ UNCHANGED <<status, returning, cancelled, scan, counted, faults>>

\* Another upload of the same scan was faster: client_reference is unique, and this one
\* ends in an error, which does not throw away the rest of the batch.
RecordRefused(q, s) ==
  /\ At(q, s, "recording") /\ row[s] # NoRow
  /\ Result(q, s, {}, {s})
  /\ UNCHANGED <<status, returning, cancelled, scan, row, counted, faults>>

RecordFails(q, s) ==
  /\ At(q, s, "recording") /\ faults < MaxFaults
  /\ faults' = faults + 1
  /\ Result(q, s, {}, {s})
  /\ UNCHANGED <<status, returning, cancelled, scan, row, counted>>

\* The report is written; a device that hears of it forgets what was taken.
Answer(q, heard) ==
  LET taken == request[q].batch \ request[q].failed
  IN /\ request[q].stage = "next" /\ request[q].todo = {}
     /\ counted' = [s \in Scans |-> counted[s] + IF s \in request[q].admitted THEN 1 ELSE 0]
     /\ scan' = [s \in Scans |-> IF heard /\ s \in taken THEN "done" ELSE scan[s]]
     /\ request' = [request EXCEPT ![q] = Idle]
     /\ UNCHANGED <<status, returning, cancelled, row>>

Answered(q) == Answer(q, TRUE) /\ UNCHANGED faults
AnswerLost(q) == Answer(q, FALSE) /\ faults < MaxFaults /\ faults' = faults + 1

Crash ==
  /\ faults < MaxFaults /\ faults' = faults + 1
  /\ request' = [q \in Requests |-> Idle]
  /\ UNCHANGED <<status, returning, cancelled, scan, row, counted>>

-----------------------------------------------------------------------------
Resolve(q, s) ==
  \/ Duplicate(q, s)
  \/ Fresh(q, s)
  \/ Judge(q, s)
  \/ Mark(q, s)
  \/ Record(q, s)
  \/ RecordRefused(q, s)

Next ==
  \/ \E t \in Tickets : Refund(t)
  \/ \E t \in Tickets : LegRead(t)
  \/ \E t \in Tickets : LegRefund(t)
  \/ \E t \in Tickets : LegKept(t)
  \/ CancelTrip
  \/ \E s \in Scans : Read(s)
  \/ \E q \in Requests, d \in Devices : Upload(q, d)
  \/ \E q \in Requests, s \in Scans : Resolve(q, s)
  \/ \E q \in Requests, s \in Scans : RecordFails(q, s)
  \/ \E q \in Requests : Answered(q)
  \/ \E q \in Requests : AnswerLost(q)
  \/ Crash

Spec == Init /\ [][Next]_vars

\* The server works on what it has begun, and a device that has heard nothing sends
\* again while the server has room (routes/verificationRoutes.js:50).
ServerStep(q) == Answered(q) \/ \E s \in Scans : Resolve(q, s)
Sends(d) == \E q \in Requests : Upload(q, d)
Fairness ==
  /\ \A q \in Requests : WF_vars(ServerStep(q))
  /\ \A d \in Devices : SF_vars(Sends(d))
FairSpec == Spec /\ Fairness

-----------------------------------------------------------------------------
(* Properties                                                              *)

Admission(s, t) == Presents[s] = t /\ row[s] = "accepted"

\* Used, or a leg that a return wrote over.
Spent(t) == status[t] = "used" \/ (t \in Legs /\ status[t] = "refunded")

\* The ticket is marked for this scan, whose row is about to be written.
Recording(q, s, t) ==
  At(q, s, "recording") /\ request[q].verdict = "accepted" /\ Presents[s] = t

\* Every row keeps its type: a verdict is one the column can hold, and a device's
\* backlog, an upload and a ticket have no other states than those named above.
TypeOK ==
  /\ status \in [Tickets -> TicketStatus] /\ returning \subseteq Legs
  /\ cancelled \in BOOLEAN
  /\ scan \in [Scans -> {"unread", "held", "done"}]
  /\ row \in [Scans -> Verdicts \union {NoRow}]
  /\ request \in [Requests -> Uploads]
  /\ counted \in [Scans -> Nat] /\ faults \in 0 .. MaxFaults

\* verificationService.js:327, "one admission and one 'already scanned', never two
\* admissions": whatever devices are synced in whatever order, the log admits a ticket
\* once.  The ticket is used then, and a ticket with a seat is never also refunded; a
\* standing leg may be, by a return that found it valid before it was scanned (LegRefund).
AdmittedOnce ==
  \A t \in Tickets, s \in Scans : Admission(s, t) =>
    /\ Spent(t)
    /\ \A other \in Scans : Admission(other, t) => other = s

\* sync, "A duplicate is not an admission": the reports of all batches, sent again or
\* not, together count an admission once, and only one that is in the log.
ReportsAgree ==
  \A s \in Scans : counted[s] <= IF row[s] = "accepted" THEN 1 ELSE 0

\* sync and routes/verificationRoutes.js:50: a scan the device holds ends up in the
\* log, and the device hears of it, through lost answers, refused rows and restarts.  (It
\* is held until then, so that it is enough to say that always, later, none is held.)
EveryScanArrives ==
  []<>(\A s \in Scans : scan[s] # "held" /\ (scan[s] = "done" => row[s] # NoRow))

\* What the code's comments say and its steps refute.
\*
\* refundService.js:129, why a ticket cannot be returned: "That ticket has already been
\* travelled on."  A return reads the legs of its seat without a lock and refunds them by
\* id; one that a checker admits in between is refunded in full.
TravelledIsNotRefunded ==
  [][\A t \in Tickets : status[t] = "used" => status'[t] # "refunded"]_vars

\* models/TicketScan.js:23, of the ticket's status and the log: "The ticket's status is
\* the fast answer; this is the evidence behind it."  Marking and recording are
\* apart, and a scan sent again after the first was cut short is a refusal.
UsedHasEvidence ==
  \A t \in Tickets : status[t] = "used" =>
    \/ \E s \in Scans : Admission(s, t)
    \/ \E q \in Requests, s \in Scans : Recording(q, s, t)
=============================================================================
