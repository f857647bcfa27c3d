----------------------------- MODULE Scans_proofs -----------------------------
(* A ticket is admitted once and its admission reported once, for any      *)
(* devices, scans, uploads and tickets.                                    *)
EXTENDS Scans, TLAPS

\* Only a scan that names a ticket gets as far as marking it.
MarksTickets ==
  \A q \in Requests, s \in Scans : At(q, s, "marking") => Presents[s] \in Tickets

\* Between marking and recording, the ticket is spent, nobody has it in the log, and
\* nobody else is about to.
OneAtWork ==
  \A q \in Requests, s \in Scans, t \in Tickets : Recording(q, s, t) =>
    /\ Spent(t)
    /\ \A other \in Scans : ~Admission(other, t)
    /\ \A r \in Requests, other \in Scans : Recording(r, other, t) => r = q

\* What a report is going to count is in the log, and nobody else's report has it.
Reporting ==
  \A q \in Requests : \A s \in request[q].admitted :
    /\ row[s] = "accepted" /\ counted[s] = 0
    /\ \A r \in Requests : s \in request[r].admitted => r = q

IInv == TypeOK /\ MarksTickets /\ OneAtWork /\ Reporting /\ AdmittedOnce /\ ReportsAgree

Unmoved(q) == \A r \in Requests \ {q} : request'[r] = request[r]

LEMMA StageType ==
  ASSUME TypeOK, NEW q \in Requests, NEW stage \in Stages,
         NEW verdict \in Verdicts \union {NoRow}, Stage(q, stage, verdict)
  PROVE  /\ request' \in [Requests -> Uploads] /\ Unmoved(q)
         /\ request'[q].stage = stage /\ request'[q].verdict = verdict
         /\ request'[q].todo = request[q].todo
         /\ request'[q].admitted = request[q].admitted
<1>1. request[q] \in Uploads
  BY DEF TypeOK
<1>2. [request[q] EXCEPT !.stage = stage, !.verdict = verdict] \in Uploads
  BY <1>1 DEF Uploads
<1>3. request' = [request EXCEPT ![q] =
                    [request[q] EXCEPT !.stage = stage, !.verdict = verdict]]
  BY DEF Stage
<1> QED
  BY <1>1, <1>2, <1>3 DEF TypeOK, Uploads, Unmoved

LEMMA ResultType ==
  ASSUME TypeOK, NEW q \in Requests, NEW s \in Scans, NEW admitted \in SUBSET Scans,
         NEW failed \in SUBSET Scans, Result(q, s, admitted, failed)
  PROVE  /\ request' \in [Requests -> Uploads] /\ Unmoved(q)
         /\ request'[q].stage = "next"
         /\ request'[q].admitted = request[q].admitted \union admitted
<1> DEFINE new == [request[q] EXCEPT !.stage = "next", !.verdict = NoRow,
                                     !.todo = request[q].todo \ {s},
                                     !.admitted = request[q].admitted \union admitted,
                                     !.failed = request[q].failed \union failed]
<1>1. request[q] \in Uploads
  BY DEF TypeOK
<1>2. new \in Uploads
  BY <1>1 DEF Uploads, Stages
<1>3. request' = [request EXCEPT ![q] = new]
  BY DEF Result
<1> QED
  BY <1>1, <1>2, <1>3 DEF TypeOK, Uploads, Unmoved

\* An upload that neither admits nor is about to leaves the rest of IInv alone.
LEMMA QuietStep ==
  ASSUME IInv, NEW q \in Requests, UNCHANGED <<status, row, counted>>, Unmoved(q),
         request'[q].admitted \subseteq request[q].admitted,
         request'[q].stage = "recording" => request'[q].verdict # "accepted",
         \A s \in Scans : At(q, s, "marking")' => Presents[s] \in Tickets
  PROVE  MarksTickets' /\ OneAtWork' /\ Reporting' /\ AdmittedOnce' /\ ReportsAgree'
<1>1. MarksTickets'
  BY DEF IInv, MarksTickets, Unmoved, At, Current
<1>2. \A r \in Requests, s \in Scans, t \in Tickets : Recording(r, s, t)' => Recording(r, s, t)
  BY DEF Unmoved, Recording, At, Current
<1>3. OneAtWork'
  BY <1>2 DEF IInv, OneAtWork, Admission, Spent
<1>4. \A r \in Requests : request'[r].admitted \subseteq request[r].admitted
  BY DEF Unmoved
<1>5. Reporting'
  BY <1>4 DEF IInv, Reporting
<1>6. AdmittedOnce' /\ ReportsAgree'
  BY DEF IInv, AdmittedOnce, ReportsAgree, Admission, Spent
<1> QED
  BY <1>1, <1>3, <1>5, <1>6

LEMMA InitIInv == Init => IInv
<1> SUFFICES ASSUME Init PROVE IInv
  OBVIOUS
<1>1. TypeOK
  <2>1. Idle \in Uploads
    BY DEF Idle, Uploads, Stages
  <2>2. request \in [Requests -> Uploads]
    BY <2>1 DEF Init
  <2>3. faults \in 0 .. MaxFaults
    BY ScansAssumption DEF Init
  <2> QED
    BY <2>2, <2>3 DEF Init, TypeOK, TicketStatus
<1>2. \A q \in Requests : request[q] = Idle
  BY DEF Init
<1> QED
  BY <1>1, <1>2 DEF Init, IInv, MarksTickets, OneAtWork, Reporting, AdmittedOnce, ReportsAgree,
     At, Recording, Admission, Idle, NoRow

-----------------------------------------------------------------------------
(* One lemma per kind of step                                              *)

\* Neither a return nor a refund touches what is spent, except a leg.
LEMMA RefundStep ==
  ASSUME IInv, NEW t \in Tickets, Refund(t) \/ LegRead(t) \/ LegRefund(t) \/ LegKept(t)
  PROVE  IInv'
<1>1. UNCHANGED <<cancelled, scan, row, request, counted, faults>>
  BY DEF Refund, LegRead, LegRefund, LegKept
<1>2. status' = status \/ status' = [status EXCEPT ![t] = "refunded"]
  BY DEF Refund, LegRead, LegRefund, LegKept
<1>3. TypeOK'
  <2>1. status' \in [Tickets -> TicketStatus]
    BY <1>2 DEF IInv, TypeOK, TicketStatus
  <2>2. returning' \subseteq Legs
    BY DEF IInv, TypeOK, Refund, LegRead, LegRefund, LegKept
  <2> QED
    BY <1>1, <2>1, <2>2 DEF IInv, TypeOK
<1>4. ASSUME NEW u \in Tickets, Spent(u) PROVE Spent(u)'
  <2>1. CASE Refund(t)
    BY <1>4, <2>1 DEF IInv, TypeOK, Refund, Spent
  <2>2. CASE LegRefund(t)
    BY <1>4, <2>2 DEF IInv, TypeOK, LegRefund, Spent
  <2>3. CASE LegRead(t) \/ LegKept(t)
    BY <1>4, <2>3 DEF LegRead, LegKept, Spent
  <2> QED
    BY <2>1, <2>2, <2>3
<1>5. MarksTickets' /\ OneAtWork' /\ Reporting'
  BY <1>1, <1>4 DEF IInv, MarksTickets, OneAtWork, Reporting, At, Current, Recording, Admission
<1>6. AdmittedOnce' /\ ReportsAgree'
  BY <1>1, <1>4 DEF IInv, AdmittedOnce, ReportsAgree, Admission
<1> QED
  BY <1>3, <1>5, <1>6 DEF IInv

LEMMA OutsideStep ==
  ASSUME IInv, CancelTrip \/ \E s \in Scans : Read(s) PROVE IInv'
<1>1. UNCHANGED <<status, returning, row, request, counted, faults>>
  BY DEF CancelTrip, Read
<1>2. TypeOK'
  <2>1. cancelled' \in BOOLEAN /\ scan' \in [Scans -> {"unread", "held", "done"}]
    BY DEF IInv, TypeOK, CancelTrip, Read
  <2> QED
    BY <1>1, <2>1 DEF IInv, TypeOK
<1> QED
  BY <1>1, <1>2 DEF IInv, MarksTickets, OneAtWork, Reporting, AdmittedOnce, ReportsAgree,
     At, Current, Recording, Admission, Spent

LEMMA UploadStep ==
  ASSUME IInv, NEW q \in Requests, NEW d \in Devices, Upload(q, d) PROVE IInv'
<1> DEFINE new == [Idle EXCEPT !.stage = "next", !.batch = Backlog(d), !.todo = Backlog(d)]
<1>1. Backlog(d) \in SUBSET Scans
  BY DEF Backlog
<1>2. new \in Uploads /\ new.admitted = {} /\ new.stage = "next"
  BY <1>1 DEF Idle, Uploads, Stages
<1>3. request' = [request EXCEPT ![q] = new]
  BY DEF Upload
<1>4. TypeOK'
  BY <1>2, <1>3 DEF IInv, TypeOK, Upload
<1>5. request'[q] = new /\ Unmoved(q)
  BY <1>3 DEF IInv, TypeOK, Unmoved
<1> HIDE DEF new
<1> QED
  BY <1>2, <1>4, <1>5, QuietStep DEF IInv, Upload, At

LEMMA QuietResultStep ==
  ASSUME IInv, NEW q \in Requests, NEW s \in Scans,
         Duplicate(q, s) \/ RecordRefused(q, s) \/ RecordFails(q, s)
  PROVE  IInv'
<1>1. PICK failed \in SUBSET Scans : Result(q, s, {}, failed)
  BY DEF Duplicate, DuplicateAdmits, RecordRefused, RecordFails
<1>2. /\ request' \in [Requests -> Uploads] /\ Unmoved(q)
      /\ request'[q].stage = "next" /\ request'[q].admitted = request[q].admitted
  <2>1. {} \in SUBSET Scans
    OBVIOUS
  <2>2. request[q].admitted \union {} = request[q].admitted
    OBVIOUS
  <2> QED
    BY <1>1, <2>1, <2>2, ResultType DEF IInv
<1>3. UNCHANGED <<status, returning, cancelled, scan, row, counted>> /\ faults' \in 0 .. MaxFaults
  BY ScansAssumption DEF IInv, TypeOK, Duplicate, RecordRefused, RecordFails
<1>4. TypeOK'
  BY <1>2, <1>3 DEF IInv, TypeOK
<1> QED
  BY <1>2, <1>3, <1>4, QuietStep DEF IInv, At

LEMMA JudgeStep ==
  ASSUME IInv, NEW q \in Requests, NEW s \in Scans, Fresh(q, s) \/ Judge(q, s)
  PROVE  IInv'
<1>1. Judgement(s) \in Verdicts /\ (Judgement(s) = "accepted" => Presents[s] \in Tickets)
  BY ScansAssumption DEF IInv, TypeOK, TicketStatus, Judgement, Verdicts
<1>2. PICK stage \in Stages, verdict \in Verdicts \union {NoRow} :
        /\ Stage(q, stage, verdict)
        /\ stage = "recording" => verdict # "accepted"
        /\ stage = "marking" => Presents[s] \in Tickets
  BY <1>1 DEF Fresh, Judge, Stages, Verdicts
<1>3. /\ request' \in [Requests -> Uploads] /\ Unmoved(q)
      /\ request'[q].stage = stage /\ request'[q].verdict = verdict
      /\ request'[q].todo = request[q].todo /\ request'[q].admitted = request[q].admitted
  BY <1>2, StageType DEF IInv
<1>4. UNCHANGED <<status, returning, cancelled, scan, row, counted, faults>> /\ Current(q, s)
  BY DEF Fresh, Judge, At
<1>5. \A o \in Scans : At(q, o, "marking")' => o = s
  BY <1>3, <1>4 DEF At, Current, Scans
<1>6. TypeOK'
  BY <1>3, <1>4 DEF IInv, TypeOK
<1> QED
  BY <1>2, <1>3, <1>4, <1>5, <1>6, QuietStep DEF IInv, At

LEMMA MarkStep ==
  ASSUME IInv, NEW q \in Requests, NEW s \in Scans, Mark(q, s) PROVE IInv'
<1> DEFINE t == Presents[s]
<1>1. t \in Tickets /\ status[t] \in TicketStatus /\ Current(q, s)
  BY DEF IInv, TypeOK, MarksTickets, Mark, At
<1>2. /\ Marked(t) \in Verdicts
      /\ Marked(t) = "accepted" => status[t] = "valid"
  BY <1>1 DEF Marked, TicketStatus, Verdicts
<1>3. /\ request' \in [Requests -> Uploads] /\ Unmoved(q)
      /\ request'[q].stage = "recording" /\ request'[q].verdict = Marked(t)
      /\ request'[q].todo = request[q].todo /\ request'[q].admitted = request[q].admitted
  BY <1>2, StageType DEF IInv, Mark, Stages
<1>4. TypeOK'
  BY <1>1, <1>3 DEF IInv, TypeOK, Mark, TicketStatus
<1>5. CASE Marked(t) # "accepted"
  <2>1. UNCHANGED <<status, returning, row, counted>>
    BY <1>5 DEF Mark
  <2> QED
    BY <1>3, <1>4, <1>5, <2>1, QuietStep DEF IInv, At
<1>6. CASE Marked(t) = "accepted"
  <2>1. /\ status[t] = "valid" /\ status' = [status EXCEPT ![t] = "used"]
        /\ UNCHANGED <<row, counted>>
    BY <1>2, <1>6 DEF Mark
  <2>2. \A u \in Tickets : Spent(u) => Spent(u)'
    BY <2>1 DEF IInv, TypeOK, Spent
  <2>3. MarksTickets' /\ Reporting'
    BY <1>3, <2>1 DEF IInv, MarksTickets, Reporting, Unmoved, At, Current
  <2>4. AdmittedOnce' /\ ReportsAgree'
    BY <2>1, <2>2 DEF IInv, AdmittedOnce, ReportsAgree, Admission
  <2>5. \A o \in Scans : ~Admission(o, t)
    BY <1>1, <2>1 DEF IInv, AdmittedOnce, Spent
  <2>6. \A r \in Requests, o \in Scans : ~Recording(r, o, t)
    BY <1>1, <2>1 DEF IInv, OneAtWork, Spent
  <2>7. \A o \in Scans, u \in Tickets : Recording(q, o, u)' => u = t
    BY <1>1, <1>3 DEF Recording, At, Current, Scans
  <2>8. \A r \in Requests \ {q}, o \in Scans, u \in Tickets :
          Recording(r, o, u)' => Recording(r, o, u) /\ u # t
    BY <1>3, <2>6 DEF Recording, At, Current, Unmoved
  <2>9. OneAtWork'
    <3> SUFFICES ASSUME NEW r \in Requests, NEW o \in Scans, NEW u \in Tickets,
                        Recording(r, o, u)'
                 PROVE  /\ Spent(u)'
                        /\ \A other \in Scans : ~Admission(other, u)'
                        /\ \A p \in Requests, other \in Scans :
                             Recording(p, other, u)' => p = r
      BY DEF OneAtWork
    <3>1. CASE r = q
      <4>1. u = t /\ Spent(u)'
        BY <1>1, <2>1, <2>7, <3>1 DEF IInv, TypeOK, Spent
      <4>2. \A other \in Scans : ~Admission(other, u)'
        BY <2>1, <2>5, <4>1 DEF Admission
      <4> QED
        BY <2>8, <3>1, <4>1, <4>2
    <3>2. CASE r # q
      <4>1. Recording(r, o, u) /\ u # t
        BY <2>8, <3>2
      <4>2. /\ Spent(u)
            /\ \A other \in Scans : ~Admission(other, u)
            /\ \A p \in Requests, other \in Scans : Recording(p, other, u) => p = r
        BY <4>1 DEF IInv, OneAtWork
      <4>3. \A other \in Scans : ~Admission(other, u)'
        BY <2>1, <4>2 DEF Admission
      <4>4. \A p \in Requests, other \in Scans : Recording(p, other, u)' => p = r
        BY <2>7, <2>8, <4>1, <4>2
      <4> QED
        BY <2>2, <4>2, <4>3, <4>4
    <3> QED
      BY <3>1, <3>2
  <2> QED
    BY <1>4, <2>3, <2>4, <2>9 DEF IInv
<1> QED
  BY <1>5, <1>6

LEMMA RecordStep ==
  ASSUME IInv, NEW q \in Requests, NEW s \in Scans, Record(q, s) PROVE IInv'
<1> DEFINE verdict == request[q].verdict
           own == IF verdict = "accepted" THEN {s} ELSE {}
<1>1. /\ request' \in [Requests -> Uploads] /\ Unmoved(q)
      /\ request'[q].stage = "next" /\ request'[q].admitted = request[q].admitted \union own
  <2>1. own \in SUBSET Scans /\ {} \in SUBSET Scans /\ Result(q, s, own, {})
    BY DEF Record
  <2> HIDE DEF own
  <2> QED
    BY <2>1, ResultType DEF IInv
<1>2. verdict \in Verdicts \union {NoRow} /\ row[s] = NoRow
  BY DEF IInv, TypeOK, Uploads, Record
<1>3. row' = [row EXCEPT ![s] = verdict] /\ UNCHANGED <<status, returning, cancelled, scan, counted, faults>>
  BY DEF Record
<1>4. TypeOK'
  BY <1>1, <1>2, <1>3 DEF IInv, TypeOK
<1>5. /\ row'[s] = verdict /\ \A o \in Scans \ {s} : row'[o] = row[o]
  BY <1>3 DEF IInv, TypeOK
<1>6. MarksTickets'
  BY <1>1 DEF IInv, MarksTickets, Unmoved, At, Current
<1>7. \A o \in Scans, t \in Tickets : Admission(o, t)' =>
        Admission(o, t) \/ (o = s /\ Recording(q, s, t))
  BY <1>5 DEF Admission, Recording, Record
<1>8. \A r \in Requests, o \in Scans, t \in Tickets :
        Recording(r, o, t)' => r # q /\ Recording(r, o, t)
  BY <1>1 DEF Recording, At, Current, Unmoved
<1>9. OneAtWork'
  <2> SUFFICES ASSUME NEW r \in Requests, NEW o \in Scans, NEW t \in Tickets, Recording(r, o, t)'
               PROVE  /\ Spent(t)'
                      /\ \A other \in Scans : ~Admission(other, t)'
                      /\ \A p \in Requests, other \in Scans : Recording(p, other, t)' => p = r
    BY DEF OneAtWork
  <2>1. r # q /\ Recording(r, o, t)
    BY <1>8
  <2>2. ~Recording(q, s, t) /\ Spent(t)
        /\ (\A other \in Scans : ~Admission(other, t))
    BY <2>1 DEF IInv, OneAtWork
  <2>3. \A other \in Scans : ~Admission(other, t)'
    BY <1>7, <2>2
  <2>4. \A p \in Requests, other \in Scans : Recording(p, other, t)' => p = r
    BY <1>8, <2>1 DEF IInv, OneAtWork
  <2> QED
    BY <1>3, <2>2, <2>3, <2>4 DEF Spent
<1>10. AdmittedOnce'
  <2> SUFFICES ASSUME NEW t \in Tickets, NEW o \in Scans, Admission(o, t)'
               PROVE  /\ Spent(t)'
                      /\ \A other \in Scans : Admission(other, t)' => other = o
    BY DEF AdmittedOnce
  <2>1. CASE Recording(q, s, t)
    BY <1>3, <1>7, <2>1 DEF IInv, OneAtWork, Spent
  <2>2. CASE ~Recording(q, s, t)
    BY <1>3, <1>7, <2>2 DEF IInv, AdmittedOnce, Spent
  <2> QED
    BY <2>1, <2>2
<1>11. counted[s] = 0 /\ \A r \in Requests : s \notin request[r].admitted
  BY <1>2 DEF IInv, TypeOK, ReportsAgree, Reporting, NoRow
<1>12. \A r \in Requests : request[r].admitted \subseteq Scans
  BY DEF IInv, TypeOK, Uploads
<1>13. Reporting'
  <2> SUFFICES ASSUME NEW r \in Requests, NEW o \in request'[r].admitted
               PROVE  /\ row'[o] = "accepted" /\ counted'[o] = 0
                      /\ \A p \in Requests : o \in request'[p].admitted => p = r
    BY DEF Reporting
  <2>1. \A p \in Requests, x \in Scans \ {s} :
          x \in request'[p].admitted => x \in request[p].admitted
    BY <1>1 DEF Unmoved
  <2>2. \A p \in Requests : s \in request'[p].admitted => p = q /\ verdict = "accepted"
    BY <1>1, <1>11 DEF Unmoved
  <2>3. o \in Scans
    BY <1>1 DEF Uploads
  <2>4. CASE o = s
    BY <1>3, <1>5, <1>11, <2>2, <2>4
  <2>5. CASE o # s
    BY <1>3, <1>5, <2>1, <2>3, <2>5 DEF IInv, Reporting
  <2> QED
    BY <2>4, <2>5
<1>14. ReportsAgree'
  BY <1>3, <1>5, <1>11 DEF IInv, ReportsAgree
<1> QED
  BY <1>4, <1>6, <1>9, <1>10, <1>13, <1>14 DEF IInv

LEMMA AnswerStep ==
  ASSUME IInv, NEW q \in Requests, Answered(q) \/ AnswerLost(q) PROVE IInv'
<1>1. PICK heard \in BOOLEAN : Answer(q, heard)
  BY DEF Answered, AnswerLost
<1>2. /\ request' = [request EXCEPT ![q] = Idle] /\ UNCHANGED <<status, returning, cancelled, row>>
      /\ counted' = [s \in Scans |-> counted[s] + IF s \in request[q].admitted THEN 1 ELSE 0]
  BY <1>1 DEF Answer
<1>3. Idle \in Uploads /\ Idle.admitted = {} /\ Idle.stage = "idle"
  BY DEF Idle, Uploads, Stages
<1>4. request' \in [Requests -> Uploads] /\ Unmoved(q) /\ request'[q] = Idle
  BY <1>2, <1>3 DEF IInv, TypeOK, Unmoved
<1>5. TypeOK'
  <2>1. scan' \in [Scans -> {"unread", "held", "done"}]
    <3> DEFINE marked == {"unread", "held", "done"}
               kept(s) == heard /\ s \in request[q].batch \ request[q].failed
    <3>1. scan' = [s \in Scans |-> IF kept(s) THEN "done" ELSE scan[s]]
      BY <1>1 DEF Answer
    <3>2. \A s \in Scans : (IF kept(s) THEN "done" ELSE scan[s]) \in marked
      BY DEF IInv, TypeOK
    <3> HIDE DEF kept
    <3> QED
      BY <3>1, <3>2
  <2>2. faults' \in 0 .. MaxFaults
    <3>1. faults' = faults \/ (faults < MaxFaults /\ faults' = faults + 1)
      BY DEF Answered, AnswerLost
    <3>2. faults \in 0 .. MaxFaults /\ MaxFaults \in Nat
      BY ScansAssumption DEF IInv, TypeOK
    <3> QED
      BY <3>1, <3>2
  <2>3. counted' \in [Scans -> Nat]
    BY <1>2 DEF IInv, TypeOK
  <2> QED
    BY <1>2, <1>4, <2>1, <2>2, <2>3 DEF IInv, TypeOK
<1>6. MarksTickets'
  BY <1>3, <1>4 DEF IInv, MarksTickets, Unmoved, At, Current
<1>7. \A r \in Requests, s \in Scans, t \in Tickets : Recording(r, s, t)' => Recording(r, s, t)
  BY <1>3, <1>4 DEF Recording, At, Current, Unmoved
<1>8. OneAtWork' /\ AdmittedOnce'
  BY <1>2, <1>7 DEF IInv, OneAtWork, AdmittedOnce, Admission, Spent
<1>9. Reporting'
  <2> SUFFICES ASSUME NEW r \in Requests, NEW s \in request'[r].admitted
               PROVE  /\ row'[s] = "accepted" /\ counted'[s] = 0
                      /\ \A p \in Requests : s \in request'[p].admitted => p = r
    BY DEF Reporting
  <2>1. r # q /\ s \in request[r].admitted /\ s \in Scans
    BY <1>3, <1>4 DEF IInv, TypeOK, Uploads, Unmoved
  <2>2. s \notin request[q].admitted /\ row[s] = "accepted" /\ counted[s] = 0
    BY <2>1 DEF IInv, Reporting
  <2>3. \A p \in Requests : s \in request'[p].admitted => s \in request[p].admitted
    BY <1>3, <1>4 DEF Unmoved
  <2> QED
    BY <1>2, <2>1, <2>2, <2>3 DEF IInv, Reporting
<1>10. ReportsAgree'
  BY <1>2 DEF IInv, TypeOK, ReportsAgree, Reporting
<1> QED
  BY <1>5, <1>6, <1>8, <1>9, <1>10 DEF IInv

LEMMA CrashStep == ASSUME IInv, Crash PROVE IInv'
<1>1. \A q \in Requests : request'[q] = Idle
  BY DEF Crash
<1>2. UNCHANGED <<status, returning, cancelled, scan, row, counted>>
  BY DEF Crash
<1>3. TypeOK'
  <2>1. request' \in [Requests -> Uploads]
    BY DEF Crash, Idle, Uploads, Stages
  <2>2. faults' \in 0 .. MaxFaults
    BY ScansAssumption DEF IInv, TypeOK, Crash
  <2> QED
    BY <1>2, <2>1, <2>2 DEF IInv, TypeOK
<1>4. AdmittedOnce' /\ ReportsAgree'
  BY <1>2 DEF IInv, AdmittedOnce, ReportsAgree, Admission, Spent
<1> QED
  BY <1>1, <1>3, <1>4 DEF IInv, MarksTickets, OneAtWork, Reporting, At, Recording, Idle

LEMMA NextIInv == IInv /\ [Next]_vars => IInv'
<1> SUFFICES ASSUME IInv, [Next]_vars PROVE IInv'
  OBVIOUS
<1>1. CASE UNCHANGED vars
  BY <1>1 DEF vars, IInv, TypeOK, MarksTickets, OneAtWork, Reporting, AdmittedOnce, ReportsAgree,
     At, Current, Recording, Admission, Spent
<1>2. CASE Next
  BY <1>2, RefundStep, OutsideStep, UploadStep, QuietResultStep, JudgeStep, MarkStep, RecordStep,
     AnswerStep, CrashStep DEF Next, Resolve
<1> QED
  BY <1>1, <1>2

\* The inductive invariant: it holds at first and every step of the code keeps it.
THEOREM SpecIInv == Spec => []IInv
  BY InitIInv, NextIInv, PTL DEF Spec

\* Verdicts, backlogs, uploads and tickets keep their types (resolve, sync).
THEOREM SpecTypeOK == Spec => []TypeOK
<1>1. IInv => TypeOK
  BY DEF IInv
<1> QED
  BY SpecIInv, <1>1, PTL

\* Two checkers, any uploads of any backlogs, returns and crashes: the log admits a
\* ticket once, and it is used (the lock of resolve), or a standing leg that the return
\* of its seat refunded after it was scanned (releaseStandingFor, which takes no lock).
THEOREM SpecAdmittedOnce == Spec => []AdmittedOnce
<1>1. IInv => AdmittedOnce
  BY DEF IInv
<1> QED
  BY SpecIInv, <1>1, PTL

\* The reports of sync, however often a batch is sent, count an admission once.
THEOREM SpecReportsAgree == Spec => []ReportsAgree
<1>1. IInv => ReportsAgree
  BY DEF IInv
<1> QED
  BY SpecIInv, <1>1, PTL
=============================================================================
