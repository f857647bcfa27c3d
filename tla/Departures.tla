------------------------------ MODULE Departures ------------------------------
(***************************************************************************)
(* Cancelling and reinstating one departure and its coaches, and the jobs  *)
(* that refund the passengers (tripService, coachService, the handlers of  *)
(* jobs/handlers.js and refundService.issueForCancellation), while tickets *)
(* are sold and returned.                                                  *)
(*                                                                         *)
(* A cancellation and its job are one transaction.  A reinstatement reads, *)
(* and then writes without a transaction.  A job reads what it is about    *)
(* once, then lists tickets batch by batch, then refunds each ticket in a  *)
(* transaction of its own that looks at the ticket again.  How a worker    *)
(* comes by a job is left to JobQueue: here a job is run by one worker, is *)
(* interrupted and starts over, or fails.  Whether a wallet has room for a *)
(* refund is left to Wallets: any refund may be refused.                   *)
(***************************************************************************)
EXTENDS Integers, FiniteSets, FiniteSetsExt

CONSTANTS
  Tickets,           \* ids of tickets, in the order jobs list them
  Coaches,           \* coaches of the departure
  CoachOf,           \* the coach of each ticket's seat, or of a standing ticket
  Trip,              \* stands for the departure where a coach could stand
  JobIds,            \* ids of job rows, in the order they are written
  Clerks,            \* operators that reinstate
  Batch,             \* BATCH: how many tickets are listed at once
  MaxInterruptions   \* bound on attempts that end early

ASSUME DeparturesAssumption ==
  /\ Tickets \subseteq Nat /\ IsFiniteSet(Tickets)
  /\ JobIds \subseteq Nat /\ IsFiniteSet(JobIds)
  /\ CoachOf \in [Tickets -> Coaches]
  /\ Trip \notin Coaches
  /\ Batch \in Nat \ {0}
  /\ MaxInterruptions \in Nat

VARIABLES
  service,        \* per coach and for the trip: scheduled (a coach: active) or cancelled
  ticket,         \* none, held in a checkout, valid, returned, or refunded by a cancellation
  paid,           \* per ticket, the disruption refunds credited
  job,            \* the rows of refund jobs, and where the run of each is
  clerk,          \* what each operator has checked and not yet written
  interruptions,  \* how many attempts ended early
  late,           \* history: valid tickets sold although cancelled or still being refunded
  raced           \* history: refunds were under way for what was running again

vars == <<service, ticket, paid, job, clerk, interruptions, late, raced>>

Subjects == Coaches \union {Trip}
JobStatus == {"none", "queued", "running", "succeeded", "failed"}

Init ==
  /\ service = [s \in Subjects |-> "scheduled"]
  /\ ticket = [t \in Tickets |-> "none"]
  /\ paid = [t \in Tickets |-> 0]
  /\ job = [j \in JobIds |-> [subject |-> Trip, status |-> "none", at |-> "start",
                              batch |-> {}, owed |-> {}]]
  /\ clerk = [k \in Clerks |-> "idle"]
  /\ interruptions = 0
  /\ late = {}
  /\ raced = FALSE

Aboard(s) == {t \in Tickets : s \in {Trip, CoachOf[t]}}
Valid(s) == {t \in Aboard(s) : ticket[t] = "valid"}

\* The jobs that are queued or running for a subject: its dedupe key finds them.
Live(s) == {j \in JobIds : job[j].subject = s /\ job[j].status \in {"queued", "running"}}

-----------------------------------------------------------------------------
(* Sales and returns, as far as they matter here.                          *)

\* A checkout looks at the trip's status, and at no coach's.
Hold(t) ==
  /\ ticket[t] = "none" /\ service[Trip] = "scheduled"
  /\ ticket' = [ticket EXCEPT ![t] = "held"]
  /\ UNCHANGED <<service, paid, job, clerk, interruptions, late, raced>>

\* A sale looks at the checkout only.
Sell(t) ==
  /\ ticket[t] = "held"
  /\ ticket' = [ticket EXCEPT ![t] = "valid"]
  /\ late' = IF \E s \in {Trip, CoachOf[t]} : service[s] = "cancelled" \/ Live(s) # {}
             THEN late \union {t} ELSE late
  /\ UNCHANGED <<service, paid, job, clerk, interruptions, raced>>

\* A checkout is given up, lapses, or is let go because its coach was cancelled.
Release(t) ==
  /\ ticket[t] = "held"
  /\ ticket' = [ticket EXCEPT ![t] = "none"]
  /\ UNCHANGED <<service, paid, job, clerk, interruptions, late, raced>>

\* The passenger's own return, under a lock on the ticket.
Return(t) ==
  /\ ticket[t] = "valid"
  /\ ticket' = [ticket EXCEPT ![t] = "returned"]
  /\ late' = late \ {t}
  /\ UNCHANGED <<service, paid, job, clerk, interruptions, raced>>

-----------------------------------------------------------------------------
(* Cancellations.                                                          *)

\* Mistake: a job that has finished still counts.
JoinedEver(s) == {j \in JobIds : job[j].subject = s /\ job[j].status # "none"}
\* The job a cancellation joins instead of writing its own.
Joined(s) == Live(s)

\* enqueue with a dedupe key: a live job for the subject is the answer, or a new one
\* is written.  What is owed at this moment is noted for the properties.
Enqueue(s) ==
  IF Joined(s) # {}
  THEN job' = [j \in JobIds |-> IF j \in Joined(s)
                                THEN [job[j] EXCEPT !.owed = @ \union Valid(s)] ELSE job[j]]
  ELSE LET unused == {j \in JobIds : job[j].status = "none"}
       IN /\ unused # {}
          /\ job' = [job EXCEPT ![Min(unused)] =
               [subject |-> s, status |-> "queued", at |-> "start", batch |-> {},
                owed |-> Valid(s)]]

\* tripService.cancel: the departure and every coach, and the job.
Cancel ==
  /\ service[Trip] # "cancelled"
  /\ service' = [s \in Subjects |-> "cancelled"]
  /\ Enqueue(Trip)
  /\ UNCHANGED <<ticket, paid, clerk, interruptions, late, raced>>

\* coachService.cancel: the coach, and the job.  The checkouts it lets go afterwards,
\* one by one, are Release.
CancelCoach(c) ==
  /\ service[c] # "cancelled"
  /\ service' = [service EXCEPT ![c] = "cancelled"]
  /\ Enqueue(c)
  /\ UNCHANGED <<ticket, paid, clerk, interruptions, late, raced>>

-----------------------------------------------------------------------------
(* Reinstatements.                                                         *)

\* refundsInFlight: a job of the departure or of any of its coaches.
RefundsInFlight == \E s \in Subjects : Live(s) # {}

\* tripService.reinstate checks ...
ReinstateRead(k) ==
  /\ clerk[k] = "idle"
  /\ service[Trip] = "cancelled" /\ ~RefundsInFlight
  /\ clerk' = [clerk EXCEPT ![k] = "trip"]
  /\ UNCHANGED <<service, ticket, paid, job, interruptions, late, raced>>

\* ... writes the departure ...
ReinstateTrip(k) ==
  /\ clerk[k] = "trip"
  /\ service' = [service EXCEPT ![Trip] = "scheduled"]
  /\ clerk' = [clerk EXCEPT ![k] = "coaches"]
  /\ raced' = (raced \/ RefundsInFlight)
  /\ UNCHANGED <<ticket, paid, job, interruptions, late>>

\* ... and then its cancelled coaches, unless the process dies before.
ReinstateCoaches(k, dies) ==
  /\ clerk[k] = "coaches"
  /\ service' = IF dies THEN service
                ELSE [s \in Subjects |-> IF s = Trip THEN service[s] ELSE "scheduled"]
  /\ clerk' = [clerk EXCEPT ![k] = "idle"]
  /\ raced' = (raced \/ (~dies /\ RefundsInFlight))
  /\ UNCHANGED <<ticket, paid, job, interruptions, late>>

\* coachService.reinstate looks for the coach's own job only.
ReinstateCoachRead(k, c) ==
  /\ clerk[k] = "idle"
  /\ service[Trip] # "cancelled" /\ service[c] = "cancelled" /\ Live(c) = {}
  /\ clerk' = [clerk EXCEPT ![k] = c]
  /\ UNCHANGED <<service, ticket, paid, job, interruptions, late, raced>>

ReinstateCoach(k, c) ==
  /\ clerk[k] = c
  /\ service' = [service EXCEPT ![c] = "scheduled"]
  /\ clerk' = [clerk EXCEPT ![k] = "idle"]
  /\ raced' = (raced \/ RefundsInFlight)
  /\ UNCHANGED <<ticket, paid, job, interruptions, late>>

-----------------------------------------------------------------------------
(* The refund jobs.                                                        *)

\* The handler reads the subject once.
JobStart(j) ==
  /\ job[j].status = "queued"
  /\ job' = [job EXCEPT ![j].status = "running",
                        ![j].at = IF service[job[j].subject] = "cancelled" THEN "list" ELSE "done"]
  /\ UNCHANGED <<service, ticket, paid, clerk, interruptions, late, raced>>

\* The first of the valid tickets, at most Batch of them.
Listed(s) == {t \in Valid(s) : Cardinality({u \in Valid(s) : u < t}) < Batch}

JobList(j) ==
  /\ job[j].status = "running" /\ job[j].at = "list"
  /\ LET b == Listed(job[j].subject)
     IN job' = [job EXCEPT ![j].batch = b, ![j].at = IF b = {} THEN "done" ELSE "refund"]
  /\ UNCHANGED <<service, ticket, paid, clerk, interruptions, late, raced>>

\* Mistake: the ticket is not looked at again.
OwedFromList(t) == TRUE
\* Under the lock: returned in the moments since the list was read.
StillOwed(t) == ticket[t] = "valid"

\* Mistake: one batch is taken for all of them.
AfterBatchOnce(rest) == IF rest = {} THEN "done" ELSE "refund"
\* After a batch, another list.
AfterBatch(rest) == IF rest = {} THEN "list" ELSE "refund"

\* One ticket of the batch: refunded and credited, or passed over.
JobRefund(j) ==
  LET t == Min(job[j].batch)
      rest == job[j].batch \ {t}
  IN /\ job[j].status = "running" /\ job[j].at = "refund"
     /\ ticket' = IF StillOwed(t) THEN [ticket EXCEPT ![t] = "refunded"] ELSE ticket
     /\ paid' = IF StillOwed(t) THEN [paid EXCEPT ![t] = @ + 1] ELSE paid
     /\ job' = [job EXCEPT ![j].batch = rest, ![j].at = AfterBatch(rest)]
     /\ late' = late \ {t}
     /\ UNCHANGED <<service, clerk, interruptions, raced>>

\* A refund a wallet at its limit refuses is a 400: the job fails for good, the rest of the
\* tickets with it.
JobRefused(j) ==
  LET t == Min(job[j].batch)
  IN /\ job[j].status = "running" /\ job[j].at = "refund"
     /\ StillOwed(t)
     /\ job' = [job EXCEPT ![j].status = "failed", ![j].at = "start", ![j].batch = {}]
     /\ UNCHANGED <<service, ticket, paid, clerk, interruptions, late, raced>>

JobDone(j) ==
  /\ job[j].status = "running" /\ job[j].at = "done"
  /\ job' = [job EXCEPT ![j].status = "succeeded", ![j].at = "start", ![j].owed = {}]
  /\ UNCHANGED <<service, ticket, paid, clerk, interruptions, late, raced>>

\* An attempt ends early, and there is another or there is none.
JobInterrupted(j, status) ==
  /\ job[j].status = "running" /\ interruptions < MaxInterruptions
  /\ job' = [job EXCEPT ![j].status = status, ![j].at = "start", ![j].batch = {}]
  /\ interruptions' = interruptions + 1
  /\ UNCHANGED <<service, ticket, paid, clerk, late, raced>>

\* jobService.retry.
JobRetry(j) ==
  /\ job[j].status = "failed"
  /\ job' = [job EXCEPT ![j].status = "queued"]
  /\ raced' = (raced \/ service[job[j].subject] # "cancelled")
  /\ UNCHANGED <<service, ticket, paid, clerk, interruptions, late>>

JobStep(j) == JobStart(j) \/ JobList(j) \/ JobRefund(j) \/ JobRefused(j) \/ JobDone(j)

Next ==
  \/ \E t \in Tickets : Hold(t)
  \/ \E t \in Tickets : Sell(t)
  \/ \E t \in Tickets : Release(t)
  \/ \E t \in Tickets : Return(t)
  \/ Cancel
  \/ \E c \in Coaches : CancelCoach(c)
  \/ \E k \in Clerks : ReinstateRead(k)
  \/ \E k \in Clerks : ReinstateTrip(k)
  \/ \E k \in Clerks, dies \in BOOLEAN : ReinstateCoaches(k, dies)
  \/ \E k \in Clerks, c \in Coaches : ReinstateCoachRead(k, c)
  \/ \E k \in Clerks, c \in Coaches : ReinstateCoach(k, c)
  \/ \E j \in JobIds : JobStep(j)
  \/ \E j \in JobIds, status \in {"queued", "failed"} : JobInterrupted(j, status)
  \/ \E j \in JobIds : JobRetry(j)

Spec == Init /\ [][Next]_vars

-----------------------------------------------------------------------------
\* The types of the records, the jobs and the calls under way; a ticket is paid for
\* by a cancellation at most once.
TypeOK ==
  /\ service \in [Subjects -> {"scheduled", "cancelled"}]
  /\ ticket \in [Tickets -> {"none", "held", "valid", "returned", "refunded"}]
  /\ paid \in [Tickets -> 0..1]
  /\ job \in [JobIds -> [subject : Subjects, status : JobStatus,
                         at : {"start", "list", "refund", "done"},
                         batch : SUBSET Tickets, owed : SUBSET Tickets]]
  /\ clerk \in [Clerks -> {"idle", "trip", "coaches"} \union Coaches]
  /\ interruptions \in 0..MaxInterruptions
  /\ late \subseteq Tickets
  /\ raced \in BOOLEAN

\* However a departure's job and a coach's overlap, start over or meet a return, the
\* money for a ticket leaves once, and leaves if and only if the ticket is refunded
\* (issueForCancellation).
RefundedOnce == \A t \in Tickets : paid[t] = IF ticket[t] = "refunded" THEN 1 ELSE 0

\* A job that says it succeeded has left nobody who was aboard when the cancellation
\* was written, whatever interrupted it and whoever joined it by its key.  This
\* leans on refunds and reinstatements that do not overlap.
OwedAreSettled ==
  [][\A j \in JobIds :
       job[j].status = "running" /\ job'[j].status = "succeeded" /\ ~raced
         => \A t \in job[j].owed : ticket[t] # "valid"]_vars

\* Nobody is forgotten: the passengers aboard what is cancelled are on the account of
\* a job that will run, runs, or waits for a person (cancel and enqueue).
EveryoneIsOwed ==
  \A t \in Tickets :
    /\ ticket[t] = "valid" /\ t \notin late /\ ~raced
    /\ \E s \in {Trip, CoachOf[t]} : service[s] = "cancelled"
    => \E j \in JobIds : t \in job[j].owed /\ job[j].status \in {"queued", "running", "failed"}

\* What tripService.js:465 says: cancelling refunds everyone aboard.  A checkout made
\* before the cancellation is sold after its job has finished.
NobodyIsLeftAboard ==
  service[Trip] = "cancelled" /\ (\A j \in JobIds : job[j].status \in {"none", "succeeded"})
    => Valid(Trip) = {}

\* What the comment on refundsInFlight says: both reinstatements wait for refunds to
\* clear.
ReinstatementsWait ==
  [][\A s \in Subjects : service[s] = "cancelled" /\ service'[s] = "scheduled"
       => Live(s) = {}]_vars
=============================================================================
