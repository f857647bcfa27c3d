-------------------- MODULE DeparturesAndWaitlist_proofs --------------------
(***************************************************************************)
(* Proofs about Departures for any tickets, coaches, jobs and operators,   *)
(* any batch and any number of interruptions, and about Waitlist for any   *)
(* queue, seats, holds, calls and limits.                                  *)
(*                                                                         *)
(* Departures.  EveryoneIsOwed and OwedAreSettled rest on what is known of *)
(* the tickets a job is accountable for (Accounts): they were sold and are *)
(* of its subject; on refunds and running trains being apart as long as    *)
(* nothing raced (RefundsApart); and on a list that comes back empty       *)
(* (NoneLeft).                                                             *)
(*                                                                         *)
(* Waitlist.  OfferBacked rests on holds being one person's each           *)
(* (Unshared), on what a pass has made being whole (MadeWhole), and on     *)
(* whoever has taken the seats of an offer being still to write (Backed);  *)
(* ServedInOrder on there being too little for those passed over           *)
(* (TooLittle).                                                            *)
(***************************************************************************)
EXTENDS Departures, Waitlist, FiniteSetTheorems, WellFoundedInduction, TLAPS

-----------------------------------------------------------------------------
(* Departures                                                              *)

\* A ticket on a job's account has been sold, and has a place in what the job refunds.
Accounts ==
  \A j \in JobIds : \A t \in job[j].owed :
    ticket[t] \in {"valid", "returned", "refunded"} /\ t \in Aboard(job[j].subject)

\* What a live job refunds is cancelled.
RefundsApart ==
  ~raced => \A j \in JobIds :
    job[j].status \in {"queued", "running"} => service[job[j].subject] = "cancelled"

\* A run that is through has left none of its account.
NoneLeft ==
  ~raced => \A j \in JobIds :
    job[j].status = "running" /\ job[j].at = "done" => \A t \in job[j].owed : ticket[t] # "valid"

IInv == TypeOK /\ RefundedOnce /\ Accounts /\ RefundsApart /\ NoneLeft /\ EveryoneIsOwed

JobRecord == [subject : Subjects, status : JobStatus, at : {"start", "list", "refund", "done"},
              batch : SUBSET Tickets, owed : SUBSET Tickets]

\* A finite set of numbers that is not empty has a least element, and Min is one:
\* the sets of what is below its elements have a minimal one, and that is empty.
LEMMA LeastExists ==
  ASSUME NEW S, IsFiniteSet(S), S \subseteq Nat, S # {}
  PROVE  Min(S) \in S /\ \A y \in S : Min(S) <= y
<1> DEFINE Below(x) == {y \in S : y < x}
           B == {Below(x) : x \in S}
<1>1. PICK D \in B : \A E \in B : <<E, D>> \notin StrictSubsetOrdering(S)
  <2>1. B \subseteq FiniteSubsetsOf(S) /\ B # {}
    <3>1. \A y \in S : Below(y) \in SUBSET S /\ IsFiniteSet(Below(y))
      <4> SUFFICES ASSUME NEW y \in S PROVE Below(y) \in SUBSET S /\ IsFiniteSet(Below(y))
        OBVIOUS
      <4>1. Below(y) \in SUBSET S
        OBVIOUS
      <4> HIDE DEF Below
      <4> QED BY <4>1, FS_Subset
    <3> HIDE DEF Below
    <3> QED BY <3>1 DEF FiniteSubsetsOf
  <2>2. IsWellFoundedOn(StrictSubsetOrdering(S), FiniteSubsetsOf(S))
    BY FS_StrictSubsetOrderingWellFounded
  <2> HIDE DEF B
  <2> QED BY <2>1, <2>2, WFMin
<1>2. PICK x \in S : D = Below(x)
  OBVIOUS
<1>3. \A z \in S : ~(z < x)
  <2> SUFFICES ASSUME NEW z \in S, z < x PROVE FALSE
    OBVIOUS
  <2>1. Below(z) \subseteq Below(x) /\ z \in Below(x) /\ z \notin Below(z)
    <3>1. \A y \in S : y < z => y < x
      OBVIOUS
    <3>2. ~(z < z)
      OBVIOUS
    <3> QED BY <3>1, <3>2
  <2>2. Below(z) \in B /\ Below(z) \in SUBSET S /\ Below(x) \in SUBSET S
    OBVIOUS
  <2> HIDE DEF Below, B
  <2> QED BY <1>1, <1>2, <2>1, <2>2 DEF StrictSubsetOrdering
<1>4. \A y \in S : x <= y
  BY <1>3
<1> QED BY <1>4 DEF Min

LEMMA InitIInv == Init => IInv
<1> SUFFICES ASSUME Init PROVE IInv
  OBVIOUS
<1> USE DeparturesAssumption DEF Init
<1>1. TypeOK
  <2>1. job \in [JobIds -> JobRecord]
    BY DEF JobRecord, Subjects, JobStatus
  <2>2. interruptions \in 0..MaxInterruptions
    OBVIOUS
  <2>5. late \subseteq Tickets
    OBVIOUS
  <2>6. raced \in BOOLEAN
    OBVIOUS
  <2>3. /\ service \in [Subjects -> {"scheduled", "cancelled"}]
        /\ ticket \in [Tickets -> {"none", "held", "valid", "returned", "refunded"}]
        /\ paid \in [Tickets -> 0..1]
    OBVIOUS
  <2>4. clerk \in [Clerks -> {"idle", "trip", "coaches"} \union Coaches]
    OBVIOUS
  <2> QED BY <2>1, <2>2, <2>3, <2>4, <2>5, <2>6 DEF TypeOK, JobRecord
<1>2. RefundedOnce /\ Accounts /\ RefundsApart /\ NoneLeft /\ EveryoneIsOwed
  BY DEF RefundedOnce, Accounts, RefundsApart, NoneLeft, EveryoneIsOwed
<1> QED BY <1>1, <1>2 DEF IInv

-----------------------------------------------------------------------------
(* Tickets change hands, and the jobs are left alone.                      *)

LEMMA TicketStep ==
  ASSUME IInv, NEW t \in Tickets, Hold(t) \/ Sell(t) \/ Release(t) \/ Return(t)
  PROVE  IInv'
<1> USE DEF IInv
<1>1. UNCHANGED <<service, paid, job, clerk, interruptions, raced>>
  BY DEF Hold, Sell, Release, Return
<1>2. \A u \in Tickets : u # t => ticket'[u] = ticket[u] /\ (u \in late' <=> u \in late)
  BY DEF Hold, Sell, Release, Return, TypeOK
<1>3. \/ ticket[t] \in {"none", "held"} /\ ticket'[t] \in {"none", "held"}
      \/ ticket[t] = "held" /\ ticket'[t] = "valid"
      \/ ticket[t] = "valid" /\ ticket'[t] = "returned"
  BY DEF Hold, Sell, Release, Return, TypeOK
<1>4. TypeOK'
  <2>1. ticket' \in [Tickets -> {"none", "held", "valid", "returned", "refunded"}]
    BY DEF Hold, Sell, Release, Return, TypeOK
  <2>2. late' \subseteq Tickets
    BY DEF Hold, Sell, Release, Return, TypeOK
  <2> QED BY <1>1, <2>1, <2>2 DEF TypeOK
<1>5. RefundedOnce'
  BY <1>1, <1>2, <1>3 DEF RefundedOnce
<1>6. \A j \in JobIds : \A u \in job[j].owed : u \in Tickets
  BY DEF TypeOK
<1>7. Accounts'
  BY <1>1, <1>2, <1>3, <1>6 DEF Accounts, Aboard
<1>8. RefundsApart'
  BY <1>1 DEF RefundsApart
<1>9. NoneLeft'
  BY <1>1, <1>2, <1>3, <1>6 DEF NoneLeft, Accounts
<1>10. EveryoneIsOwed'
  <2> SUFFICES ASSUME NEW u \in Tickets,
                      ticket'[u] = "valid", u \notin late', ~raced,
                      \E s \in {Trip, CoachOf[u]} : service[s] = "cancelled"
               PROVE  \E j \in JobIds : /\ u \in job[j].owed
                                        /\ job[j].status \in {"queued", "running", "failed"}
    BY <1>1 DEF EveryoneIsOwed
  <2>1. ~(u = t /\ ticket[t] = "held")
    BY DEF Hold, Sell, Release, Return, TypeOK
  <2>2. ticket[u] = "valid" /\ u \notin late
    BY <2>1, <1>2, <1>3
  <2> QED BY <2>2 DEF EveryoneIsOwed
<1> QED BY <1>4, <1>5, <1>7, <1>8, <1>9, <1>10

-----------------------------------------------------------------------------
(* Cancellations.                                                          *)

\* enqueue adds those aboard to a live job of the subject or to a new one.
LEMMA EnqueueRows ==
  ASSUME TypeOK, NEW s \in Subjects, Enqueue(s)
  PROVE  /\ job' \in [JobIds -> JobRecord]
         /\ \A j \in JobIds :
              \/ job'[j] = job[j]
              \/ /\ j \in Live(s)
                 /\ job'[j] = [job[j] EXCEPT !.owed = @ \union Valid(s)]
              \/ /\ job[j].status = "none"
                 /\ job'[j] = [subject |-> s, status |-> "queued", at |-> "start",
                               batch |-> {}, owed |-> Valid(s)]
         /\ \E j \in JobIds : /\ Valid(s) \subseteq job'[j].owed
                              /\ job'[j].status \in {"queued", "running"}
<1> USE DEF JobRecord
<1>1. Valid(s) \subseteq Tickets
  BY DEF Valid, Aboard
<1>2. job \in [JobIds -> JobRecord]
  BY DEF TypeOK
<1>3. CASE Joined(s) # {}
  <2>1. job' = [j \in JobIds |-> IF j \in Live(s)
                                 THEN [job[j] EXCEPT !.owed = @ \union Valid(s)] ELSE job[j]]
    BY <1>3 DEF Enqueue, Joined
  <2>2. \A j \in JobIds : [job[j] EXCEPT !.owed = @ \union Valid(s)] \in JobRecord
    BY <1>1, <1>2
  <2>3. PICK k \in JobIds : k \in Live(s)
    BY <1>3 DEF Joined, Live
  <2>4. Valid(s) \subseteq job'[k].owed /\ job'[k].status \in {"queued", "running"}
    BY <2>1, <2>3, <1>2 DEF Live
  <2> QED BY <2>1, <2>2, <2>4, <1>2
<1>4. CASE Joined(s) = {}
  <2> DEFINE unused == {j \in JobIds : job[j].status = "none"}
             k == Min(unused)
             new == [subject |-> s, status |-> "queued", at |-> "start",
                     batch |-> {}, owed |-> Valid(s)]
  <2>1. unused # {} /\ job' = [job EXCEPT ![k] = new]
    BY <1>4 DEF Enqueue
  <2>2. k \in unused
    BY <2>1, LeastExists, FS_Subset, DeparturesAssumption
  <2>3. new \in JobRecord
    BY <1>1 DEF JobStatus
  <2> HIDE DEF k
  <2>4. k \in JobIds /\ job[k].status = "none"
    BY <2>2
  <2>5. \A j \in JobIds : job'[j] = IF j = k THEN new ELSE job[j]
    BY <2>1, <1>2
  <2>6. Valid(s) \subseteq job'[k].owed /\ job'[k].status \in {"queued", "running"}
    BY <2>4, <2>5
  <2> QED BY <2>1, <2>3, <2>4, <2>5, <2>6, <1>2
<1> QED BY <1>3, <1>4

\* What a cancellation of the train and one of a coach have in common: more is
\* cancelled, the subject among it, and a job accounts for those aboard.
LEMMA CancelStep ==
  ASSUME IInv, NEW s \in Subjects, service[s] # "cancelled", Enqueue(s),
         service' \in [Subjects -> {"scheduled", "cancelled"}], service'[s] = "cancelled",
         \A r \in Subjects : service[r] = "cancelled" => service'[r] = "cancelled",
         \A r \in Subjects : service'[r] # service[r] => s \in {r, Trip},
         UNCHANGED <<ticket, paid, clerk, interruptions, late, raced>>
  PROVE  IInv'
<1> USE DEF IInv
<1> DEFINE Same(j) == job'[j] = job[j]
           Grown(j) == j \in Live(s) /\ job'[j] = [job[j] EXCEPT !.owed = @ \union Valid(s)]
           New(j) == /\ job[j].status = "none"
                     /\ job'[j] = [subject |-> s, status |-> "queued", at |-> "start",
                                   batch |-> {}, owed |-> Valid(s)]
<1>1. /\ job' \in [JobIds -> JobRecord]
      /\ \A j \in JobIds : Same(j) \/ Grown(j) \/ New(j)
      /\ \E j \in JobIds : Valid(s) \subseteq job'[j].owed /\ job'[j].status \in {"queued", "running"}
  BY EnqueueRows
<1>2. \A j \in JobIds : Grown(j) => job'[j] = [job[j] EXCEPT !.owed = job[j].owed \union Valid(s)]
  OBVIOUS
<1>3. job \in [JobIds -> JobRecord]
  BY DEF TypeOK, JobRecord
<1>4. \A j \in JobIds : Grown(j) => /\ job'[j].subject = s /\ job[j].subject = s
                                    /\ job'[j].status = job[j].status
                                    /\ job[j].status \in {"queued", "running"}
                                    /\ job'[j].owed = job[j].owed \union Valid(s)
  BY <1>2, <1>3 DEF Live, JobRecord
<1>5. TypeOK'
  BY <1>1 DEF TypeOK, JobRecord
<1>6. RefundedOnce'
  BY DEF RefundedOnce
<1>7. \A t \in Valid(s) : ticket[t] = "valid" /\ t \in Aboard(s)
  BY DEF Valid
<1>8. \A j \in JobIds : \A t \in job'[j].owed :
        ticket[t] \in {"valid", "returned", "refunded"} /\ t \in Aboard(job'[j].subject)
  <2> SUFFICES ASSUME NEW j \in JobIds, NEW t \in job'[j].owed
               PROVE  /\ ticket[t] \in {"valid", "returned", "refunded"}
                      /\ t \in Aboard(job'[j].subject)
    OBVIOUS
  <2>1. CASE Same(j)
    BY <2>1 DEF Accounts
  <2>2. CASE Grown(j)
    BY <2>2, <1>4, <1>7 DEF Accounts
  <2>3. CASE New(j)
    BY <2>3, <1>7
  <2> QED BY <2>1, <2>2, <2>3, <1>1
<1>9. Accounts'
  BY <1>8 DEF Accounts, Aboard
<1>10. ~raced => Live(s) = {}
  BY DEF RefundsApart, Live
<1>11. RefundsApart'
  <2> SUFFICES ASSUME ~raced, NEW j \in JobIds, job'[j].status \in {"queued", "running"}
               PROVE  service'[job'[j].subject] = "cancelled"
    BY DEF RefundsApart
  <2>1. CASE Same(j)
    BY <2>1, <1>3 DEF RefundsApart, JobRecord
  <2>2. CASE New(j)
    BY <2>2
  <2> QED BY <2>1, <2>2, <1>1, <1>10
<1>12. NoneLeft'
  <2> SUFFICES ASSUME ~raced, NEW j \in JobIds, job'[j].status = "running", job'[j].at = "done"
               PROVE  \A t \in job'[j].owed : ticket[t] # "valid"
    BY DEF NoneLeft
  <2>1. CASE Same(j)
    BY <2>1 DEF NoneLeft
  <2>2. CASE New(j)
    BY <2>2
  <2> QED BY <2>1, <2>2, <1>1, <1>10
<1>13. EveryoneIsOwed'
  <2> SUFFICES ASSUME NEW t \in Tickets, ticket[t] = "valid", t \notin late, ~raced,
                      NEW r \in {Trip, CoachOf[t]}, service'[r] = "cancelled"
               PROVE  \E j \in JobIds : /\ t \in job'[j].owed
                                        /\ job'[j].status \in {"queued", "running", "failed"}
    BY DEF EveryoneIsOwed
  <2>1. r \in Subjects
    BY DeparturesAssumption DEF Subjects
  <2>2. CASE service[r] = "cancelled"
    <3>1. PICK j \in JobIds : t \in job[j].owed /\ job[j].status \in {"queued", "running", "failed"}
      BY <2>2 DEF EveryoneIsOwed
    <3>2. ~New(j)
      BY <3>1
    <3> QED BY <3>1, <3>2, <1>1, <1>4
  <2>3. CASE service[r] # "cancelled"
    <3>1. s \in {r, Trip}
      BY <2>1, <2>3
    <3>2. t \in Valid(s)
      BY <3>1 DEF Valid, Aboard
    <3> QED BY <3>2, <1>1
  <2> QED BY <2>2, <2>3
<1> QED BY <1>5, <1>6, <1>9, <1>11, <1>12, <1>13

-----------------------------------------------------------------------------
(* Reinstatements.                                                         *)

\* Less is cancelled, and whether refunds were under way is noted.
LEMMA ReinstateStep ==
  ASSUME IInv,
         service' \in [Subjects -> {"scheduled", "cancelled"}],
         \A r \in Subjects : service'[r] = "cancelled" => service[r] = "cancelled",
         clerk' \in [Clerks -> {"idle", "trip", "coaches"} \union Coaches],
         raced' \in BOOLEAN, raced => raced',
         ~raced' => service' = service \/ ~RefundsInFlight,
         UNCHANGED <<ticket, paid, job, interruptions, late>>
  PROVE  IInv'
<1> USE DEF IInv
<1>1. TypeOK' /\ RefundedOnce' /\ Accounts' /\ NoneLeft'
  BY DEF TypeOK, RefundedOnce, Accounts, Aboard, NoneLeft
<1>2. ~RefundsInFlight => \A j \in JobIds : job[j].status \notin {"queued", "running"}
  BY DEF RefundsInFlight, Live, TypeOK
<1>3. RefundsApart'
  BY <1>2 DEF RefundsApart
<1>4. EveryoneIsOwed'
  BY DeparturesAssumption DEF EveryoneIsOwed, Subjects
<1> QED BY <1>1, <1>3, <1>4

-----------------------------------------------------------------------------
(* Jobs run.                                                               *)

\* A job goes on without refunding anybody: its account stays, and if it says it is
\* through, nobody on it is left.
LEMMA JobRowStep ==
  ASSUME IInv, NEW j \in JobIds, job' = [job EXCEPT ![j] = job'[j]], job'[j] \in JobRecord,
         job'[j].subject = job[j].subject,
         \/ /\ job'[j].owed = job[j].owed
            /\ job[j].status \in {"queued", "running", "failed"}
            /\ job'[j].status \in {"queued", "running", "failed"}
         \/ /\ job'[j].owed = {} /\ job'[j].status = "succeeded"
            /\ ~raced => \A t \in job[j].owed : ticket[t] # "valid",
         job'[j].status \in {"queued", "running"} =>
            job[j].status \in {"queued", "running"} \/ raced' \/ service[job[j].subject] = "cancelled",
         job'[j].status = "running" /\ job'[j].at = "done" =>
            raced' \/ \A t \in job[j].owed : ticket[t] # "valid",
         raced' \in BOOLEAN, raced => raced', interruptions' \in 0..MaxInterruptions,
         UNCHANGED <<service, ticket, paid, clerk, late>>
  PROVE  IInv'
<1> USE DEF IInv
<1>1. job \in [JobIds -> JobRecord]
  BY DEF TypeOK, JobRecord
<1>2. job' \in [JobIds -> JobRecord] /\ \A i \in JobIds : i # j => job'[i] = job[i]
  BY <1>1
<1>3. TypeOK' /\ RefundedOnce'
  BY <1>2 DEF TypeOK, RefundedOnce, JobRecord
<1>4. \A i \in JobIds : job'[i].subject = job[i].subject /\ job'[i].owed \subseteq job[i].owed
  BY <1>2
<1>5. Accounts'
  BY <1>4 DEF Accounts, Aboard
<1>6. RefundsApart'
  BY <1>2 DEF RefundsApart
<1>7. NoneLeft'
  BY <1>2 DEF NoneLeft
<1>8. EveryoneIsOwed'
  <2> SUFFICES ASSUME NEW t \in Tickets, ticket[t] = "valid", t \notin late, ~raced,
                      \E s \in {Trip, CoachOf[t]} : service[s] = "cancelled"
               PROVE  \E i \in JobIds : /\ t \in job'[i].owed
                                        /\ job'[i].status \in {"queued", "running", "failed"}
    BY DEF EveryoneIsOwed
  <2>1. PICK i \in JobIds : t \in job[i].owed /\ job[i].status \in {"queued", "running", "failed"}
    BY DEF EveryoneIsOwed
  <2> QED BY <2>1, <1>2
<1> QED BY <1>3, <1>5, <1>6, <1>7, <1>8

LEMMA JobStartStep == ASSUME IInv, NEW j \in JobIds, JobStart(j) PROVE IInv'
<1> USE DEF IInv
<1>1. job \in [JobIds -> JobRecord]
  BY DEF TypeOK, JobRecord
<1>2. job'[j] = [job[j] EXCEPT !.status = "running",
                   !.at = IF service[job[j].subject] = "cancelled" THEN "list" ELSE "done"]
  BY <1>1 DEF JobStart
<1>3. job'[j] \in JobRecord /\ job' = [job EXCEPT ![j] = job'[j]]
  <2>1. job'[j] \in JobRecord
    BY <1>1, <1>2 DEF JobRecord, JobStatus
  <2> QED BY <1>1, <2>1 DEF JobStart
<1>4. job'[j].at = "done" => raced
  BY <1>1, <1>2 DEF RefundsApart, JobStart, JobRecord
<1>5. /\ job'[j].subject = job[j].subject /\ job'[j].owed = job[j].owed
      /\ job'[j].status = "running" /\ job[j].status = "queued"
  BY <1>1, <1>2 DEF JobStart, JobRecord
<1>6. UNCHANGED <<service, ticket, paid, clerk, interruptions, late, raced>>
  BY DEF JobStart
<1> QED BY <1>3, <1>4, <1>5, <1>6, JobRowStep DEF TypeOK

\* A batch is empty only when there is no valid ticket left.
LEMMA EmptyListMeansNone ==
  ASSUME NEW s, Listed(s) = {}
  PROVE  Valid(s) = {}
<1> SUFFICES ASSUME Valid(s) # {} PROVE FALSE
  OBVIOUS
<1> DEFINE t == Min(Valid(s))
<1>1. Valid(s) \subseteq Nat /\ IsFiniteSet(Valid(s))
  BY DeparturesAssumption, FS_Subset DEF Valid, Aboard
<1>2. t \in Valid(s) /\ \A u \in Valid(s) : t <= u
  BY <1>1, LeastExists
<1> HIDE DEF t
<1>3. {u \in Valid(s) : u < t} = {}
  BY <1>1, <1>2
<1>4. Cardinality({u \in Valid(s) : u < t}) < Batch
  BY <1>3, FS_EmptySet, DeparturesAssumption
<1> QED BY <1>2, <1>4 DEF Listed

LEMMA JobListStep == ASSUME IInv, NEW j \in JobIds, JobList(j) PROVE IInv'
<1> USE DEF IInv
<1> DEFINE b == Listed(job[j].subject)
<1>1. job \in [JobIds -> JobRecord]
  BY DEF TypeOK, JobRecord
<1>2. job'[j] = [job[j] EXCEPT !.batch = b, !.at = IF b = {} THEN "done" ELSE "refund"]
  BY <1>1 DEF JobList
<1>3. b \subseteq Tickets
  BY DEF Listed, Valid, Aboard
<1>4. job'[j] \in JobRecord /\ job' = [job EXCEPT ![j] = job'[j]]
  BY <1>1, <1>2, <1>3 DEF JobList, JobRecord
<1>5. job'[j].at = "done" => b = {}
  BY <1>1, <1>2 DEF JobRecord
<1>6. ASSUME b = {} PROVE \A t \in job[j].owed : ticket[t] # "valid"
  <2>1. Valid(job[j].subject) = {}
    BY <1>6, EmptyListMeansNone
  <2> QED BY <2>1 DEF Valid, Accounts
<1>7. /\ job'[j].subject = job[j].subject /\ job'[j].owed = job[j].owed
      /\ job'[j].status = "running" /\ job[j].status = "running"
  BY <1>1, <1>2 DEF JobList, JobRecord
<1>8. UNCHANGED <<service, ticket, paid, clerk, interruptions, late, raced>>
  BY DEF JobList
<1> QED BY <1>4, <1>5, <1>6, <1>7, <1>8, JobRowStep DEF TypeOK

\* One ticket of the batch is refunded, or is not owed any more.
LEMMA JobRefundStep == ASSUME IInv, NEW j \in JobIds, JobRefund(j) PROVE IInv'
<1> USE DEF IInv
<1> DEFINE t == Min(job[j].batch)
           rest == job[j].batch \ {t}
<1>1. job \in [JobIds -> JobRecord]
  BY DEF TypeOK, JobRecord
<1>2. /\ job[j].status = "running" /\ job[j].at = "refund"
      /\ ticket' = IF ticket[t] = "valid" THEN [ticket EXCEPT ![t] = "refunded"] ELSE ticket
      /\ paid' = IF ticket[t] = "valid" THEN [paid EXCEPT ![t] = @ + 1] ELSE paid
      /\ job' = [job EXCEPT ![j].batch = rest, ![j].at = AfterBatch(rest)]
      /\ late' = late \ {t}
      /\ UNCHANGED <<service, clerk, interruptions, raced>>
  BY DEF JobRefund, StillOwed
<1>3. AfterBatch(rest) \in {"list", "refund"}
  BY DEF AfterBatch
<1>4. job'[j] = [job[j] EXCEPT !.batch = rest, !.at = AfterBatch(rest)]
  BY <1>1, <1>2
<1>5. rest \subseteq Tickets
  BY <1>1 DEF JobRecord
<1> HIDE DEF t, rest
<1>6. job' \in [JobIds -> JobRecord]
  <2>1. job'[j] \in JobRecord
    BY <1>1, <1>3, <1>4, <1>5 DEF JobRecord
  <2> QED BY <1>1, <1>2, <2>1
<1>7. /\ \A i \in JobIds : /\ job'[i].subject = job[i].subject
                           /\ job'[i].owed = job[i].owed
                           /\ job'[i].status = job[i].status
                           /\ job'[i].at = "done" => job[i].at = "done"
  BY <1>1, <1>2, <1>3, <1>4 DEF JobRecord
<1>8. \A u \in Tickets : /\ u # t \/ ticket[t] # "valid" => ticket'[u] = ticket[u] /\ paid'[u] = paid[u]
                         /\ u = t /\ ticket[t] = "valid" => ticket'[u] = "refunded" /\ paid'[u] = paid[u] + 1
  BY <1>2 DEF TypeOK
<1>9. RefundedOnce'
  BY <1>8 DEF RefundedOnce
<1>10. TypeOK'
  <2>1. ticket' \in [Tickets -> {"none", "held", "valid", "returned", "refunded"}]
    BY <1>2 DEF TypeOK
  <2>2. paid' \in [Tickets -> 0..1]
    <3>1. \A u \in Tickets : paid'[u] \in 0..1
      BY <1>9 DEF RefundedOnce
    <3>2. DOMAIN paid' = Tickets /\ paid' = [u \in Tickets |-> paid'[u]]
      BY <1>2 DEF TypeOK
    <3> QED BY <3>1, <3>2
  <2> QED BY <1>2, <1>6, <2>1, <2>2 DEF TypeOK, JobRecord
<1>11. \A i \in JobIds : \A u \in job[i].owed : u \in Tickets
  BY DEF TypeOK
<1>12. Accounts'
  BY <1>7, <1>8, <1>11 DEF Accounts, Aboard
<1>13. RefundsApart'
  BY <1>2, <1>7 DEF RefundsApart
<1>14. NoneLeft'
  BY <1>2, <1>7, <1>8, <1>11 DEF NoneLeft
<1>15. EveryoneIsOwed'
  <2> SUFFICES ASSUME NEW u \in Tickets, ticket'[u] = "valid", u \notin late', ~raced,
                      \E s \in {Trip, CoachOf[u]} : service[s] = "cancelled"
               PROVE  \E i \in JobIds : /\ u \in job'[i].owed
                                        /\ job'[i].status \in {"queued", "running", "failed"}
    BY <1>2 DEF EveryoneIsOwed
  <2>1. ticket[u] = "valid" /\ u # t
    BY <1>8
  <2>2. u \notin late
    BY <2>1, <1>2
  <2>3. PICK i \in JobIds : u \in job[i].owed /\ job[i].status \in {"queued", "running", "failed"}
    BY <2>1, <2>2 DEF EveryoneIsOwed
  <2> QED BY <2>3, <1>7
<1> QED BY <1>9, <1>10, <1>12, <1>13, <1>14, <1>15

\* The attempt ends without an answer: a refusal, an interruption.
LEMMA JobEndsEarlyStep ==
  ASSUME IInv, NEW j \in JobIds,
         JobRefused(j) \/ \E status \in {"queued", "failed"} : JobInterrupted(j, status)
  PROVE  IInv'
<1> USE DEF IInv
<1>1. job \in [JobIds -> JobRecord]
  BY DEF TypeOK, JobRecord
<1>2. PICK status \in {"queued", "failed"} :
        job' = [job EXCEPT ![j].status = status, ![j].at = "start", ![j].batch = {}]
  BY DEF JobRefused, JobInterrupted
<1>3. job'[j] = [job[j] EXCEPT !.status = status, !.at = "start", !.batch = {}]
  BY <1>1, <1>2
<1>4. job'[j] \in JobRecord /\ job' = [job EXCEPT ![j] = job'[j]]
  <2>1. job'[j] \in JobRecord
    BY <1>1, <1>3 DEF JobRecord, JobStatus
  <2> QED BY <1>1, <1>2, <2>1
<1>5. /\ job'[j].subject = job[j].subject /\ job'[j].owed = job[j].owed
      /\ job'[j].status \in {"queued", "failed"} /\ job[j].status = "running"
  BY <1>1, <1>3 DEF JobRecord, JobRefused, JobInterrupted
<1>6. /\ UNCHANGED <<service, ticket, paid, clerk, late, raced>>
      /\ interruptions' \in 0..MaxInterruptions
  BY DeparturesAssumption DEF JobRefused, JobInterrupted, TypeOK
<1> QED BY <1>4, <1>5, <1>6, JobRowStep DEF TypeOK

LEMMA JobDoneStep == ASSUME IInv, NEW j \in JobIds, JobDone(j) PROVE IInv'
<1> USE DEF IInv
<1>1. job \in [JobIds -> JobRecord]
  BY DEF TypeOK, JobRecord
<1>2. job'[j] = [job[j] EXCEPT !.status = "succeeded", !.at = "start", !.owed = {}]
  BY <1>1 DEF JobDone
<1>3. job'[j] \in JobRecord /\ job' = [job EXCEPT ![j] = job'[j]]
  <2>1. job'[j] \in JobRecord
    BY <1>1, <1>2 DEF JobRecord, JobStatus
  <2> QED BY <1>1, <2>1 DEF JobDone
<1>4. ~raced => \A t \in job[j].owed : ticket[t] # "valid"
  BY DEF NoneLeft, JobDone
<1>5. job'[j].subject = job[j].subject /\ job'[j].owed = {} /\ job'[j].status = "succeeded"
  BY <1>1, <1>2 DEF JobRecord
<1>6. UNCHANGED <<service, ticket, paid, clerk, interruptions, late, raced>>
  BY DEF JobDone
<1> QED BY <1>3, <1>4, <1>5, <1>6, JobRowStep DEF TypeOK

LEMMA JobRetryStep == ASSUME IInv, NEW j \in JobIds, JobRetry(j) PROVE IInv'
<1> USE DEF IInv
<1>1. job \in [JobIds -> JobRecord]
  BY DEF TypeOK, JobRecord
<1>2. job'[j] = [job[j] EXCEPT !.status = "queued"]
  BY <1>1 DEF JobRetry
<1>3. job'[j] \in JobRecord /\ job' = [job EXCEPT ![j] = job'[j]]
  <2>1. job'[j] \in JobRecord
    BY <1>1, <1>2 DEF JobRecord, JobStatus
  <2> QED BY <1>1, <2>1 DEF JobRetry
<1>4. raced' = (raced \/ service[job[j].subject] # "cancelled")
  BY DEF JobRetry
<1>5. raced' \in BOOLEAN /\ (raced => raced')
      /\ (raced' \/ service[job[j].subject] = "cancelled")
  BY <1>4 DEF TypeOK
<1>6. /\ job'[j].subject = job[j].subject /\ job'[j].owed = job[j].owed
      /\ job'[j].status = "queued" /\ job[j].status = "failed"
  BY <1>1, <1>2 DEF JobRecord, JobRetry
<1>7. UNCHANGED <<service, ticket, paid, clerk, interruptions, late>>
  BY DEF JobRetry
<1> QED BY <1>3, <1>5, <1>6, <1>7, JobRowStep DEF TypeOK

-----------------------------------------------------------------------------
LEMMA NextIInv == IInv /\ [Next]_vars => IInv'
<1> SUFFICES ASSUME IInv, [Next]_vars PROVE IInv'
  OBVIOUS
<1>1. CASE UNCHANGED vars
  BY <1>1 DEF vars, IInv, TypeOK, RefundedOnce, Accounts, Aboard, RefundsApart, NoneLeft,
              EveryoneIsOwed
<1>2. CASE \E t \in Tickets : Hold(t) \/ Sell(t) \/ Release(t) \/ Return(t)
  BY <1>2, TicketStep
<1>3. CASE Cancel
  <2>1. Trip \in Subjects
    BY DEF Subjects
  <2>2. /\ service' = [s \in Subjects |-> "cancelled"] /\ service[Trip] # "cancelled"
        /\ Enqueue(Trip) /\ UNCHANGED <<ticket, paid, clerk, interruptions, late, raced>>
    BY <1>3 DEF Cancel
  <2>3. service'[Trip] = "cancelled" /\ service' \in [Subjects -> {"scheduled", "cancelled"}]
    BY <2>1, <2>2
  <2>4. \A r \in Subjects : service'[r] = "cancelled"
    BY <2>2
  <2> QED BY <2>1, <2>2, <2>3, <2>4, CancelStep
<1>4. CASE \E c \in Coaches : CancelCoach(c)
  <2>1. PICK c \in Coaches : CancelCoach(c)
    BY <1>4
  <2>2. c \in Subjects
    BY DEF Subjects
  <2>3. /\ service' = [service EXCEPT ![c] = "cancelled"] /\ service[c] # "cancelled"
        /\ Enqueue(c) /\ UNCHANGED <<ticket, paid, clerk, interruptions, late, raced>>
    BY <2>1 DEF CancelCoach
  <2>4. service'[c] = "cancelled" /\ service' \in [Subjects -> {"scheduled", "cancelled"}]
    BY <2>2, <2>3 DEF IInv, TypeOK
  <2>5. \A r \in Subjects : r # c => service'[r] = service[r]
    BY <2>2, <2>3 DEF IInv, TypeOK
  <2> QED BY <2>2, <2>3, <2>4, <2>5, CancelStep
<1>5. CASE \E k \in Clerks : ReinstateRead(k)
  <2>1. PICK k \in Clerks : ReinstateRead(k)
    BY <1>5
  <2> QED BY <2>1, ReinstateStep DEF ReinstateRead, IInv, TypeOK
<1>6. CASE \E k \in Clerks : ReinstateTrip(k)
  <2>1. PICK k \in Clerks : ReinstateTrip(k)
    BY <1>6
  <2>2. /\ service' \in [Subjects -> {"scheduled", "cancelled"}]
        /\ \A r \in Subjects : service'[r] = "cancelled" => service[r] = "cancelled"
    BY <2>1 DEF ReinstateTrip, IInv, TypeOK
  <2>3. raced' \in BOOLEAN /\ (raced => raced') /\ (~raced' => ~RefundsInFlight)
    BY <2>1 DEF ReinstateTrip, IInv, TypeOK
  <2> QED BY <2>1, <2>2, <2>3, ReinstateStep DEF ReinstateTrip, IInv, TypeOK
<1>7. CASE \E k \in Clerks, dies \in BOOLEAN : ReinstateCoaches(k, dies)
  <2>1. PICK k \in Clerks, dies \in BOOLEAN : ReinstateCoaches(k, dies)
    BY <1>7
  <2>2. /\ service' \in [Subjects -> {"scheduled", "cancelled"}]
        /\ \A r \in Subjects : service'[r] = "cancelled" => service[r] = "cancelled"
    BY <2>1 DEF ReinstateCoaches, IInv, TypeOK
  <2>3. raced' \in BOOLEAN /\ (raced => raced') /\ (~raced' => service' = service \/ ~RefundsInFlight)
    BY <2>1 DEF ReinstateCoaches, IInv, TypeOK
  <2> QED BY <2>1, <2>2, <2>3, ReinstateStep DEF ReinstateCoaches, IInv, TypeOK
<1>8. CASE \E k \in Clerks, c \in Coaches : ReinstateCoachRead(k, c)
  <2>1. PICK k \in Clerks, c \in Coaches : ReinstateCoachRead(k, c)
    BY <1>8
  <2> QED BY <2>1, ReinstateStep DEF ReinstateCoachRead, IInv, TypeOK
<1>9. CASE \E k \in Clerks, c \in Coaches : ReinstateCoach(k, c)
  <2>1. PICK k \in Clerks, c \in Coaches : ReinstateCoach(k, c)
    BY <1>9
  <2>2. /\ service' \in [Subjects -> {"scheduled", "cancelled"}]
        /\ \A r \in Subjects : service'[r] = "cancelled" => service[r] = "cancelled"
    BY <2>1 DEF ReinstateCoach, IInv, TypeOK
  <2>3. raced' \in BOOLEAN /\ (raced => raced') /\ (~raced' => ~RefundsInFlight)
    BY <2>1 DEF ReinstateCoach, IInv, TypeOK
  <2> QED BY <2>1, <2>2, <2>3, ReinstateStep DEF ReinstateCoach, IInv, TypeOK
<1>10. CASE \E j \in JobIds : JobStep(j)
  BY <1>10, JobStartStep, JobListStep, JobRefundStep, JobEndsEarlyStep, JobDoneStep DEF JobStep
<1>11. CASE \E j \in JobIds, status \in {"queued", "failed"} : JobInterrupted(j, status)
  BY <1>11, JobEndsEarlyStep
<1>12. CASE \E j \in JobIds : JobRetry(j)
  BY <1>12, JobRetryStep
<1> QED BY <1>1, <1>2, <1>3, <1>4, <1>5, <1>6, <1>7, <1>8, <1>9, <1>10, <1>11, <1>12 DEF Next

LEMMA SpecIInv == Spec => []IInv
BY InitIInv, NextIInv, PTL DEF Spec

-----------------------------------------------------------------------------
\* Every record keeps its type, and nobody is paid twice by cancellations, for any
\* number of tickets, coaches, jobs and operators (issueForCancellation).
THEOREM SpecTypeOK == Spec => []TypeOK
<1>1. IInv => TypeOK
  BY DEF IInv
<1> QED BY <1>1, SpecIInv, PTL

\* The money for a ticket leaves once, if and only if the ticket is refunded, however
\* the jobs of the train and of its coaches overlap and start over.
THEOREM SpecRefundedOnce == Spec => []RefundedOnce
<1>1. IInv => RefundedOnce
  BY DEF IInv
<1> QED BY <1>1, SpecIInv, PTL

\* Whoever is aboard what is cancelled is on the account of a job that will run, runs,
\* or waits for a person (cancel and enqueue).
THEOREM SpecEveryoneIsOwed == Spec => []EveryoneIsOwed
<1>1. IInv => EveryoneIsOwed
  BY DEF IInv
<1> QED BY <1>1, SpecIInv, PTL

\* A job comes to be succeeded only by a run that is through.
LEMMA SucceedsWhenDone ==
  ASSUME TypeOK, [Next]_vars, NEW j \in JobIds,
         job[j].status = "running", job'[j].status = "succeeded"
  PROVE  job[j].at = "done"
<1>1. job \in [JobIds -> JobRecord]
  BY DEF TypeOK, JobRecord
<1>2. ASSUME job' = job PROVE FALSE
  BY <1>2
<1>3. ASSUME NEW s \in Subjects, Enqueue(s) PROVE FALSE
  <2>1. \/ job'[j] = job[j]
        \/ job'[j] = [job[j] EXCEPT !.owed = @ \union Valid(s)]
        \/ job'[j].status = "queued"
    BY <1>3, EnqueueRows
  <2> QED BY <2>1, <1>1 DEF JobRecord
<1>4. ASSUME NEW i \in JobIds, JobStep(i) PROVE job[j].at = "done"
  <2>1. CASE JobStart(i)
    BY <2>1, <1>1 DEF JobStart, JobRecord
  <2>2. CASE JobList(i)
    BY <2>2, <1>1 DEF JobList, JobRecord
  <2>3. CASE JobRefund(i)
    BY <2>3, <1>1 DEF JobRefund, JobRecord
  <2>4. CASE JobRefused(i)
    BY <2>4, <1>1 DEF JobRefused, JobRecord
  <2>5. CASE JobDone(i)
    BY <2>5, <1>1 DEF JobDone, JobRecord
  <2> QED BY <1>4, <2>1, <2>2, <2>3, <2>4, <2>5 DEF JobStep
<1>5. ASSUME NEW i \in JobIds, NEW status \in {"queued", "failed"}, JobInterrupted(i, status)
      PROVE  FALSE
  BY <1>5, <1>1 DEF JobInterrupted, JobRecord
<1>6. ASSUME NEW i \in JobIds, JobRetry(i) PROVE FALSE
  BY <1>6, <1>1 DEF JobRetry, JobRecord
<1>7. CASE UNCHANGED vars
  BY <1>7, <1>2 DEF vars
<1>8. CASE \E t \in Tickets : Hold(t) \/ Sell(t) \/ Release(t) \/ Return(t)
  BY <1>8, <1>2 DEF Hold, Sell, Release, Return
<1>9. CASE Cancel \/ \E c \in Coaches : CancelCoach(c)
  BY <1>9, <1>3 DEF Cancel, CancelCoach, Subjects
<1>10. CASE \E k \in Clerks : \/ ReinstateRead(k) \/ ReinstateTrip(k)
                              \/ \E dies \in BOOLEAN : ReinstateCoaches(k, dies)
                              \/ \E c \in Coaches : ReinstateCoachRead(k, c) \/ ReinstateCoach(k, c)
  BY <1>10, <1>2 DEF ReinstateRead, ReinstateTrip, ReinstateCoaches, ReinstateCoachRead, ReinstateCoach
<1> QED BY <1>4, <1>5, <1>6, <1>7, <1>8, <1>9, <1>10 DEF Next

\* A run that comes to its end has left nobody of its account, whatever interrupted it
\* or joined it on the way (the handlers in jobs/handlers.js).
THEOREM SpecOwedAreSettled == Spec => OwedAreSettled
<1> DEFINE A == \A j \in JobIds :
       job[j].status = "running" /\ job'[j].status = "succeeded" /\ ~raced
         => \A t \in job[j].owed : ticket[t] # "valid"
<1>1. IInv /\ [Next]_vars => [A]_vars
  <2> SUFFICES ASSUME IInv, [Next]_vars, NEW j \in JobIds,
                      job[j].status = "running", job'[j].status = "succeeded", ~raced
               PROVE  \A t \in job[j].owed : ticket[t] # "valid"
    OBVIOUS
  <2>1. job[j].at = "done"
    BY SucceedsWhenDone DEF IInv
  <2> QED BY <2>1 DEF IInv, NoneLeft
<1> QED BY <1>1, SpecIInv, PTL DEF Spec, OwedAreSettled

-----------------------------------------------------------------------------
(* Waitlist                                                                *)

EndRecords ==
  [person : People, by : {"passenger", "departed", "expiry"}, to : {"closed", "waiting"},
   hold : Holds \union {None}, released : BOOLEAN]
ConfirmRecords == [person : People, hold : Holds, booked : BOOLEAN]
PassRecords ==
  [state : {"idle", "starting", "offering", "restarted"},
   left : SUBSET People, passed : SUBSET People, failed : SUBSET People,
   chosen : BOOLEAN, lost : BOOLEAN, made : Holds \union {None}, tries : Nat, disturbed : BOOLEAN]

\* No seat is in two places: those free and those held are no more than there are.
Seats ==
  /\ free \in Nat /\ held \in [Holds -> 0 .. Capacity]
  /\ free + Cardinality(SeatsOf(Holds)) <= Capacity

\* The types of the entries, and of the calls that work on copies of them.
Copies ==
  /\ due \subseteq Holds /\ entry \in [People -> EntryRecords]
  /\ joining \subseteq People /\ givenUp \subseteq People
  /\ ending \subseteq EndRecords /\ confirming \subseteq ConfirmRecords
  /\ asked \in BOOLEAN /\ pending \in BOOLEAN /\ gone \in BOOLEAN

\* Who waits may be made another offer, and so may whoever the expiry job puts back.
Allowed ==
  /\ \A p \in People : entry[p].status = "none" => entry[p].offers = 0
  /\ \A p \in joining : entry[p].status = "none"
  /\ \A e \in ending : entry[e.person].status # "none"
  /\ \A c \in confirming : entry[c.person].status # "none"
  /\ \A p \in People : Waiting(p) => entry[p].offers < Limit
  /\ \A e \in ending : e.to = "waiting" =>
       /\ e.by = "expiry" /\ entry[e.person].status \in {"offered", "closed"}
       /\ entry[e.person].offers < Limit
  /\ \A e \in ending : \A f \in ending :
       e.by = "expiry" /\ f.by = "expiry" /\ e.person = f.person => e = f

\* Where the running pass has come to.
PassShape ==
  /\ pass \in PassRecords
  /\ pass.state # "offering" => pass.left = {} /\ pass.passed = {}
  /\ pass.chosen \/ pass.made # None => pass.left # {}
  /\ pass.chosen => pass.made = None

\* The hold h is p's: p's entry names it, or a call that has a copy of the entry.
Uses(p, h) ==
  \/ entry[p].hold = h
  \/ \E e \in ending : e.person = p /\ e.hold = h
  \/ \E c \in confirming : c.person = p /\ c.hold = h

\* A hold is one person's, and nobody's before it is claimed.
Unshared ==
  /\ \A h \in Holds : \A p \in People : \A q \in People : Uses(p, h) /\ Uses(q, h) => p = q
  /\ \A p \in People : entry[p].status = "offered" => entry[p].hold \in Holds
  /\ pass.made # None => \A p \in People : ~Uses(p, pass.made)

\* What the pass has made has all the seats of the person whose turn it is, or none
\* any more.
MadeWhole == pass.made # None => held[pass.made] \in {0, Wants[Turn]}

\* Somebody's answer, or a job, has done with the hold of the entry and is to write it.
Done(p) ==
  \/ \E e \in ending : e.person = p /\ e.released
  \/ \E c \in confirming : c.person = p /\ c.booked

Backed ==
  \A p \in People :
    entry[p].status = "offered" /\ entry[p].hold \notin due /\ p \notin givenUp
      => held[entry[p].hold] = Wants[p] \/ Done(p)

\* As long as no seat comes back, there is too little for those passed over, also once
\* the next has been given what there is; or the day is over and nothing is chosen.
TooLittle ==
  ~pass.disturbed =>
    \A q \in pass.passed :
      /\ free < Wants[q] \/ (gone /\ ~pass.chosen /\ pass.made = None)
      /\ pass.made # None => Wants[q] > Wants[Turn]

QueueInv == Seats /\ Copies /\ Allowed /\ PassShape /\ Unshared /\ MadeWhole /\ Backed /\ TooLittle

-----------------------------------------------------------------------------
\* Whose turn it is is one of those left, and the first of them.
LEMMA TurnIsLeft ==
  ASSUME PassShape, pass.left # {}
  PROVE  Turn \in pass.left /\ Turn \in People /\ \A q \in pass.left : Turn <= q
<1>1. pass.left \subseteq People
  BY DEF PassShape, PassRecords
<1>2. IsFiniteSet(1 .. MaxEntries)
  BY FS_Interval, WaitlistAssumption
<1>3. IsFiniteSet(pass.left) /\ pass.left \subseteq Nat
  BY <1>1, <1>2, FS_Subset, WaitlistAssumption DEF People
<1>4. Min(pass.left) \in pass.left /\ \A q \in pass.left : Min(pass.left) <= q
  BY <1>3, LeastExists
<1> QED BY <1>1, <1>4 DEF Turn

\* The pass goes on to the next one: with an offer made, with nothing for this one, after
\* a turn that failed, or with seats come back.
LEMMA NextTurnFields ==
  ASSUME PassShape, pass.left # {},
         NEW new \in {NextTurn, PassOver, FailTurn, [PassOver EXCEPT !.disturbed = TRUE]}
  PROVE  /\ new \in PassRecords /\ new.state = pass.state
         /\ new.chosen = FALSE /\ new.made = None
         /\ new \in {NextTurn, PassOver, FailTurn} => new.disturbed = pass.disturbed
         /\ new \in {NextTurn, FailTurn} => new.passed = pass.passed
         /\ new = PassOver => new.passed = pass.passed \union {Turn}
         /\ [PassOver EXCEPT !.disturbed = TRUE].disturbed = TRUE
<1>1. Turn \in People /\ pass \in PassRecords
  BY TurnIsLeft DEF PassShape
<1> HIDE DEF Turn
<1>2. /\ pass.left \ {Turn} \in SUBSET People
      /\ pass.passed \union {Turn} \in SUBSET People
      /\ pass.failed \union {Turn} \in SUBSET People
  BY <1>1 DEF PassRecords
<1>3. /\ NextTurn \in PassRecords /\ NextTurn.state = pass.state
      /\ NextTurn.chosen = FALSE /\ NextTurn.made = None
      /\ NextTurn.disturbed = pass.disturbed /\ NextTurn.passed = pass.passed
  BY <1>1, <1>2 DEF NextTurn, PassRecords
<1> HIDE DEF NextTurn
<1>4. /\ PassOver \in PassRecords /\ PassOver.state = NextTurn.state
      /\ PassOver.chosen = NextTurn.chosen /\ PassOver.made = NextTurn.made
      /\ PassOver.disturbed = NextTurn.disturbed /\ PassOver.passed = pass.passed \union {Turn}
  BY <1>2, <1>3 DEF PassOver, PassRecords
<1>5. /\ FailTurn \in PassRecords /\ FailTurn.state = NextTurn.state
      /\ FailTurn.chosen = NextTurn.chosen /\ FailTurn.made = NextTurn.made
      /\ FailTurn.disturbed = NextTurn.disturbed /\ FailTurn.passed = NextTurn.passed
  BY <1>2, <1>3 DEF FailTurn, PassRecords
<1> HIDE DEF PassOver, FailTurn
<1> DEFINE back == [PassOver EXCEPT !.disturbed = TRUE]
<1>6. /\ back \in PassRecords /\ back.state = PassOver.state
      /\ back.chosen = PassOver.chosen /\ back.made = PassOver.made
      /\ back.disturbed = TRUE /\ back.passed = PassOver.passed
  BY <1>4 DEF PassRecords
<1> HIDE DEF back
<1>7. /\ new \in PassRecords /\ new.state = pass.state
      /\ new.chosen = FALSE /\ new.made = None
  BY <1>3, <1>4, <1>5, <1>6 DEF back
<1>8. new \in {NextTurn, PassOver, FailTurn} => new.disturbed = pass.disturbed
  BY <1>3, <1>4, <1>5
<1>9. /\ new \in {NextTurn, FailTurn} => new.passed = pass.passed
      /\ new = PassOver => new.passed = pass.passed \union {Turn}
  BY <1>3, <1>4, <1>5
<1> QED BY <1>6, <1>7, <1>8, <1>9 DEF back

-----------------------------------------------------------------------------
LEMMA SeatsOfFinite ==
  ASSUME NEW H, H \subseteq Holds
  PROVE  IsFiniteSet(SeatsOf(H)) /\ Cardinality(SeatsOf(H)) \in Nat
<1>1. IsFiniteSet(1 .. MaxHolds) /\ IsFiniteSet(1 .. Capacity)
  BY FS_Interval, WaitlistAssumption
<1>2. IsFiniteSet(H)
  BY <1>1, FS_Subset DEF Holds
<1>3. IsFiniteSet(H \X (1 .. Capacity))
  BY <1>1, <1>2, FS_Product
<1>4. SeatsOf(H) \in SUBSET (H \X (1 .. Capacity))
  BY DEF SeatsOf
<1>5. IsFiniteSet(SeatsOf(H))
  BY <1>3, <1>4, FS_Subset
<1> QED BY <1>5, FS_CardinalityType

\* The seats of holds that end are no longer held: they are free, or sold.
LEMMA HoldsEnd ==
  ASSUME Seats, NEW H, H \subseteq Holds,
         held' = [h \in Holds |-> IF h \in H THEN 0 ELSE held[h]]
  PROVE  /\ held' \in [Holds -> 0 .. Capacity]
         /\ Cardinality(SeatsOf(Holds)') \in Int
         /\ Cardinality(SeatsOf(Holds)') + Cardinality(SeatsOf(H)) = Cardinality(SeatsOf(Holds))
<1>1. held' \in [Holds -> 0 .. Capacity]
  BY WaitlistAssumption DEF Seats
<1>2. SeatsOf(Holds)' = SeatsOf(Holds) \ SeatsOf(H)
  <2> DEFINE All == Holds \X (1 .. Capacity)
  <2>1. \A s \in All : s[1] \in Holds /\ s[2] \in 1 .. Capacity
    OBVIOUS
  <2>2. SeatsOf(Holds)' = {s \in All : s[2] <= held'[s[1]]}
    BY DEF SeatsOf
  <2>3. SeatsOf(Holds) = {s \in All : s[2] <= held[s[1]]}
    BY DEF SeatsOf
  <2>4. \A s \in All : s \in SeatsOf(H) <=> s[1] \in H /\ s[2] <= held[s[1]]
    BY DEF SeatsOf
  <2>5. \A s \in All : s[2] <= held'[s[1]] <=> s[1] \notin H /\ s[2] <= held[s[1]]
    BY <2>1
  <2> HIDE DEF All
  <2> QED BY <2>2, <2>3, <2>4, <2>5
<1>3. SeatsOf(H) \subseteq SeatsOf(Holds)
  BY DEF SeatsOf
<1>4. IsFiniteSet(SeatsOf(Holds)) /\ Cardinality(SeatsOf(Holds)) \in Nat
      /\ Cardinality(SeatsOf(H)) \in Nat
  BY SeatsOfFinite
<1>5. Cardinality(SeatsOf(Holds) \ SeatsOf(H))
        = Cardinality(SeatsOf(Holds)) - Cardinality(SeatsOf(Holds) \intersect SeatsOf(H))
  BY <1>4, FS_Difference
<1>6. SeatsOf(Holds) \intersect SeatsOf(H) = SeatsOf(H)
  BY <1>3
<1>7. Cardinality(SeatsOf(Holds)') = Cardinality(SeatsOf(Holds)) - Cardinality(SeatsOf(H))
  BY <1>2, <1>5, <1>6
<1> QED BY <1>1, <1>4, <1>7

LEMMA BackStep ==
  ASSUME Seats, NEW H, H \subseteq Holds, GiveSeatsBack(H)
  PROVE  Seats'
<1>1. free' = free + Cardinality(SeatsOf(H))
      /\ held' = [h \in Holds |-> IF h \in H THEN 0 ELSE held[h]]
  BY DEF GiveSeatsBack
<1>2. /\ held' \in [Holds -> 0 .. Capacity]
      /\ Cardinality(SeatsOf(Holds)') \in Int
      /\ Cardinality(SeatsOf(Holds)') + Cardinality(SeatsOf(H)) = Cardinality(SeatsOf(Holds))
  BY <1>1, HoldsEnd
<1>3. free \in Nat /\ free + Cardinality(SeatsOf(Holds)) <= Capacity
  BY DEF Seats
<1>4. Cardinality(SeatsOf(H)) \in Nat /\ Cardinality(SeatsOf(Holds)) \in Nat
  BY SeatsOfFinite
<1>5. free' \in Nat /\ free' + Cardinality(SeatsOf(Holds)') <= Capacity
  BY <1>1, <1>2, <1>3, <1>4, WaitlistAssumption
<1> QED BY <1>2, <1>5 DEF Seats

\* The seats of a hold that is bought are sold.
LEMMA SoldStep ==
  ASSUME Seats, NEW h \in Holds, held' = [held EXCEPT ![h] = 0], UNCHANGED free
  PROVE  Seats'
<1>1. held' = [g \in Holds |-> IF g \in {h} THEN 0 ELSE held[g]]
  BY DEF Seats
<1>2. /\ held' \in [Holds -> 0 .. Capacity]
      /\ Cardinality(SeatsOf(Holds)') \in Int
      /\ Cardinality(SeatsOf(Holds)') + Cardinality(SeatsOf({h})) = Cardinality(SeatsOf(Holds))
  BY <1>1, HoldsEnd
<1>3. free \in Nat /\ free + Cardinality(SeatsOf(Holds)) <= Capacity
  BY DEF Seats
<1>4. Cardinality(SeatsOf({h})) \in Nat /\ Cardinality(SeatsOf(Holds)) \in Nat
  BY SeatsOfFinite
<1>5. free' \in Nat /\ free' + Cardinality(SeatsOf(Holds)') <= Capacity
  BY <1>2, <1>3, <1>4, WaitlistAssumption
<1> QED BY <1>2, <1>5 DEF Seats

\* A pass holds all the seats of the person whose turn it is, of those that are free.
LEMMA HoldFacts ==
  ASSUME Seats, PassShape, NEW h \in Holds, HoldSeats(h)
  PROVE  /\ Turn \in People /\ Wants[Turn] \in Nat \ {0} /\ Got(Turn) = Wants[Turn]
         /\ Wants[Turn] <= free /\ free' = free - Wants[Turn]
         /\ held' = [held EXCEPT ![h] = Wants[Turn]]
         /\ held[h] = 0 /\ h \notin Named
<1>1. pass.left # {} /\ Got(Turn) > 0 /\ free' = free - Got(Turn)
      /\ held' = [held EXCEPT ![h] = Got(Turn)] /\ h \in Unused
  BY DEF HoldSeats, PassShape
<1>2. Turn \in People
  BY <1>1, TurnIsLeft
<1>3. Wants[Turn] \in Nat \ {0}
  BY <1>2, WaitlistAssumption DEF People
<1>4. Got(Turn) = Wants[Turn] /\ free >= Wants[Turn]
  BY <1>1, <1>3 DEF Got
<1>5. held[h] = 0
  BY <1>1, WaitlistAssumption DEF Unused, Active, Seats
<1>6. free \in Nat
  BY DEF Seats
<1> QED BY <1>1, <1>2, <1>3, <1>4, <1>5, <1>6 DEF Unused

LEMMA HoldSeatsSeats ==
  ASSUME Seats, PassShape, NEW h \in Holds, HoldSeats(h)
  PROVE  Seats'
<1> DEFINE n == Wants[Turn]
           New == {h} \X (1 .. n)
<1>1. /\ n \in Nat /\ n <= free /\ free' = free - n /\ held' = [held EXCEPT ![h] = n]
      /\ held[h] = 0
  BY HoldFacts
<1>2. free \in Nat /\ held \in [Holds -> 0 .. Capacity]
      /\ free + Cardinality(SeatsOf(Holds)) <= Capacity
  BY DEF Seats
<1>3. Cardinality(SeatsOf(Holds)) \in Nat /\ IsFiniteSet(SeatsOf(Holds))
  BY SeatsOfFinite
<1> HIDE DEF n
<1>4. n <= Capacity
  BY <1>1, <1>2, <1>3, WaitlistAssumption
<1>5. held' \in [Holds -> 0 .. Capacity]
  BY <1>1, <1>2, <1>4, WaitlistAssumption
<1>6. SeatsOf(Holds)' = SeatsOf(Holds) \union New
  <2> DEFINE All == Holds \X (1 .. Capacity)
  <2>1. \A s \in All : s[1] \in Holds /\ s[2] \in 1 .. Capacity
    OBVIOUS
  <2>2. SeatsOf(Holds)' = {s \in All : s[2] <= held'[s[1]]}
    BY DEF SeatsOf
  <2>3. SeatsOf(Holds) = {s \in All : s[2] <= held[s[1]]}
    BY DEF SeatsOf
  <2>4. New \subseteq All
    BY <1>1, <1>4, WaitlistAssumption
  <2>5. \A s \in All : s \in New <=> s[1] = h /\ s[2] <= n
    BY <1>1, WaitlistAssumption
  <2>6. \A s \in All : s[2] <= held'[s[1]] <=> (s[1] = h /\ s[2] <= n) \/ s[2] <= held[s[1]]
    BY <1>1, <1>2, <2>1
  <2> HIDE DEF All, New
  <2> QED BY <2>2, <2>3, <2>4, <2>5, <2>6
<1>7. SeatsOf(Holds) \intersect New = {}
  BY <1>1 DEF SeatsOf
<1>8. IsFiniteSet(New) /\ Cardinality(New) = n
  <2>1. IsFiniteSet(1 .. n) /\ Cardinality(1 .. n) = n
    BY <1>1, FS_Interval
  <2>2. IsFiniteSet({h}) /\ Cardinality({h}) = 1
    BY FS_Singleton
  <2>3. IsFiniteSet(New) /\ Cardinality(New) = 1 * n
    BY <2>1, <2>2, FS_Product
  <2> QED BY <1>1, <2>3
<1> HIDE DEF New
<1>9. Cardinality(SeatsOf(Holds)') = Cardinality(SeatsOf(Holds)) + n
  <2>1. Cardinality(SeatsOf(Holds) \union New)
          = Cardinality(SeatsOf(Holds)) + Cardinality(New) - Cardinality(SeatsOf(Holds) \intersect New)
    BY <1>3, <1>8, FS_Union
  <2> QED BY <1>1, <1>3, <1>6, <1>7, <1>8, <2>1, FS_EmptySet
<1>10. free' \in Nat /\ free' + Cardinality(SeatsOf(Holds)') <= Capacity
  BY <1>1, <1>2, <1>3, <1>9, WaitlistAssumption
<1> QED BY <1>5, <1>10 DEF Seats

LEMMA StepSeats ==
  ASSUME QueueInv, [WaitlistNext]_waitlistVars
  PROVE  Seats'
<1> USE DEF QueueInv
<1>1. CASE Take
  <2>1. free' = free - 1 /\ free > 0 /\ held' = held
    BY <1>1 DEF Take
  <2>2. SeatsOf(Holds)' = SeatsOf(Holds) /\ Cardinality(SeatsOf(Holds)) \in Nat
    BY <2>1, SeatsOfFinite DEF SeatsOf
  <2> QED BY <2>1, <2>2, WaitlistAssumption DEF Seats
<1>2. CASE GiveBack
  <2>1. free' = free + 1 /\ free + Cardinality(SeatsOf(Holds)) < Capacity /\ held' = held
    BY <1>2 DEF GiveBack
  <2>2. SeatsOf(Holds)' = SeatsOf(Holds) /\ Cardinality(SeatsOf(Holds)) \in Nat
    BY <2>1, SeatsOfFinite DEF SeatsOf
  <2> QED BY <2>1, <2>2, WaitlistAssumption DEF Seats
<1>3. CASE \E h \in Holds : HoldSeats(h)
  BY <1>3, HoldSeatsSeats
<1>4. CASE ClaimLost
  <2>1. pass.made \in Holds /\ GiveSeatsBack({pass.made})
    BY <1>4 DEF ClaimLost, PassShape, PassRecords
  <2> QED BY <2>1, BackStep
<1>5. CASE \E c \in confirming : Book(c)
  <2>1. PICK c \in confirming : Book(c)
    BY <1>5
  <2>2. c.hold \in Holds /\ held' = [held EXCEPT ![c.hold] = 0] /\ free' = free
    BY <2>1 DEF Book, Copies, ConfirmRecords
  <2> QED BY <2>2, SoldStep
<1>6. CASE \E e \in ending : EndRelease(e)
  <2>1. PICK e \in ending : EndRelease(e)
    BY <1>6
  <2>2. CASE e.hold # None /\ Active(e.hold)
    <3>1. e.hold \in Holds /\ GiveSeatsBack({e.hold})
      BY <2>1, <2>2 DEF EndRelease, Copies, EndRecords
    <3> QED BY <3>1, BackStep
  <2>3. CASE ~(e.hold # None /\ Active(e.hold))
    <3>1. UNCHANGED <<free, held>>
      BY <2>1, <2>3 DEF EndRelease
    <3> QED BY <3>1 DEF Seats, SeatsOf
  <2> QED BY <2>2, <2>3
<1>7. CASE ExpireHolds
  <2>1. GiveSeatsBack(Lapsed) /\ Lapsed \subseteq Holds
    BY <1>7 DEF ExpireHolds, Lapsed, Copies
  <2> QED BY <2>1, BackStep
<1>8. CASE \E h \in Holds : ReleaseElsewhere(h)
  <2>1. PICK h \in Holds : GiveSeatsBack({h})
    BY <1>8 DEF ReleaseElsewhere
  <2> QED BY <2>1, BackStep
<1>9. CASE \E h \in Holds : BookElsewhere(h)
  <2>1. PICK h \in Holds : held' = [held EXCEPT ![h] = 0] /\ free' = free
    BY <1>9 DEF BookElsewhere
  <2> QED BY <2>1, SoldStep
<1>10. CASE UNCHANGED <<free, held>>
  BY <1>10 DEF Seats, SeatsOf
<1>11. \/ Take \/ GiveBack \/ ClaimLost \/ ExpireHolds
       \/ \E h \in Holds : HoldSeats(h) \/ ReleaseElsewhere(h) \/ BookElsewhere(h)
       \/ \E c \in confirming : Book(c)
       \/ \E e \in ending : EndRelease(e)
       \/ UNCHANGED <<free, held>>
  BY DEF WaitlistNext, waitlistVars, inventory, PassStep, PassExpiry, Depart, JoinRead, JoinWrite,
         Ask, List, Choose, Skip, LoseSeats, OfferFails, Claim, Finish, ConfirmRead, BookFails,
         ConfirmWrite, Leave, CloseDeparted, ExpireOffers, Start, EndWrite, Crash
<1> QED BY <1>1, <1>2, <1>3, <1>4, <1>5, <1>6, <1>7, <1>8, <1>9, <1>10, <1>11

-----------------------------------------------------------------------------
(* The entries and the copies of them                                      *)

LEMMA JoinSteps ==
  ASSUME QueueInv, NEW p \in People, JoinRead(p) \/ JoinWrite(p)
  PROVE  Copies' /\ Allowed'
<1> USE WaitlistAssumption DEF QueueInv, inventory
<1>1. UNCHANGED <<due, ending, confirming, asked, pending, gone, givenUp>>
  BY DEF JoinRead, JoinWrite
<1>2. entry[p].status = "none" /\ joining \subseteq People /\ entry[p].offers = 0
  BY DEF JoinRead, JoinWrite, Allowed, Copies
<1>3. CASE JoinRead(p)
  <2>1. entry' = entry /\ joining' = joining \union {p}
    BY <1>3 DEF JoinRead
  <2> QED BY <1>1, <1>2, <2>1 DEF Copies, Allowed, Waiting
<1>4. CASE JoinWrite(p)
  <2>1. entry' = [entry EXCEPT ![p].status = "waiting"] /\ joining' = joining \ {p}
    BY <1>4 DEF JoinWrite
  <2>2. entry' \in [People -> EntryRecords]
    BY <2>1 DEF Copies, EntryRecords, OpenStatus
  <2>3. /\ \A q \in People : q # p => entry'[q] = entry[q]
        /\ entry'[p].status = "waiting" /\ entry'[p].offers = 0
    BY <1>2, <2>1 DEF Copies, EntryRecords
  <2>4. Copies'
    BY <1>1, <2>1, <2>2 DEF Copies
  <2>5. \A e \in ending : e.to = "waiting" => e.person # p /\ e.person \in People
    BY <1>2 DEF Allowed, Copies, EndRecords
  <2>6. Allowed'
    <3>1. \A q \in People : entry'[q].status = "none" => entry'[q].offers = 0
      BY <2>3 DEF Allowed
    <3>2. \A q \in joining' : entry'[q].status = "none"
      BY <1>2, <2>1, <2>3 DEF Allowed
    <3>3. \A q \in People : Waiting(q)' => entry'[q].offers < Limit
      BY <2>3 DEF Allowed, Waiting
    <3>4. \A e \in ending' : e.to = "waiting" =>
            /\ e.by = "expiry" /\ entry'[e.person].status \in {"offered", "closed"}
            /\ entry'[e.person].offers < Limit
      BY <1>1, <2>3, <2>5 DEF Allowed
    <3>5. /\ \A e \in ending' : entry'[e.person].status # "none"
          /\ \A c \in confirming' : entry'[c.person].status # "none"
      BY <1>1, <2>3 DEF Allowed, Copies, EndRecords, ConfirmRecords
    <3> QED BY <1>1, <3>1, <3>2, <3>3, <3>4, <3>5 DEF Allowed
  <2> QED BY <2>4, <2>6
<1> QED BY <1>3, <1>4

\* Who waits is made one offer more, of those they may be made.
LEMMA ClaimCopies ==
  ASSUME QueueInv, Claim
  PROVE  /\ Copies' /\ Allowed'
         /\ Turn \in People /\ entry'[Turn].status = "offered" /\ entry'[Turn].hold = pass.made
         /\ \A q \in People : q # Turn => entry'[q] = entry[q]
         /\ pass.made \in Holds /\ Waiting(Turn)
<1> USE WaitlistAssumption DEF QueueInv, calls, inventory
<1>1. /\ pass.made # None /\ Waiting(Turn)
      /\ entry' = [entry EXCEPT ![Turn] = [status |-> "offered", hold |-> pass.made,
                                           offers |-> entry[Turn].offers + 1]]
      /\ UNCHANGED <<due, joining, ending, confirming, asked, pending, gone>>
      /\ givenUp' \in {givenUp \ {Turn}, givenUp \union {Turn}}
  BY DEF Claim
<1>2. Turn \in People /\ pass.made \in Holds
  BY <1>1, TurnIsLeft DEF PassShape, PassRecords
<1> HIDE DEF Turn
<1>3. entry[Turn].offers \in Nat /\ entry[Turn].offers < Limit
  BY <1>1, <1>2 DEF Allowed, Copies, EntryRecords
<1>4. [status |-> "offered", hold |-> pass.made, offers |-> entry[Turn].offers + 1] \in EntryRecords
  BY <1>2, <1>3 DEF EntryRecords, OpenStatus
<1>5. /\ entry' \in [People -> EntryRecords]
      /\ entry'[Turn].status = "offered" /\ entry'[Turn].hold = pass.made
      /\ \A q \in People : q # Turn => entry'[q] = entry[q]
  BY <1>1, <1>2, <1>4 DEF Copies
<1>6. Copies'
  BY <1>1, <1>2, <1>5 DEF Copies
<1>7. Allowed'
  <2>1. \A e \in ending : e.to = "waiting" => e.person # Turn /\ e.person \in People
    BY <1>1 DEF Allowed, Copies, EndRecords, Waiting
  <2>2. Turn \notin joining
    BY <1>1 DEF Allowed, Waiting
  <2>3. \A q \in People : entry'[q].status = "none" => entry'[q].offers = 0
    BY <1>5 DEF Allowed
  <2>4. \A q \in joining' : entry'[q].status = "none"
    BY <1>1, <1>5, <2>2 DEF Allowed, Copies
  <2>5. \A q \in People : Waiting(q)' => entry'[q].offers < Limit
    BY <1>5 DEF Allowed, Waiting
  <2>6. \A e \in ending' : e.to = "waiting" =>
          /\ e.by = "expiry" /\ entry'[e.person].status \in {"offered", "closed"}
          /\ entry'[e.person].offers < Limit
    BY <1>1, <1>5, <2>1 DEF Allowed
  <2>7. /\ \A e \in ending' : entry'[e.person].status # "none"
        /\ \A c \in confirming' : entry'[c.person].status # "none"
    BY <1>1, <1>5 DEF Allowed, Copies, EndRecords, ConfirmRecords
  <2> QED BY <1>1, <2>3, <2>4, <2>5, <2>6, <2>7 DEF Allowed
<1> QED BY <1>1, <1>2, <1>5, <1>6, <1>7

LEMMA ConfirmCopies ==
  ASSUME QueueInv,
         \/ \E p \in People : ConfirmRead(p)
         \/ \E c \in confirming : Book(c) \/ BookFails(c)
  PROVE  /\ Copies' /\ Allowed' /\ UNCHANGED <<entry, ending>>
<1> USE WaitlistAssumption DEF QueueInv
<1>1. /\ UNCHANGED <<entry, joining, ending, asked, pending, gone, givenUp>>
      /\ due' \subseteq due
  BY DEF ConfirmRead, Book, BookFails, StillDue, inventory
<1>2. confirming' \subseteq ConfirmRecords
  <2>1. ASSUME NEW p \in People, ConfirmRead(p) PROVE confirming' \subseteq ConfirmRecords
    <3>1. entry[p].hold \in Holds
      BY <2>1 DEF ConfirmRead, Copies, EntryRecords
    <3>2. confirming' = confirming \union {[person |-> p, hold |-> entry[p].hold, booked |-> FALSE]}
      BY <2>1 DEF ConfirmRead
    <3>3. [person |-> p, hold |-> entry[p].hold, booked |-> FALSE] \in ConfirmRecords
      BY <3>1 DEF ConfirmRecords
    <3> QED BY <3>2, <3>3 DEF Copies
  <2>2. ASSUME NEW c \in confirming, Book(c) PROVE confirming' \subseteq ConfirmRecords
    <3>1. confirming' = (confirming \ {c}) \union {[c EXCEPT !.booked = TRUE]}
      BY <2>2 DEF Book
    <3> QED BY <3>1 DEF Copies, ConfirmRecords
  <2>3. ASSUME NEW c \in confirming, BookFails(c) PROVE confirming' \subseteq ConfirmRecords
    BY <2>3 DEF BookFails, Copies
  <2> QED BY <2>1, <2>2, <2>3
<1>3. Copies'
  BY <1>1, <1>2 DEF Copies
<1>4. \A c \in confirming' : entry[c.person].status # "none"
  <2>1. ASSUME NEW p \in People, ConfirmRead(p), NEW c \in confirming'
        PROVE  entry[c.person].status # "none"
    BY <2>1 DEF ConfirmRead, Allowed
  <2>2. ASSUME NEW d \in confirming, Book(d), NEW c \in confirming'
        PROVE  entry[c.person].status # "none"
    <3>1. [d EXCEPT !.booked = TRUE].person = d.person
      BY DEF Copies, ConfirmRecords
    <3> QED BY <2>2, <3>1 DEF Book, Allowed
  <2>3. ASSUME NEW d \in confirming, BookFails(d), NEW c \in confirming'
        PROVE  entry[c.person].status # "none"
    BY <2>3 DEF BookFails, Allowed
  <2> QED BY <2>1, <2>2, <2>3
<1>5. Allowed'
  BY <1>1, <1>4 DEF Allowed, Waiting
<1> QED BY <1>1, <1>3, <1>5

\* An entry that is closed, as an answer closes it.
LEMMA ConfirmWriteCopies ==
  ASSUME QueueInv, NEW c \in confirming, ConfirmWrite(c)
  PROVE  /\ Copies' /\ Allowed'
         /\ c.person \in People
         /\ entry'[c.person].status = "closed" /\ entry'[c.person].hold = None
         /\ \A q \in People : q # c.person => entry'[q] = entry[q]
<1> USE WaitlistAssumption DEF QueueInv
<1>1. /\ entry' = [entry EXCEPT ![c.person].status = "closed", ![c.person].hold = None]
      /\ UNCHANGED <<joining, ending, asked, pending, gone>>
      /\ confirming' \subseteq confirming /\ due' \subseteq due /\ givenUp' \subseteq givenUp
      /\ c.booked
  BY DEF ConfirmWrite, StillDue
<1>2. c.person \in People
  BY DEF Copies, ConfirmRecords
<1> DEFINE p == c.person
<1> HIDE DEF p
<1>3. /\ entry' \in [People -> EntryRecords]
      /\ entry'[p].status = "closed" /\ entry'[p].hold = None /\ entry'[p].offers = entry[p].offers
      /\ \A q \in People : q # p => entry'[q] = entry[q]
  BY <1>1, <1>2 DEF Copies, EntryRecords, p
<1>4. Copies'
  BY <1>1, <1>3 DEF Copies
<1>5. Allowed'
  <2>1. p \in People
    BY <1>2 DEF p
  <2>2. \A q \in People : entry'[q].status = "none" => entry'[q].offers = 0
    BY <1>3, <2>1 DEF Allowed
  <2>3. \A q \in People : Waiting(q)' => entry'[q].offers < Limit
    BY <1>3, <2>1 DEF Allowed, Waiting
  <2>4. \A e \in ending' : e.to = "waiting" =>
          /\ e.by = "expiry" /\ entry'[e.person].status \in {"offered", "closed"}
          /\ entry'[e.person].offers < Limit
    BY <1>1, <1>3, <2>1 DEF Allowed, Copies, EndRecords
  <2>5. \A q \in joining' : entry'[q].status = "none"
    BY <1>1, <1>3, <2>1 DEF Allowed, Copies, p
  <2>6. /\ \A e \in ending' : entry'[e.person].status # "none"
        /\ \A d \in confirming' : entry'[d.person].status # "none"
    BY <1>1, <1>3 DEF Allowed, Copies, EndRecords, ConfirmRecords
  <2> QED BY <1>1, <2>2, <2>3, <2>4, <2>5, <2>6 DEF Allowed
<1> QED BY <1>2, <1>3, <1>4, <1>5 DEF p

\* A call that will close or requeue an entry works on a copy of the entry as it is.
LEMMA StartCopies ==
  ASSUME QueueInv,
         (\E p \in People : Leave(p)) \/ CloseDeparted \/ ExpireOffers
  PROVE  /\ Copies' /\ Allowed' /\ UNCHANGED <<entry, confirming>>
         /\ \A e \in ending' : e \notin ending =>
              e.person \in People /\ e.hold = entry[e.person].hold
         /\ ending \subseteq ending'
<1> USE WaitlistAssumption DEF QueueInv
<1>1. PICK E : Start(E) /\ \A e \in E :
        /\ e \in EndRecords
        /\ e.person \in People /\ e.hold = entry[e.person].hold
        /\ entry[e.person].status # "none"
        /\ e.to = "waiting" => /\ e.by = "expiry" /\ entry[e.person].status = "offered"
                               /\ entry[e.person].offers < Limit
        /\ e.by = "expiry" => Idle("expiry") /\ \A f \in E : e.person = f.person => e = f
  <2>1. \A p \in People : \A by \in {"passenger", "departed", "expiry"} :
          \A to \in {"closed", "waiting"} :
            /\ Ends(p, by, to) \in EndRecords
            /\ Ends(p, by, to).person = p /\ Ends(p, by, to).hold = entry[p].hold
            /\ Ends(p, by, to).by = by /\ Ends(p, by, to).to = to
    BY DEF Ends, EndRecords, Copies, EntryRecords
  <2> HIDE DEF Ends
  <2>2. ASSUME NEW p \in People, Leave(p)
        PROVE  /\ Start({Ends(p, "passenger", "closed")})
               /\ entry[p].status # "none"
    BY <2>2 DEF Leave, Open, OpenStatus
  <2>3. ASSUME CloseDeparted
        PROVE  Start({Ends(p, "departed", "closed") : p \in {q \in People : Open(q)}})
    BY <2>3 DEF CloseDeparted
  <2>4. \A p \in {q \in People : Open(q)} : entry[p].status # "none"
    BY DEF Open, OpenStatus
  <2>5. ASSUME ExpireOffers
        PROVE  /\ Idle("expiry")
               /\ Start({Ends(p, "expiry", IF MissedEnough(p) THEN "closed" ELSE "waiting") :
                         p \in {q \in People : OfferDue(q)}})
    BY <2>5 DEF ExpireOffers
  <2>6. \A p \in {q \in People : OfferDue(q)} :
          entry[p].status = "offered" /\ (~MissedEnough(p) => entry[p].offers < Limit)
    BY DEF OfferDue, MissedEnough, Copies, EntryRecords
  <2>7. CASE \E p \in People : Leave(p)
    <3>1. PICK p \in People : Leave(p)
      BY <2>7
    <3> DEFINE f == Ends(p, "passenger", "closed")
               E == {f}
    <3>2. /\ f \in EndRecords /\ f.person = p /\ f.hold = entry[p].hold
          /\ f.to = "closed" /\ f.by = "passenger"
      BY <2>1
    <3>3. Start(E) /\ entry[p].status # "none"
      BY <2>2, <3>1
    <3> HIDE DEF f
    <3>4. \A e \in E : e = f
      OBVIOUS
    <3> HIDE DEF E
    <3> QED BY <3>2, <3>3, <3>4
  <2>8. CASE CloseDeparted
    BY <2>1, <2>3, <2>4, <2>8
  <2>9. CASE ExpireOffers
    <3> DEFINE Gets(p) == IF MissedEnough(p) THEN "closed" ELSE "waiting"
               E == {Ends(p, "expiry", Gets(p)) : p \in {q \in People : OfferDue(q)}}
    <3>1. \A p \in People : Gets(p) \in {"closed", "waiting"} /\ (Gets(p) = "waiting" => ~MissedEnough(p))
      OBVIOUS
    <3>2. Start(E) /\ Idle("expiry")
      BY <2>5, <2>9
    <3> HIDE DEF Gets
    <3>3. \A e \in E :
            /\ e \in EndRecords
            /\ e.person \in People /\ e.hold = entry[e.person].hold
            /\ entry[e.person].status = "offered"
            /\ e.by = "expiry"
            /\ e.to = "waiting" => entry[e.person].offers < Limit
            /\ \A f \in E : e.person = f.person => e = f
      BY <2>1, <2>6, <3>1
    <3> HIDE DEF E
    <3> QED BY <3>2, <3>3
  <2> QED BY <2>7, <2>8, <2>9
<1>2. /\ ending' = ending \union E
      /\ UNCHANGED <<due, entry, joining, confirming, asked, pending, gone, givenUp>>
  BY <1>1 DEF Start, inventory
<1>3. Copies'
  BY <1>1, <1>2 DEF Copies
<1>4. \A e \in ending' : \A f \in ending' :
        e.by = "expiry" /\ f.by = "expiry" /\ e.person = f.person => e = f
  BY <1>1, <1>2 DEF Allowed, Idle
<1>5. \A e \in ending' :
        /\ entry'[e.person].status # "none"
        /\ e.to = "waiting" =>
             /\ e.by = "expiry" /\ entry'[e.person].status \in {"offered", "closed"}
             /\ entry'[e.person].offers < Limit
  BY <1>1, <1>2 DEF Allowed
<1>6. Allowed'
  BY <1>2, <1>4, <1>5 DEF Allowed, Waiting
<1> QED BY <1>1, <1>2, <1>3, <1>6

\* The call has the same person and the same hold once it has released it.
LEMMA ReleasedRecord ==
  ASSUME Copies, NEW e \in ending
  PROVE  LET f == [e EXCEPT !.released = TRUE]
         IN  /\ f \in EndRecords /\ f.released
             /\ f.person = e.person /\ f.by = e.by /\ f.to = e.to /\ f.hold = e.hold
BY DEF Copies, EndRecords

LEMMA ReleaseCopies ==
  ASSUME QueueInv, NEW e \in ending, EndRelease(e)
  PROVE  Copies' /\ Allowed' /\ UNCHANGED <<entry, confirming, givenUp>>
<1> USE WaitlistAssumption DEF QueueInv
<1> DEFINE f == [e EXCEPT !.released = TRUE]
<1>1. /\ f \in EndRecords /\ f.released
      /\ f.person = e.person /\ f.by = e.by /\ f.to = e.to /\ f.hold = e.hold
  BY ReleasedRecord
<1>2. /\ ending' = (ending \ {e}) \union {f}
      /\ UNCHANGED <<entry, joining, confirming, pending, gone, givenUp>>
      /\ due' \subseteq due /\ asked' \in BOOLEAN
  BY DEF EndRelease, StillDue, GiveSeatsBack, Copies
<1> HIDE DEF f
<1>3. Copies'
  BY <1>1, <1>2 DEF Copies
<1>4. \A d \in ending' : d = f \/ (d \in ending /\ d # e)
  BY <1>2
<1>5. \A d \in ending' :
        /\ entry'[d.person].status # "none"
        /\ d.to = "waiting" =>
             /\ d.by = "expiry" /\ entry'[d.person].status \in {"offered", "closed"}
             /\ entry'[d.person].offers < Limit
  BY <1>1, <1>2, <1>4 DEF Allowed
<1>6. \A c \in ending' : \A d \in ending' :
        c.by = "expiry" /\ d.by = "expiry" /\ c.person = d.person => c = d
  BY <1>1, <1>4 DEF Allowed
<1>7. Allowed'
  BY <1>2, <1>5, <1>6 DEF Allowed, Waiting
<1> QED BY <1>2, <1>3, <1>7

\* The entry is written as the call's copy has it; nobody else's is.
LEMMA EndWriteCopies ==
  ASSUME QueueInv, NEW e \in ending, EndWrite(e)
  PROVE  /\ Copies' /\ Allowed'
         /\ e.person \in People
         /\ entry'[e.person].status \in {"closed", "waiting"}
         /\ entry'[e.person].hold \in {entry[e.person].hold, None}
         /\ \A q \in People : q # e.person => entry'[q] = entry[q]
         /\ UNCHANGED <<confirming, free, held>> /\ ending' = ending \ {e} /\ givenUp' = givenUp \ {e.person}
         /\ due' \subseteq due
<1> USE WaitlistAssumption DEF QueueInv
<1> DEFINE p == e.person
<1>1. /\ entry' = [entry EXCEPT ![p].status = e.to,
                                ![p].hold = IF e.hold = None THEN @ ELSE None]
      /\ UNCHANGED <<free, held, joining, confirming, pending, gone>>
      /\ ending' = ending \ {e} /\ givenUp' = givenUp \ {p} /\ due' \subseteq due
      /\ asked' = (asked \/ (e.hold # None /\ e.by # "departed"))
  BY DEF EndWrite, StillDue
<1>2. p \in People /\ e.to \in {"closed", "waiting"} /\ asked' \in BOOLEAN
  BY <1>1 DEF Copies, EndRecords
<1> HIDE DEF p
<1>3. /\ entry' \in [People -> EntryRecords]
      /\ entry'[p].status = e.to /\ entry'[p].hold \in {entry[p].hold, None}
      /\ entry'[p].offers = entry[p].offers
      /\ \A q \in People : q # p => entry'[q] = entry[q]
  BY <1>1, <1>2 DEF Copies, EntryRecords, OpenStatus
<1>4. Copies'
  BY <1>1, <1>2, <1>3 DEF Copies
<1>5. Allowed'
  <2>1. \A q \in People : entry'[q].status = "none" => entry'[q].offers = 0
    BY <1>2, <1>3 DEF Allowed
  <2>2. \A q \in joining' : entry'[q].status = "none"
    BY <1>1, <1>3 DEF Allowed, Copies, p
  <2>3. \A q \in People : Waiting(q)' => entry'[q].offers < Limit
    BY <1>3 DEF Allowed, Waiting, p
  <2>4. /\ \A d \in ending' : entry'[d.person].status # "none"
        /\ \A c \in confirming' : entry'[c.person].status # "none"
    BY <1>1, <1>2, <1>3 DEF Allowed, Copies, EndRecords, ConfirmRecords
  <2>5. ASSUME NEW d \in ending', d.to = "waiting"
        PROVE  /\ d.by = "expiry" /\ entry'[d.person].status \in {"offered", "closed"}
               /\ entry'[d.person].offers < Limit
    <3>1. d \in ending /\ d # e /\ d.person \in People
      BY <1>1, <2>5 DEF Copies, EndRecords
    <3>2. d.person = p => e.to = "closed"
      BY <1>2, <2>5, <3>1 DEF Allowed, p
    <3> QED BY <1>3, <2>5, <3>1, <3>2 DEF Allowed
  <2>6. \A c \in ending' : \A d \in ending' :
          c.by = "expiry" /\ d.by = "expiry" /\ c.person = d.person => c = d
    BY <1>1 DEF Allowed
  <2> QED BY <1>1, <2>1, <2>2, <2>3, <2>4, <2>5, <2>6 DEF Allowed
<1> QED BY <1>1, <1>2, <1>3, <1>4, <1>5 DEF p

\* A restart loses the calls, and the rows stay.
LEMMA CrashCopies ==
  ASSUME QueueInv, Crash
  PROVE  /\ Copies' /\ Allowed' /\ UNCHANGED <<free, held, due, entry, gone>>
         /\ ending' = {} /\ confirming' = {}
         /\ pass' = [NoPass EXCEPT !.state = "restarted"]
         /\ givenUp' = givenUp \union {p \in People : entry[p].status = "offered" /\ Answering(p)}
<1>1. /\ UNCHANGED <<free, held, due, entry, gone>>
      /\ joining' = {} /\ ending' = {} /\ confirming' = {} /\ asked' = FALSE /\ pending' = FALSE
      /\ pass' = [NoPass EXCEPT !.state = "restarted"]
      /\ givenUp' = givenUp \union {p \in People : entry[p].status = "offered" /\ Answering(p)}
  BY DEF Crash, inventory
<1>2. Copies'
  BY <1>1 DEF QueueInv, Copies
<1>3. Allowed'
  BY <1>1 DEF QueueInv, Allowed, Waiting
<1> QED BY <1>1, <1>2, <1>3

\* The steps that leave the entries and the copies of them alone.
QuietStep ==
  \/ Take \/ GiveBack \/ Depart
  \/ \E h \in Holds : PassExpiry(h) \/ HoldSeats(h) \/ ReleaseElsewhere(h) \/ BookElsewhere(h)
  \/ Ask \/ List \/ Choose \/ Skip \/ LoseSeats \/ OfferFails \/ ClaimLost \/ Finish \/ ExpireHolds
  \/ UNCHANGED waitlistVars

LEMMA QuietCopies ==
  ASSUME QueueInv, QuietStep
  PROVE  Copies' /\ Allowed' /\ UNCHANGED <<entry, ending, confirming>>
<1> USE DEF QueueInv
<1>1. UNCHANGED <<entry, joining, ending, confirming>>
  BY DEF QuietStep, Take, GiveBack, Depart, PassExpiry, HoldSeats, ReleaseElsewhere, BookElsewhere,
         Ask, List, Choose, Skip, LoseSeats, OfferFails, ClaimLost, Finish, ExpireHolds, waitlistVars, calls
<1>2. /\ due' \subseteq Holds
      /\ givenUp' \subseteq People
  BY DEF Copies, OfferedWith, StillDue, inventory,
         QuietStep, Take, GiveBack, Depart, PassExpiry, HoldSeats, ReleaseElsewhere, BookElsewhere,
         Ask, List, Choose, Skip, LoseSeats, OfferFails, ClaimLost, Finish, ExpireHolds, waitlistVars
<1>3. asked' \in BOOLEAN /\ pending' \in BOOLEAN /\ gone' \in BOOLEAN
  BY DEF Copies, GiveSeatsBack, Chains,
         QuietStep, Take, GiveBack, Depart, PassExpiry, HoldSeats, ReleaseElsewhere, BookElsewhere,
         Ask, List, Choose, Skip, LoseSeats, OfferFails, ClaimLost, Finish, ExpireHolds, waitlistVars
<1>4. Copies'
  BY <1>1, <1>2, <1>3 DEF Copies
<1>5. Allowed'
  BY <1>1 DEF Allowed, Waiting
<1> QED BY <1>1, <1>4, <1>5

\* Every step is one of these.
LEMMA StepCases ==
  ASSUME [WaitlistNext]_waitlistVars
  PROVE  \/ QuietStep
         \/ \E p \in People : JoinRead(p) \/ JoinWrite(p)
         \/ Claim
         \/ (\E p \in People : ConfirmRead(p)) \/ \E c \in confirming : Book(c) \/ BookFails(c)
         \/ \E c \in confirming : ConfirmWrite(c)
         \/ (\E p \in People : Leave(p)) \/ CloseDeparted \/ ExpireOffers
         \/ \E e \in ending : EndRelease(e)
         \/ \E e \in ending : EndWrite(e)
         \/ Crash
BY DEF WaitlistNext, PassStep, QuietStep

LEMMA StepCopies ==
  ASSUME QueueInv, [WaitlistNext]_waitlistVars
  PROVE  Copies' /\ Allowed'
BY StepCases, QuietCopies, JoinSteps, ClaimCopies, ConfirmCopies, ConfirmWriteCopies, StartCopies,
   ReleaseCopies, EndWriteCopies, CrashCopies

-----------------------------------------------------------------------------
(* The running pass                                                        *)

LEMMA NoPassShape ==
  ASSUME NEW s \in {"idle", "starting", "restarted"}
  PROVE  LET new == [NoPass EXCEPT !.state = s]
         IN  /\ new \in PassRecords /\ new.state = s /\ new.left = {} /\ new.passed = {}
             /\ new.chosen = FALSE /\ new.made = None /\ new.disturbed = FALSE
             /\ NoPass \in PassRecords /\ NoPass.state = "idle" /\ NoPass.left = {}
             /\ NoPass.passed = {} /\ NoPass.chosen = FALSE /\ NoPass.made = None
BY DEF NoPass, PassRecords

\* What a step does to the pass: nothing but marks, or one of its own steps.
PassMarked ==
  /\ pass' \in PassRecords
  /\ pass'.state = pass.state /\ pass'.left = pass.left /\ pass'.passed = pass.passed
  /\ pass'.chosen = pass.chosen /\ pass'.made = pass.made
  /\ pass.state = "offering" /\ pass.disturbed => pass'.disturbed

PassEnds ==
  /\ pass' \in PassRecords /\ pass'.left = {} /\ pass'.passed = {}
  /\ pass'.chosen = FALSE /\ pass'.made = None

LEMMA MarkedBy ==
  ASSUME PassShape
  PROVE  /\ pass' = pass => PassMarked
         /\ pass' = Disturbed => PassMarked /\ (pass.state = "offering" => pass'.disturbed)
         /\ \A b \in BOOLEAN : pass' = [pass EXCEPT !.lost = b] => PassMarked
<1>1. pass' = pass => PassMarked
  BY DEF PassMarked, PassShape
<1>2. pass' = Disturbed => PassMarked /\ (pass.state = "offering" => pass'.disturbed)
  BY DEF PassMarked, PassShape, Disturbed, PassRecords
<1>3. ASSUME NEW b \in BOOLEAN, pass' = [pass EXCEPT !.lost = b] PROVE PassMarked
  BY <1>3 DEF PassMarked, PassShape, PassRecords
<1> QED BY <1>1, <1>2, <1>3

\* The steps that only mark the pass.
LEMMA MarkingSteps ==
  ASSUME QueueInv,
         \/ Take \/ GiveBack \/ Depart \/ ExpireHolds \/ UNCHANGED waitlistVars
         \/ \E h \in Holds : PassExpiry(h) \/ ReleaseElsewhere(h) \/ BookElsewhere(h)
         \/ \E p \in People : JoinRead(p) \/ JoinWrite(p) \/ ConfirmRead(p) \/ Leave(p)
         \/ \E c \in confirming : Book(c) \/ BookFails(c) \/ ConfirmWrite(c)
         \/ CloseDeparted \/ ExpireOffers
         \/ \E e \in ending : EndRelease(e) \/ EndWrite(e)
  PROVE  PassMarked
<1> USE DEF QueueInv
<1>1. pass.chosen \in BOOLEAN
  BY DEF PassShape, PassRecords
<1>2. pass' = pass \/ pass' = Disturbed \/ pass' = [pass EXCEPT !.lost = pass.chosen]
  BY DEF Take, GiveBack, Depart, ExpireHolds, waitlistVars, PassExpiry, ReleaseElsewhere,
         BookElsewhere, JoinRead, JoinWrite, ConfirmRead, Leave, Start, Book, BookFails,
         ConfirmWrite, CloseDeparted, ExpireOffers, EndRelease, EndWrite
<1> QED BY <1>1, <1>2, MarkedBy

\* A new pass is asked for while none runs, the running one ends, or a restart loses it.
LEMMA OverSteps ==
  ASSUME QueueInv, Ask \/ Finish \/ Crash
  PROVE  PassMarked \/ PassEnds
<1> USE DEF QueueInv
<1>1. \/ pass' = pass \/ pass' = NoPass
      \/ pass' = [NoPass EXCEPT !.state = "starting"] \/ pass' = [NoPass EXCEPT !.state = "restarted"]
  BY DEF Ask, Finish, Crash
<1>2. CASE pass' = pass
  BY <1>2, MarkedBy
<1>3. CASE pass' # pass
  BY <1>1, <1>3, NoPassShape DEF PassEnds
<1> QED BY <1>2, <1>3

\* It comes to the next one: without an offer made, or with one.
Onward ==
  /\ pass.left # {} /\ pass.state = "offering"
  /\ pass' \in PassRecords /\ pass'.state = pass.state
  /\ pass'.chosen = FALSE /\ pass'.made = None

LEMMA OnwardSteps ==
  ASSUME QueueInv,
         Skip \/ (LoseSeats /\ ~(pass.tries + 1 < MaxAttempts)) \/ OfferFails \/ Claim \/ ClaimLost
  PROVE  /\ Onward
         /\ ClaimLost => pass'.disturbed
         /\ ~ClaimLost => pass'.disturbed = pass.disturbed
         /\ pass'.passed # pass.passed /\ ~ClaimLost =>
              Skip /\ pass'.passed = pass.passed \union {Turn}
<1> USE DEF QueueInv
<1>1. pass.left # {} /\ pass.state = "offering"
  BY DEF Skip, Looking, LoseSeats, OfferFails, Claim, ClaimLost, PassShape
<1>2. CASE Skip
  <2>1. pass' = PassOver
    BY <1>2 DEF Skip
  <2>2. ~ClaimLost
    BY <1>2 DEF Skip, Looking, ClaimLost
  <2> HIDE DEF PassOver
  <2> QED BY <1>1, <1>2, <2>1, <2>2, NextTurnFields DEF Onward
<1>3. CASE Claim
  <2>1. pass' = NextTurn
    BY <1>3 DEF Claim
  <2>2. ~ClaimLost
    BY <1>3 DEF Claim, ClaimLost
  <2> HIDE DEF NextTurn
  <2> QED BY <1>1, <2>1, <2>2, NextTurnFields DEF Onward
<1>4. CASE (LoseSeats /\ ~(pass.tries + 1 < MaxAttempts)) \/ OfferFails
  <2>1. pass' = FailTurn
    BY <1>4 DEF LoseSeats, OfferFails
  <2>2. ClaimLost => pass' = [PassOver EXCEPT !.disturbed = TRUE]
    BY DEF ClaimLost
  <2> HIDE DEF FailTurn, PassOver
  <2> QED BY <1>1, <2>1, <2>2, NextTurnFields DEF Onward
<1>5. CASE ClaimLost
  <2>1. pass' = [PassOver EXCEPT !.disturbed = TRUE]
    BY <1>5 DEF ClaimLost
  <2> HIDE DEF PassOver
  <2> QED BY <1>1, <1>5, <2>1, NextTurnFields DEF Onward
<1> QED BY <1>2, <1>3, <1>4, <1>5

\* It stays with the same one, and has chosen seats, lost the choice or held them.
LEMMA ListStep ==
  ASSUME QueueInv, List
  PROVE  /\ pass' \in PassRecords /\ pass'.state = "offering" /\ pass'.passed = {}
         /\ pass'.chosen = FALSE /\ pass'.made = None
<1>1. {p \in People : Waiting(p)} \in SUBSET People
  OBVIOUS
<1>2. pass' = [pass EXCEPT !.state = "offering", !.left = {p \in People : Waiting(p)}]
      /\ pass.state = "starting"
  BY DEF List
<1> QED BY <1>1, <1>2 DEF QueueInv, PassShape, PassRecords

LEMMA StayingSteps ==
  ASSUME QueueInv,
         \/ Choose
         \/ LoseSeats /\ pass.tries + 1 < MaxAttempts
         \/ \E h \in Holds : HoldSeats(h)
  PROVE  /\ pass' \in PassRecords /\ pass'.state = pass.state /\ pass.state = "offering"
         /\ pass.left # {} /\ pass'.left = pass.left /\ pass'.passed = pass.passed
         /\ pass'.disturbed = pass.disturbed
         /\ Choose => pass'.chosen = TRUE /\ pass'.made = None
         /\ LoseSeats => pass'.chosen = FALSE /\ pass'.made = None
         /\ \A h \in Holds : HoldSeats(h) => pass'.chosen = FALSE /\ pass'.made = h
<1> USE DEF QueueInv
<1>1. CASE Choose
  <2>1. ~LoseSeats /\ \A h \in Holds : ~HoldSeats(h)
    BY <1>1 DEF Choose, Looking, LoseSeats, HoldSeats
  <2>2. pass' = [pass EXCEPT !.chosen = TRUE] /\ Looking
    BY <1>1 DEF Choose
  <2> QED BY <1>1, <2>1, <2>2 DEF Looking, PassShape, PassRecords
<1>2. CASE LoseSeats /\ pass.tries + 1 < MaxAttempts
  <2>1. ~Choose
    BY <1>2 DEF Choose, Looking, LoseSeats
  <2>2. pass' = [pass EXCEPT !.chosen = FALSE, !.lost = FALSE, !.tries = pass.tries + 1]
        /\ pass.chosen /\ UNCHANGED free
    BY <1>2 DEF LoseSeats, inventory
  <2>3. \A h \in Holds : ~HoldSeats(h)
    BY <2>2, HoldFacts DEF Seats
  <2>4. pass \in PassRecords /\ pass.left # {} /\ pass.state = "offering" /\ pass.made = None
    BY <2>2 DEF PassShape
  <2> DEFINE t == pass.tries + 1
  <2>5. t \in Nat /\ pass' = [pass EXCEPT !.chosen = FALSE, !.lost = FALSE, !.tries = t]
    BY <2>2, <2>4 DEF PassRecords
  <2> HIDE DEF t
  <2>6. /\ pass' \in PassRecords /\ pass'.state = pass.state
        /\ pass'.left = pass.left /\ pass'.passed = pass.passed
        /\ pass'.disturbed = pass.disturbed /\ pass'.chosen = FALSE /\ pass'.made = pass.made
    BY <2>4, <2>5 DEF PassRecords
  <2> QED BY <1>2, <2>1, <2>3, <2>4, <2>6
<1>3. ASSUME NEW h \in Holds, HoldSeats(h)
      PROVE  /\ pass' \in PassRecords /\ pass'.state = pass.state /\ pass.state = "offering"
             /\ pass.left # {} /\ pass'.left = pass.left /\ pass'.passed = pass.passed
             /\ pass'.disturbed = pass.disturbed
             /\ pass'.chosen = FALSE /\ pass'.made = h /\ ~Choose /\ ~LoseSeats
  <2>1. ~Choose
    BY <1>3 DEF Choose, Looking, HoldSeats
  <2>2. pass' = [pass EXCEPT !.chosen = FALSE, !.lost = FALSE, !.made = h] /\ pass.chosen
    BY <1>3 DEF HoldSeats
  <2>3. ~LoseSeats
    BY <1>3, HoldFacts DEF LoseSeats, Seats, inventory
  <2> QED BY <2>1, <2>2, <2>3 DEF PassShape, PassRecords
<1> QED BY <1>1, <1>2, <1>3

\* What a step may do to the pass, all told.
LEMMA PassCases ==
  ASSUME [WaitlistNext]_waitlistVars
  PROVE  \/ \/ Take \/ GiveBack \/ Depart \/ ExpireHolds \/ UNCHANGED waitlistVars
            \/ \E h \in Holds : PassExpiry(h) \/ ReleaseElsewhere(h) \/ BookElsewhere(h)
            \/ \E p \in People : JoinRead(p) \/ JoinWrite(p) \/ ConfirmRead(p) \/ Leave(p)
            \/ \E c \in confirming : Book(c) \/ BookFails(c) \/ ConfirmWrite(c)
            \/ CloseDeparted \/ ExpireOffers
            \/ \E e \in ending : EndRelease(e) \/ EndWrite(e)
         \/ Ask \/ Finish \/ Crash
         \/ Skip \/ (LoseSeats /\ ~(pass.tries + 1 < MaxAttempts)) \/ OfferFails \/ Claim \/ ClaimLost
         \/ List
         \/ \/ Choose
            \/ LoseSeats /\ pass.tries + 1 < MaxAttempts
            \/ \E h \in Holds : HoldSeats(h)
BY DEF WaitlistNext, PassStep

LEMMA StepPassShape ==
  ASSUME QueueInv, [WaitlistNext]_waitlistVars
  PROVE  PassShape'
<1>1. CASE PassMarked
  BY <1>1 DEF PassMarked, QueueInv, PassShape
<1>2. CASE PassEnds
  BY <1>2 DEF PassEnds, PassShape
<1>3. CASE Onward
  BY <1>3 DEF Onward, PassShape
<1>4. CASE List
  BY <1>4, ListStep DEF PassShape
<1>5. CASE \/ Choose
           \/ LoseSeats /\ pass.tries + 1 < MaxAttempts
           \/ \E h \in Holds : HoldSeats(h)
  BY <1>5, StayingSteps DEF PassShape
<1> QED BY PassCases, MarkingSteps, OverSteps, OnwardSteps, <1>1, <1>2, <1>3, <1>4, <1>5

-----------------------------------------------------------------------------
(* Whose a hold is                                                         *)

\* A pass apart, nobody comes to an offer, or to a hold that was not theirs.
LEMMA NoNewUse ==
  ASSUME QueueInv, [WaitlistNext]_waitlistVars, ~Claim
  PROVE  /\ \A p \in People : entry'[p].status = "offered" => entry'[p] = entry[p]
         /\ \A p \in People : \A h \in Holds : Uses(p, h)' => Uses(p, h)
<1> USE DEF QueueInv
<1>0. None \notin Holds
  BY WaitlistAssumption DEF None, Holds
<1>1. CASE QuietStep
  BY <1>1, QuietCopies DEF Uses
<1>2. CASE \E p \in People : JoinRead(p) \/ JoinWrite(p)
  <2>1. PICK p \in People : JoinRead(p) \/ JoinWrite(p)
    BY <1>2
  <2>2. UNCHANGED <<ending, confirming>>
    BY <2>1 DEF JoinRead, JoinWrite
  <2>3. entry' = entry \/ entry' = [entry EXCEPT ![p].status = "waiting"]
    BY <2>1 DEF JoinRead, JoinWrite
  <2>4. \A q \in People : entry'[q].hold = entry[q].hold
                          /\ (entry'[q].status = "offered" => entry'[q] = entry[q])
    BY <2>3 DEF Copies, EntryRecords
  <2> QED BY <2>2, <2>4 DEF Uses
<1>3. CASE (\E p \in People : ConfirmRead(p)) \/ \E c \in confirming : Book(c) \/ BookFails(c)
  <2>1. UNCHANGED <<entry, ending>>
    BY <1>3, ConfirmCopies
  <2>2. ASSUME NEW c \in confirming'
        PROVE  \/ \E d \in confirming : d.person = c.person /\ d.hold = c.hold
               \/ c.person \in People /\ c.hold = entry[c.person].hold
    <3>1. ASSUME NEW p \in People, ConfirmRead(p)
          PROVE  c \in confirming \/ (c.person = p /\ c.hold = entry[p].hold)
      BY <3>1 DEF ConfirmRead
    <3>2. ASSUME NEW d \in confirming, Book(d)
          PROVE  c \in confirming \/ (c.person = d.person /\ c.hold = d.hold)
      BY <3>2 DEF Book, Copies, ConfirmRecords
    <3>3. ASSUME NEW d \in confirming, BookFails(d)
          PROVE  c \in confirming
      BY <3>3 DEF BookFails
    <3> QED BY <1>3, <3>1, <3>2, <3>3
  <2> QED BY <2>1, <2>2 DEF Uses
<1>4. CASE \E c \in confirming : ConfirmWrite(c)
  <2>1. PICK c \in confirming : ConfirmWrite(c)
    BY <1>4
  <2>2. ending' = ending /\ confirming' \subseteq confirming
    BY <2>1 DEF ConfirmWrite
  <2>3. \A q \in People : /\ entry'[q].hold \in {entry[q].hold, None}
                          /\ entry'[q].status = "offered" => entry'[q] = entry[q]
    BY <2>1, ConfirmWriteCopies
  <2> QED BY <1>0, <2>2, <2>3 DEF Uses
<1>5. CASE (\E p \in People : Leave(p)) \/ CloseDeparted \/ ExpireOffers
  <2>1. UNCHANGED <<entry, confirming>>
        /\ \A e \in ending' : e \notin ending =>
             e.person \in People /\ e.hold = entry[e.person].hold
    BY <1>5, StartCopies
  <2> QED BY <2>1 DEF Uses
<1>6. CASE \E e \in ending : EndRelease(e)
  <2>1. PICK e \in ending : EndRelease(e)
    BY <1>6
  <2> DEFINE f == [e EXCEPT !.released = TRUE]
  <2>2. f.person = e.person /\ f.hold = e.hold
    BY ReleasedRecord
  <2>3. ending' = (ending \ {e}) \union {f} /\ UNCHANGED <<entry, confirming>>
    BY <2>1 DEF EndRelease
  <2> HIDE DEF f
  <2>4. \A d \in ending' : \E g \in ending : g.person = d.person /\ g.hold = d.hold
    BY <2>2, <2>3
  <2> QED BY <2>3, <2>4 DEF Uses
<1>7. CASE \E e \in ending : EndWrite(e)
  <2>1. PICK e \in ending : EndWrite(e)
    BY <1>7
  <2>2. /\ confirming' = confirming /\ ending' \subseteq ending
        /\ \A q \in People : /\ entry'[q].hold \in {entry[q].hold, None}
                             /\ entry'[q].status = "offered" => entry'[q] = entry[q]
    BY <2>1, EndWriteCopies
  <2> QED BY <1>0, <2>2 DEF Uses
<1>8. CASE Crash
  BY <1>8, CrashCopies DEF Uses
<1> QED BY StepCases, <1>1, <1>2, <1>3, <1>4, <1>5, <1>6, <1>7, <1>8

\* What a step makes of the hold not yet claimed: it stays, is gone, or is a new one that
\* nothing names.
LEMMA MadeCases ==
  ASSUME QueueInv, [WaitlistNext]_waitlistVars
  PROVE  \/ pass'.made = None
         \/ pass'.made = pass.made /\ pass'.left = pass.left /\ PassMarked
         \/ \E h \in Holds : HoldSeats(h) /\ pass'.made = h /\ pass'.left = pass.left
<1>1. CASE PassMarked
  BY <1>1 DEF PassMarked
<1>2. CASE PassEnds
  BY <1>2 DEF PassEnds
<1>3. CASE Onward
  BY <1>3 DEF Onward
<1>4. CASE List
  BY <1>4, ListStep
<1>5. CASE Choose \/ (LoseSeats /\ pass.tries + 1 < MaxAttempts)
  BY <1>5, StayingSteps
<1>6. CASE \E h \in Holds : HoldSeats(h)
  BY <1>6, StayingSteps
<1> QED BY PassCases, MarkingSteps, OverSteps, OnwardSteps, <1>1, <1>2, <1>3, <1>4, <1>5, <1>6

LEMMA StepUnshared ==
  ASSUME QueueInv, [WaitlistNext]_waitlistVars
  PROVE  Unshared'
<1> USE DEF QueueInv
<1>0. None \notin Holds
  BY WaitlistAssumption DEF None, Holds
<1>1. CASE Claim
  <2>1. /\ Turn \in People /\ entry'[Turn].status = "offered" /\ entry'[Turn].hold = pass.made
        /\ \A q \in People : q # Turn => entry'[q] = entry[q]
        /\ pass.made \in Holds
    BY <1>1, ClaimCopies
  <2>2. UNCHANGED <<ending, confirming>>
    BY <1>1 DEF Claim, calls
  <2>3. pass'.made = None
    BY <1>1, OnwardSteps DEF Onward
  <2> HIDE DEF Turn
  <2>4. \A q \in People : \A h \in Holds : Uses(q, h)' => Uses(q, h) \/ (q = Turn /\ h = pass.made)
    BY <2>1, <2>2 DEF Uses
  <2>5. \A q \in People : ~Uses(q, pass.made)
    BY <1>0, <2>1 DEF Unshared
  <2>6. \A h \in Holds : \A p \in People : \A q \in People : Uses(p, h)' /\ Uses(q, h)' => p = q
    BY <2>4, <2>5 DEF Unshared
  <2>7. \A p \in People : entry'[p].status = "offered" => entry'[p].hold \in Holds
    BY <2>1 DEF Unshared
  <2> QED BY <2>3, <2>6, <2>7 DEF Unshared
<1>2. CASE ~Claim
  <2>1. /\ \A p \in People : entry'[p].status = "offered" => entry'[p] = entry[p]
        /\ \A p \in People : \A h \in Holds : Uses(p, h)' => Uses(p, h)
    BY <1>2, NoNewUse
  <2>2. (pass.made # None => \A p \in People : ~Uses(p, pass.made))'
    <3>1. CASE pass'.made = pass.made
      <4>1. pass.made # None => pass.made \in Holds
        BY DEF PassShape, PassRecords
      <4>2. ASSUME NEW h \in Holds, h = pass.made PROVE \A p \in People : ~Uses(p, h)'
        <5>1. \A p \in People : ~Uses(p, pass.made)
          BY <1>0, <4>2 DEF Unshared
        <5>2. \A p \in People : ~Uses(p, h)
          BY <4>2, <5>1
        <5> QED BY <2>1, <5>2
      <4> QED BY <3>1, <4>1, <4>2 DEF Uses
    <3>2. ASSUME NEW h \in Holds, HoldSeats(h), pass'.made = h
          PROVE  (\A p \in People : ~Uses(p, pass.made))'
      <4>1. h \notin Named
        BY <3>2, HoldFacts
      <4>2. \A p \in People : ~Uses(p, h)
        BY <4>1 DEF Named, Uses
      <4>3. \A p \in People : ~Uses(p, h)'
        BY <2>1, <4>2
      <4> QED BY <3>2, <4>3 DEF Uses
    <3> QED BY MadeCases, <3>1, <3>2
  <2> QED BY <2>1, <2>2 DEF Unshared
<1> QED BY <1>1, <1>2

-----------------------------------------------------------------------------
(* What the holds have                                                     *)

\* A hold keeps its seats or loses them all; a new one is made by the pass alone.
LEMMA HeldCases ==
  ASSUME QueueInv, [WaitlistNext]_waitlistVars
  PROVE  \A g \in Holds : held'[g] \in {held[g], 0} \/ HoldSeats(g)
<1> USE DEF QueueInv
<1>1. ASSUME NEW H, GiveSeatsBack(H) PROVE \A g \in Holds : held'[g] \in {held[g], 0}
  BY <1>1 DEF GiveSeatsBack
<1>2. ASSUME NEW h, held' = [held EXCEPT ![h] = 0] PROVE \A g \in Holds : held'[g] \in {held[g], 0}
  BY <1>2 DEF Seats
<1>3. CASE ClaimLost \/ ExpireHolds \/ (\E h \in Holds : ReleaseElsewhere(h))
  BY <1>1, <1>3 DEF ClaimLost, ExpireHolds, ReleaseElsewhere
<1>4. CASE (\E c \in confirming : Book(c)) \/ (\E h \in Holds : BookElsewhere(h))
  BY <1>2, <1>4 DEF Book, BookElsewhere
<1>5. CASE \E e \in ending : EndRelease(e)
  BY <1>1, <1>5 DEF EndRelease
<1>6. CASE \E h \in Holds : HoldSeats(h)
  <2>1. PICK h \in Holds : HoldSeats(h)
    BY <1>6
  <2>2. held' = [held EXCEPT ![h] = Wants[Turn]]
    BY <2>1, HoldFacts
  <2> QED BY <2>1, <2>2 DEF Seats
<1>7. CASE UNCHANGED held
  BY <1>7
<1>8. \/ ClaimLost \/ ExpireHolds \/ (\E h \in Holds : ReleaseElsewhere(h))
      \/ (\E c \in confirming : Book(c)) \/ (\E h \in Holds : BookElsewhere(h))
      \/ \E e \in ending : EndRelease(e)
      \/ \E h \in Holds : HoldSeats(h)
      \/ UNCHANGED held
  BY DEF WaitlistNext, waitlistVars, inventory, PassStep, Take, GiveBack, PassExpiry, Depart,
         JoinRead, JoinWrite, Ask, List, Choose, Skip, LoseSeats, OfferFails, Claim, Finish, ConfirmRead,
         BookFails, ConfirmWrite, Leave, CloseDeparted, ExpireOffers, Start, EndWrite, Crash
<1> QED BY <1>3, <1>4, <1>5, <1>6, <1>7, <1>8

LEMMA StepMadeWhole ==
  ASSUME QueueInv, [WaitlistNext]_waitlistVars
  PROVE  MadeWhole'
<1> USE DEF QueueInv
<1>1. CASE pass'.made = None
  BY <1>1 DEF MadeWhole
<1>2. CASE pass'.made = pass.made /\ pass'.left = pass.left /\ pass'.made # None
  <2>1. pass.made \in Holds /\ ~pass.chosen
    BY <1>2 DEF PassShape, PassRecords
  <2>2. ~HoldSeats(pass.made)
    BY <2>1 DEF HoldSeats
  <2>3. held'[pass.made] \in {held[pass.made], 0}
    BY <2>1, <2>2, HeldCases
  <2>4. Turn' = Turn
    BY <1>2 DEF Turn
  <2> QED BY <1>2, <2>3, <2>4 DEF MadeWhole
<1>3. ASSUME NEW h \in Holds, HoldSeats(h), pass'.made = h, pass'.left = pass.left
      PROVE  MadeWhole'
  <2>1. held' = [held EXCEPT ![h] = Wants[Turn]]
    BY <1>3, HoldFacts
  <2>2. Turn' = Turn
    BY <1>3 DEF Turn
  <2>3. held'[h] = Wants[Turn]
    BY <2>1 DEF Seats
  <2> QED BY <1>3, <2>2, <2>3 DEF MadeWhole
<1> QED BY <1>1, <1>2, <1>3, MadeCases

-----------------------------------------------------------------------------
(* What stands behind an offer                                             *)

\* The clock goes on mattering for an offer that stands.
LEMMA StillDueFor ==
  ASSUME Copies, StillDue, NEW p \in People, entry'[p].status = "offered",
         entry'[p].hold \notin due'
  PROVE  entry'[p].hold \notin due
BY DEF StillDue, Copies

\* The hold of an offer that stands keeps its seats, and whoever has taken them in an
\* answer to it is still to write.
OfferKept(p) ==
  /\ entry[p].hold \notin due /\ p \notin givenUp
  /\ held'[entry[p].hold] = held[entry[p].hold]
  /\ Done(p) => Done(p)'

LEMMA KeptIsBacked ==
  ASSUME QueueInv, NEW p \in People, entry'[p] = entry[p], entry[p].status = "offered",
         OfferKept(p)
  PROVE  held'[entry'[p].hold] = Wants[p] \/ Done(p)'
BY DEF QueueInv, Backed, OfferKept

\* Steps that leave the holds alone, and the clock.
LEMMA IdleKept ==
  ASSUME QueueInv, UNCHANGED <<held, due, givenUp>>,
         \/ UNCHANGED <<confirming, ending>>
         \/ \E q \in People : ConfirmRead(q) \/ Leave(q)
         \/ CloseDeparted \/ ExpireOffers
         \/ \E c \in confirming : BookFails(c),
         NEW p \in People, entry'[p] = entry[p], entry'[p].status = "offered",
         entry'[p].hold \notin due', p \notin givenUp'
  PROVE  OfferKept(p)
<1>1. ASSUME Done(p) PROVE Done(p)'
  <2>1. CASE UNCHANGED <<confirming, ending>>
    BY <1>1, <2>1 DEF Done
  <2>2. CASE \E q \in People : ConfirmRead(q)
    <3>1. ending' = ending /\ confirming \subseteq confirming'
      BY <2>2 DEF ConfirmRead
    <3> QED BY <1>1, <3>1 DEF Done
  <2>3. CASE (\E q \in People : Leave(q)) \/ CloseDeparted \/ ExpireOffers
    <3>1. ending \subseteq ending' /\ confirming' = confirming
      BY <2>3, StartCopies
    <3> QED BY <1>1, <3>1 DEF Done
  <2>4. CASE \E c \in confirming : BookFails(c)
    <3>1. ending' = ending /\ \A d \in confirming : d.booked => d \in confirming'
      BY <2>4 DEF BookFails
    <3> QED BY <1>1, <3>1 DEF Done
  <2> QED BY <2>1, <2>2, <2>3, <2>4
<1> QED BY <1>1 DEF OfferKept

\* Steps of a call that answers the offer or has ended it.
LEMMA BookKept ==
  ASSUME QueueInv, NEW c \in confirming, Book(c),
         NEW p \in People, entry'[p] = entry[p], entry'[p].status = "offered",
         entry'[p].hold \notin due', p \notin givenUp'
  PROVE  OfferKept(p) \/ Done(p)'
<1> USE DEF QueueInv
<1> DEFINE d == [c EXCEPT !.booked = TRUE]
<1>1. c.person \in People /\ c.hold \in Holds /\ d.person = c.person /\ d.booked
  BY DEF Copies, ConfirmRecords
<1>2. /\ confirming' = (confirming \ {c}) \union {d} /\ ~c.booked /\ ending' = ending
      /\ held' = [held EXCEPT ![c.hold] = 0] /\ StillDue /\ givenUp' = givenUp
  BY DEF Book
<1> HIDE DEF d
<1>3. entry[p].hold \in Holds /\ entry[p].hold \notin due
  BY <1>2, StillDueFor DEF Unshared
<1>4. CASE c.hold = entry[p].hold
  <2>1. Uses(p, c.hold) /\ Uses(c.person, c.hold)
    BY <1>4 DEF Uses
  <2>2. c.person = p
    BY <1>1, <2>1 DEF Unshared
  <2> QED BY <1>1, <1>2, <2>2 DEF Done
<1>5. CASE c.hold # entry[p].hold
  <2>1. held'[entry[p].hold] = held[entry[p].hold]
    BY <1>2, <1>3, <1>5 DEF Seats
  <2>2. Done(p) => Done(p)'
    BY <1>2 DEF Done
  <2> QED BY <1>2, <1>3, <2>1, <2>2 DEF OfferKept
<1> QED BY <1>4, <1>5

LEMMA EndReleaseKept ==
  ASSUME QueueInv, NEW e \in ending, EndRelease(e),
         NEW p \in People, entry'[p] = entry[p], entry'[p].status = "offered",
         entry'[p].hold \notin due', p \notin givenUp'
  PROVE  OfferKept(p) \/ Done(p)'
<1> USE DEF QueueInv
<1> DEFINE f == [e EXCEPT !.released = TRUE]
<1>1. e.person \in People /\ f.person = e.person /\ f.released
  BY ReleasedRecord DEF Copies, EndRecords
<1>2. /\ ending' = (ending \ {e}) \union {f} /\ ~e.released /\ confirming' = confirming
      /\ (held' = held \/ GiveSeatsBack({e.hold})) /\ StillDue /\ givenUp' = givenUp
  BY DEF EndRelease
<1> HIDE DEF f
<1>3. entry[p].hold \in Holds /\ entry[p].hold \notin due
  BY StillDueFor DEF Unshared, EndRelease
<1>4. CASE e.hold = entry[p].hold
  <2>1. Uses(p, entry[p].hold) /\ Uses(e.person, entry[p].hold)
    BY <1>4 DEF Uses
  <2>2. e.person = p
    BY <1>1, <1>3, <2>1 DEF Unshared
  <2> QED BY <1>1, <1>2, <2>2 DEF Done
<1>5. CASE e.hold # entry[p].hold
  <2>1. held'[entry[p].hold] = held[entry[p].hold]
    BY <1>2, <1>3, <1>5 DEF GiveSeatsBack
  <2>2. Done(p) => Done(p)'
    BY <1>2 DEF Done
  <2> QED BY <1>2, <1>3, <2>1, <2>2 DEF OfferKept, EndRelease
<1> QED BY <1>4, <1>5

\* Somebody else's entry is written.
LEMMA WriteKept ==
  ASSUME QueueInv,
         \/ \E c \in confirming : ConfirmWrite(c)
         \/ \E e \in ending : EndWrite(e),
         NEW p \in People, entry'[p] = entry[p], entry'[p].status = "offered",
         entry'[p].hold \notin due', p \notin givenUp'
  PROVE  OfferKept(p)
<1> USE DEF QueueInv
<1>1. CASE \E c \in confirming : ConfirmWrite(c)
  <2>1. PICK c \in confirming : ConfirmWrite(c)
    BY <1>1
  <2>2. c.person # p
    BY <2>1, ConfirmWriteCopies
  <2>3. /\ held' = held /\ ending' = ending /\ confirming' = confirming \ {c} /\ StillDue
        /\ givenUp' = givenUp \ {c.person}
    BY <2>1 DEF ConfirmWrite
  <2>4. Done(p) => Done(p)'
    BY <2>2, <2>3 DEF Done
  <2>5. entry[p].hold \notin due
    BY <2>3, StillDueFor
  <2> QED BY <2>2, <2>3, <2>4, <2>5 DEF OfferKept
<1>2. CASE \E e \in ending : EndWrite(e)
  <2>1. PICK e \in ending : EndWrite(e)
    BY <1>2
  <2>2. e.person # p
    BY <2>1, EndWriteCopies
  <2>3. /\ held' = held /\ confirming' = confirming /\ ending' = ending \ {e} /\ StillDue
        /\ givenUp' = givenUp \ {e.person}
    BY <2>1 DEF EndWrite
  <2>4. Done(p) => Done(p)'
    BY <2>2, <2>3 DEF Done
  <2>5. entry[p].hold \notin due
    BY <2>3, StillDueFor
  <2> QED BY <2>2, <2>3, <2>4, <2>5 DEF OfferKept
<1> QED BY <1>1, <1>2

\* Holds that end otherwise, and a new one, are not those of an offer that stands.
LEMMA HoldsKept ==
  ASSUME QueueInv,
         \/ ClaimLost \/ ExpireHolds
         \/ \E h \in Holds : PassExpiry(h) \/ HoldSeats(h) \/ ReleaseElsewhere(h) \/ BookElsewhere(h),
         NEW p \in People, entry'[p] = entry[p], entry'[p].status = "offered",
         entry'[p].hold \notin due', p \notin givenUp'
  PROVE  OfferKept(p)
<1> USE DEF QueueInv
<1> DEFINE g == entry[p].hold
<1>1. UNCHANGED <<entry, ending, confirming>>
  BY QuietCopies DEF QuietStep
<1>2. (Done(p) => Done(p)') /\ g \in Holds /\ held \in [Holds -> 0 .. Capacity]
  BY <1>1 DEF Done, Unshared, Seats
<1>3. CASE ClaimLost
  <2>1. /\ GiveSeatsBack({pass.made}) /\ StillDue /\ givenUp' = givenUp /\ pass.made # None
    BY <1>3 DEF ClaimLost
  <2>2. g # pass.made
    BY <2>1 DEF Unshared, Uses
  <2>3. held'[g] = held[g]
    BY <1>2, <2>1, <2>2 DEF GiveSeatsBack
  <2> QED BY <1>2, <2>1, <2>3, StillDueFor DEF OfferKept
<1>4. CASE ExpireHolds
  <2>1. GiveSeatsBack(Lapsed) /\ StillDue /\ givenUp' = givenUp
    BY <1>4 DEF ExpireHolds
  <2>2. g \notin due
    BY <2>1, StillDueFor
  <2>3. held'[g] = held[g]
    BY <1>2, <2>1, <2>2 DEF GiveSeatsBack, Lapsed
  <2> QED BY <1>2, <2>1, <2>2, <2>3 DEF OfferKept
<1>5. ASSUME NEW h \in Holds, PassExpiry(h) PROVE OfferKept(p)
  <2>1. /\ due' = due \union {h} /\ givenUp' = givenUp \ OfferedWith(h) /\ held' = held
    BY <1>5 DEF PassExpiry
  <2>2. p \notin OfferedWith(h)
    BY <1>1, <2>1 DEF OfferedWith
  <2> QED BY <1>1, <1>2, <2>1, <2>2 DEF OfferKept
<1>6. ASSUME NEW h \in Holds, HoldSeats(h) PROVE OfferKept(p)
  <2>1. due' = due \ {h} /\ givenUp' = givenUp /\ held' = [held EXCEPT ![h] = Wants[Turn]]
        /\ h \notin Named
    BY <1>6, HoldFacts DEF HoldSeats
  <2>2. g # h
    BY <2>1 DEF Named
  <2> QED BY <1>1, <1>2, <2>1, <2>2 DEF OfferKept
<1>7. ASSUME NEW h \in Holds, ReleaseElsewhere(h) \/ BookElsewhere(h) PROVE OfferKept(p)
  <2>1. /\ GiveSeatsBack({h}) \/ held' = [held EXCEPT ![h] = 0]
        /\ StillDue /\ givenUp' = givenUp \union OfferedWith(h)
    BY <1>7 DEF ReleaseElsewhere, BookElsewhere
  <2>2. g # h
    BY <1>1, <2>1 DEF OfferedWith
  <2>3. held'[g] = held[g]
    BY <1>2, <2>1, <2>2 DEF GiveSeatsBack
  <2> QED BY <1>2, <2>1, <2>3, StillDueFor DEF OfferKept
<1> QED BY <1>3, <1>4, <1>5, <1>6, <1>7

LEMMA StepBacked ==
  ASSUME QueueInv, [WaitlistNext]_waitlistVars
  PROVE  Backed'
<1> USE DEF QueueInv
<1> SUFFICES ASSUME NEW p \in People, entry'[p].status = "offered",
                    entry'[p].hold \notin due', p \notin givenUp'
             PROVE  held'[entry'[p].hold] = Wants[p] \/ Done(p)'
  BY DEF Backed
<1>1. CASE Claim
  <2>1. /\ Turn \in People /\ entry'[Turn].hold = pass.made
        /\ \A q \in People : q # Turn => entry'[q] = entry[q]
        /\ pass.made \in Holds
    BY <1>1, ClaimCopies
  <2>2. /\ UNCHANGED <<held, due, confirming, ending>> /\ pass.made # None
        /\ givenUp' = IF Active(pass.made) THEN givenUp \ {Turn} ELSE givenUp \union {Turn}
    BY <1>1 DEF Claim, inventory, calls
  <2>3. CASE p = Turn
    <3>1. Active(pass.made)
      BY <2>2, <2>3
    <3>2. held[pass.made] = Wants[Turn]
      BY <2>1, <2>2, <3>1 DEF MadeWhole, Active, Seats
    <3> QED BY <2>1, <2>2, <2>3, <3>2
  <2>4. CASE p # Turn
    <3>1. entry'[p] = entry[p] /\ p \notin givenUp
      BY <2>1, <2>2, <2>4
    <3>2. Done(p) => Done(p)'
      BY <2>2 DEF Done
    <3> QED BY <2>2, <3>1, <3>2, KeptIsBacked DEF OfferKept
  <2> QED BY <2>3, <2>4
<1>2. CASE ~Claim
  <2>1. entry'[p] = entry[p] /\ entry[p].status = "offered"
    BY <1>2, NoNewUse
  <2>2. CASE \/ UNCHANGED <<held, due, givenUp, confirming, ending>>
             \/ \E q \in People : ConfirmRead(q) \/ Leave(q)
             \/ CloseDeparted \/ ExpireOffers
             \/ \E c \in confirming : BookFails(c)
    <3>1. UNCHANGED <<held, due, givenUp>>
      BY <2>2 DEF ConfirmRead, Leave, CloseDeparted, ExpireOffers, Start, BookFails, inventory
    <3> QED BY <2>1, <2>2, <3>1, IdleKept, KeptIsBacked
  <2>3. CASE \E c \in confirming : Book(c)
    BY <2>1, <2>3, BookKept, KeptIsBacked
  <2>4. CASE \E e \in ending : EndRelease(e)
    BY <2>1, <2>4, EndReleaseKept, KeptIsBacked
  <2>5. CASE (\E c \in confirming : ConfirmWrite(c)) \/ \E e \in ending : EndWrite(e)
    BY <2>1, <2>5, WriteKept, KeptIsBacked
  <2>6. CASE \/ ClaimLost \/ ExpireHolds
             \/ \E h \in Holds : PassExpiry(h) \/ HoldSeats(h) \/ ReleaseElsewhere(h) \/ BookElsewhere(h)
    BY <2>1, <2>6, HoldsKept, KeptIsBacked
  <2>7. CASE Crash
    <3>1. /\ UNCHANGED <<held, due>>
          /\ givenUp' = givenUp \union {q \in People : entry[q].status = "offered" /\ Answering(q)}
      BY <2>7, CrashCopies
    <3>2. ~Done(p) /\ p \notin givenUp
      BY <2>1, <3>1 DEF Done, Answering
    <3> QED BY <2>1, <3>1, <3>2 DEF Backed
  <2>8. \/ \/ UNCHANGED <<held, due, givenUp, confirming, ending>>
           \/ \E q \in People : ConfirmRead(q) \/ Leave(q)
           \/ CloseDeparted \/ ExpireOffers
           \/ \E c \in confirming : BookFails(c)
        \/ \E c \in confirming : Book(c) \/ ConfirmWrite(c)
        \/ \E e \in ending : EndRelease(e) \/ EndWrite(e)
        \/ ClaimLost \/ ExpireHolds
        \/ \E h \in Holds : PassExpiry(h) \/ HoldSeats(h) \/ ReleaseElsewhere(h) \/ BookElsewhere(h)
        \/ Crash
    BY <1>2 DEF WaitlistNext, waitlistVars, inventory, calls, PassStep, Take, GiveBack, Depart,
                JoinRead, JoinWrite, Ask, List, Choose, Skip, LoseSeats, OfferFails, Finish
  <2> QED BY <2>2, <2>3, <2>4, <2>5, <2>6, <2>7, <2>8
<1> QED BY <1>1, <1>2

-----------------------------------------------------------------------------
(* Who was passed over                                                     *)

\* While a pass runs undisturbed, others only take seats.
LEMMA FreeShrinks ==
  ASSUME QueueInv, PassMarked, ~pass'.disturbed, pass.state = "offering",
         [WaitlistNext]_waitlistVars
  PROVE  ~pass.disturbed /\ free' <= free
<1> USE DEF QueueInv
<1>1. ~pass.disturbed
  BY DEF PassMarked
<1>2. pass' # Disturbed
  BY MarkedBy
<1>3. free \in Nat
  BY DEF Seats
<1>4. CASE Take \/ UNCHANGED free
  BY <1>1, <1>3, <1>4 DEF Take
<1>5. CASE \E e \in ending : EndRelease(e)
  <2>1. UNCHANGED free
    BY <1>2, <1>5 DEF EndRelease
  <2> QED BY <1>1, <1>3, <2>1
<1>6. ~GiveBack /\ ~ExpireHolds /\ \A h \in Holds : ~ReleaseElsewhere(h)
  BY <1>2 DEF GiveBack, ExpireHolds, ReleaseElsewhere
<1>7. ~ClaimLost
  BY OnwardSteps
<1>8. ASSUME NEW h \in Holds, HoldSeats(h) PROVE free' <= free
  BY <1>3, <1>8, HoldFacts
<1>9. \/ Take \/ UNCHANGED free \/ GiveBack \/ ExpireHolds \/ ClaimLost
      \/ \E h \in Holds : ReleaseElsewhere(h) \/ HoldSeats(h)
      \/ \E e \in ending : EndRelease(e)
  BY DEF WaitlistNext, waitlistVars, inventory, PassStep, PassExpiry, Depart, JoinRead, JoinWrite,
         Ask, List, Choose, Skip, LoseSeats, OfferFails, Claim, Finish, ConfirmRead, Book, BookFails,
         ConfirmWrite, Leave, CloseDeparted, ExpireOffers, Start, EndWrite, BookElsewhere, Crash
<1> QED BY <1>1, <1>4, <1>5, <1>6, <1>7, <1>8, <1>9

\* A day that is over stays over.
LEMMA GoneStays ==
  ASSUME [WaitlistNext]_waitlistVars, gone
  PROVE  gone'
BY DEF WaitlistNext, waitlistVars, inventory, PassStep, Take, GiveBack, PassExpiry, Depart,
       JoinRead, JoinWrite, Ask, List, Choose, Skip, HoldSeats, LoseSeats, OfferFails, Claim, ClaimLost,
       Finish,
       ConfirmRead, Book, BookFails, ConfirmWrite, Leave, CloseDeparted, ExpireOffers, Start,
       EndRelease, EndWrite, ExpireHolds, ReleaseElsewhere, BookElsewhere, Crash

LEMMA StepTooLittle ==
  ASSUME QueueInv, [WaitlistNext]_waitlistVars
  PROVE  TooLittle'
<1> USE DEF QueueInv
<1> SUFFICES ASSUME ~pass'.disturbed, NEW q \in pass'.passed
             PROVE  /\ free' < Wants[q] \/ (gone' /\ ~pass'.chosen /\ pass'.made = None)
                    /\ pass'.made # None => Wants[q] > Wants[Turn']
  BY DEF TooLittle
<1>0. free \in Nat /\ pass \in PassRecords /\ pass.passed \subseteq People
      /\ \A r \in People : Wants[r] \in Nat
  BY WaitlistAssumption DEF Seats, PassShape, PassRecords, People
<1>1. CASE PassMarked
  <2>1. pass'.passed = pass.passed /\ pass'.left = pass.left
        /\ pass'.chosen = pass.chosen /\ pass'.made = pass.made
    BY <1>1 DEF PassMarked
  <2>2. pass.state = "offering"
    BY <2>1 DEF PassShape
  <2>3. ~pass.disturbed /\ free' <= free
    BY <1>1, <2>2, FreeShrinks
  <2>4. Turn' = Turn
    BY <2>1 DEF Turn
  <2>5. /\ free < Wants[q] \/ (gone /\ ~pass.chosen /\ pass.made = None)
        /\ pass.made # None => Wants[q] > Wants[Turn]
    BY <2>1, <2>3 DEF TooLittle
  <2>6. free' \in Int /\ Wants[q] \in Nat
    BY <1>0, <2>1, StepSeats DEF Seats
  <2>7. free < Wants[q] => free' < Wants[q]
    BY <1>0, <2>3, <2>6
  <2> QED BY <2>1, <2>4, <2>5, <2>7, GoneStays
<1>2. CASE PassEnds
  BY <1>2 DEF PassEnds
<1>3. CASE List
  BY <1>3, ListStep
<1>4. CASE Skip
  <2>1. ~ClaimLost
    BY <1>4 DEF Skip, Looking, ClaimLost
  <2>2. /\ pass'.disturbed = pass.disturbed /\ pass'.passed \subseteq pass.passed \union {Turn}
        /\ pass'.chosen = FALSE /\ pass'.made = None
    BY <1>4, <2>1, OnwardSteps DEF Onward
  <2>3. UNCHANGED <<free, gone>> /\ (free < Wants[Turn] \/ gone)
    BY <1>4 DEF Skip, inventory
  <2>4. CASE q = Turn
    BY <2>2, <2>3, <2>4
  <2>5. CASE q \in pass.passed
    BY <2>2, <2>3, <2>5 DEF TooLittle
  <2> QED BY <2>2, <2>4, <2>5
<1>5. CASE ~Skip /\ ((LoseSeats /\ ~(pass.tries + 1 < MaxAttempts)) \/ OfferFails \/ Claim)
  <2>1. ~ClaimLost
    BY <1>5, OnwardSteps
  <2>2. /\ pass'.disturbed = pass.disturbed /\ pass'.passed = pass.passed
        /\ pass'.chosen = FALSE /\ pass'.made = None
    BY <1>5, <2>1, OnwardSteps DEF Onward
  <2>3. UNCHANGED <<free, gone>>
    BY <1>5 DEF Claim, LoseSeats, OfferFails, inventory
  <2> QED BY <2>2, <2>3 DEF TooLittle
<1>6. CASE ClaimLost
  BY <1>6, OnwardSteps
<1>7. CASE Choose \/ (LoseSeats /\ pass.tries + 1 < MaxAttempts)
  <2>1. /\ pass'.passed = pass.passed /\ pass'.disturbed = pass.disturbed /\ pass'.made = None
    BY <1>7, StayingSteps
  <2>2. UNCHANGED free /\ (~gone \/ pass.chosen)
    BY <1>7 DEF Choose, LoseSeats, inventory
  <2> QED BY <2>1, <2>2 DEF TooLittle
<1>8. ASSUME NEW h \in Holds, HoldSeats(h)
      PROVE  free' < Wants[q] /\ Wants[q] > Wants[Turn']
  <2>1. /\ pass'.passed = pass.passed /\ pass'.disturbed = pass.disturbed /\ pass'.left = pass.left
    BY <1>8, StayingSteps
  <2>2. Turn' = Turn
    BY <2>1 DEF Turn
  <2>3. pass.chosen
    BY <1>8 DEF HoldSeats
  <2>4. free < Wants[q]
    BY <2>1, <2>3 DEF TooLittle
  <2>5. /\ Wants[Turn] \in Nat \ {0} /\ Wants[Turn] <= free /\ free' = free - Wants[Turn]
    BY <1>8, HoldFacts
  <2>6. Wants[q] \in Nat
    BY <1>0, <2>1
  <2> HIDE DEF Turn
  <2> QED BY <1>0, <2>2, <2>4, <2>5, <2>6
<1> QED BY PassCases, MarkingSteps, OverSteps, <1>1, <1>2, <1>3, <1>4, <1>5, <1>6, <1>7, <1>8

-----------------------------------------------------------------------------
LEMMA InitQueueInv ==
  ASSUME WaitlistInit
  PROVE  QueueInv
<1> USE WaitlistAssumption DEF WaitlistInit
<1>0. None \notin Holds
  BY DEF None, Holds
<1>1. Seats
  <2>1. \A s \in Holds \X (1 .. Capacity) : s[1] \in Holds /\ s[2] \in 1 .. Capacity
    OBVIOUS
  <2>2. SeatsOf(Holds) = {}
    BY <2>1 DEF SeatsOf
  <2>3. Cardinality(SeatsOf(Holds)) = 0
    BY <2>2, FS_EmptySet
  <2> QED BY <2>3 DEF Seats
<1>2. Copies
  <2>1. 0 \in 0 .. Limit
    OBVIOUS
  <2>2. [status |-> "none", hold |-> None, offers |-> 0] \in EntryRecords
    BY <2>1 DEF EntryRecords
  <2> QED BY <2>2 DEF Copies
<1>3. Allowed
  BY DEF Allowed, Waiting
<1>4. PassShape
  BY NoPassShape DEF PassShape
<1>5. Unshared
  BY <1>0, NoPassShape DEF Unshared, Uses
<1>6. MadeWhole /\ TooLittle
  BY NoPassShape DEF MadeWhole, TooLittle
<1>7. Backed
  BY DEF Backed
<1> QED BY <1>1, <1>2, <1>3, <1>4, <1>5, <1>6, <1>7 DEF QueueInv

LEMMA SpecQueueInv ==
  WaitlistSpec => []QueueInv
<1>1. WaitlistInit => QueueInv
  BY InitQueueInv
<1>2. QueueInv /\ [WaitlistNext]_waitlistVars => QueueInv'
  <2> SUFFICES ASSUME QueueInv, [WaitlistNext]_waitlistVars PROVE QueueInv'
    OBVIOUS
  <2>1. Seats' /\ Copies' /\ Allowed' /\ PassShape'
    BY StepSeats, StepCopies, StepPassShape
  <2>2. Unshared' /\ MadeWhole' /\ Backed' /\ TooLittle'
    BY StepUnshared, StepMadeWhole, StepBacked, StepTooLittle
  <2> QED BY <2>1, <2>2 DEF QueueInv
<1> QED BY <1>1, <1>2, PTL DEF WaitlistSpec

\* Every row of the queue keeps its type, and nobody is made more offers than the
\* setting allows, in any interleaving of passes, answers, jobs and restarts.
THEOREM SpecWaitlistTypeOK ==
  WaitlistSpec => []WaitlistTypeOK
<1>1. QueueInv => WaitlistTypeOK
  <2> SUFFICES ASSUME QueueInv PROVE WaitlistTypeOK
    OBVIOUS
  <2>1. free \in Nat /\ held \in [Holds -> 0 .. Capacity]
        /\ free + Cardinality(SeatsOf(Holds)) <= Capacity
    BY DEF QueueInv, Seats
  <2>2. Cardinality(SeatsOf(Holds)) \in Nat
    BY SeatsOfFinite
  <2>3. free \in 0 .. Capacity
    BY <2>1, <2>2, WaitlistAssumption
  <2> QED BY <2>1, <2>3 DEF QueueInv, Copies, WaitlistTypeOK
<1> QED BY <1>1, SpecQueueInv, PTL

\* waitlistService.offerTo holds seats first and claims the entry after: an offer that
\* stands has behind it all the seats it promises, whatever expires, races or dies.
THEOREM SpecOfferBacked ==
  WaitlistSpec => []OfferBacked
<1>1. QueueInv => OfferBacked
  BY DEF QueueInv, Backed, Done, Answering, OfferBacked
<1> QED BY <1>1, SpecQueueInv, PTL

\* waitlistService.runSweep offers in the order of joining: until a seat comes back during
\* it, a pass offers nobody a seat past somebody it found earlier in the queue who wanted no
\* more, but those whose turn has failed.
THEOREM SpecServedInOrder ==
  WaitlistSpec => ServedInOrder
<1> DEFINE InOrder ==
      \A p \in People :
        Offered(p) /\ ~pass.disturbed => NobodyPassed(p, pass.left \union pass.passed)
<1>1. QueueInv /\ [WaitlistNext]_waitlistVars => [InOrder]_waitlistVars
  <2> SUFFICES ASSUME QueueInv, [WaitlistNext]_waitlistVars,
                      NEW p \in People, Offered(p), ~pass.disturbed,
                      NEW q \in 1 .. p - 1, q \in pass.left \union pass.passed
               PROVE  Wants[q] > Wants[p]
    BY DEF NobodyPassed
  <2>1. Claim
    BY NoNewUse DEF Offered, Waiting
  <2>2. p = Turn /\ pass.made # None
    BY <2>1, ClaimCopies DEF Offered, Waiting, Claim
  <2>3. q \notin pass.left
    <3>1. pass.left # {}
      BY <2>2 DEF QueueInv, PassShape
    <3>2. \A r \in pass.left : Turn <= r
      BY <3>1, TurnIsLeft DEF QueueInv
    <3>3. p \in Nat /\ q \in Int /\ q < p
      BY WaitlistAssumption DEF People
    <3> HIDE DEF Turn
    <3> QED BY <2>2, <3>2, <3>3
  <2> QED BY <2>2, <2>3 DEF QueueInv, TooLittle
<1>2. ServedInOrder <=> [][InOrder]_waitlistVars
  BY DEF ServedInOrder
<1> HIDE DEF InOrder
<1> QED BY <1>1, <1>2, SpecQueueInv, PTL DEF WaitlistSpec
=============================================================================
