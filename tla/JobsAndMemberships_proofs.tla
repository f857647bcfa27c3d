----------------------- MODULE JobsAndMemberships_proofs -----------------------
(***************************************************************************)
(* Proofs about JobQueue for any jobs, workers and bounds, and about       *)
(* Memberships for any records, calls, devices and limits.                 *)
(*                                                                         *)
(* JobQueue.  OneRunner and AttemptsAccounted hold job by job, for jobs    *)
(* not taken from under a worker: whoever runs one holds its row and its   *)
(* lease (Holds), and the attempts of one that nobody runs are short of    *)
(* the most by the claim that may follow (Counts).                         *)
(*                                                                         *)
(* Memberships.  Every write keeps the key in step with being live, and    *)
(* sets it only where no other record has it (RecordsInv); what a check    *)
(* read as allowed was granted once, whatever is granted now (CallsInv).   *)
(***************************************************************************)
EXTENDS JobQueue, Memberships, FiniteSetTheorems, WellFoundedInduction, TLAPS

Row == [status : JobStatus, attempts : Nat, lockedBy : Workers \union {Nobody, Gone},
        lease : {"none", "held", "lapsed"}, due : BOOLEAN]
Process == [up : BOOLEAN, job : Jobs \union {Nobody}, attempt : Nat]

\* The types of what decides who runs a job.
Types ==
  /\ job \in [Jobs -> Row]
  /\ worker \in [Workers -> Process]
  /\ \A w \in Workers : ~worker[w].up => worker[w].job = Nobody
  /\ crashes \in Nat
  /\ taken \subseteq Jobs

\* Who runs the job has its row, under a lease, and counts its attempts as the row does.
Holds(j) ==
  \A w \in Workers : worker[w].job = j =>
    /\ job[j].lockedBy = w /\ job[j].status = "running" /\ job[j].lease = "held"
    /\ worker[w].attempt = job[j].attempts

\* An attempt that is over was paid for: by one of those allowed, or by a loss.
Counts(j) ==
  /\ job[j].status = "none" => job[j].attempts = 0
  /\ job[j].status = "queued" => job[j].attempts < MaxAttempts
  /\ job[j].attempts <= MaxAttempts + crashes
  /\ job[j].status = "running" /\ (\A w \in Workers : worker[w].job # j) =>
       job[j].attempts < MaxAttempts + crashes

IInv == Types /\ \A j \in Jobs \ taken : Holds(j) /\ Counts(j)

LEMMA InitIInv == Init => IInv
<1> SUFFICES ASSUME Init PROVE IInv
  OBVIOUS
<1> USE QueueAssumption
<1>1. job \in [Jobs -> Row]
  BY DEF Init, Row, JobStatus
<1>2. worker \in [Workers -> Process]
  BY DEF Init, Idle, Process
<1>3. \A w \in Workers : worker[w].job = Nobody
  BY DEF Init, Idle
<1>4. \A j \in Jobs : job[j].attempts = 0 /\ job[j].status = "none"
  BY DEF Init
<1>5. crashes = 0 /\ taken = {}
  BY DEF Init
<1>6. \A j \in Jobs : Holds(j) /\ Counts(j)
  BY <1>3, <1>4, <1>5 DEF Holds, Counts
<1>7. Types
  BY <1>1, <1>2, <1>3, <1>5 DEF Types
<1> QED BY <1>6, <1>7 DEF IInv

\* What is not named keeps its part of the invariant.
LEMMA OtherJob ==
  ASSUME NEW j \in Jobs, Holds(j), Counts(j), crashes \in Nat, crashes' \in Nat,
         crashes' >= crashes, job \in [Jobs -> Row],
         job'[j] = job[j],
         \A w \in Workers : worker'[w].job = j <=> worker[w].job = j,
         \A w \in Workers : worker[w].job = j => worker'[w].attempt = worker[w].attempt
  PROVE  Holds(j)' /\ Counts(j)'
BY QueueAssumption DEF Holds, Counts, Row

-----------------------------------------------------------------------------
\* The row of one job changes, the workers go on.
LEMMA RowStep ==
  ASSUME IInv, NEW j \in Jobs,
         \/ Enqueue(j) \/ ComeDue(j) \/ LeaseLapses(j) \/ RetryWrite(j) \/ Prune(j)
  PROVE  IInv'
<1> USE QueueAssumption DEF IInv
<1>1. UNCHANGED <<worker, crashes>>
  BY DEF Enqueue, ComeDue, LeaseLapses, RetryWrite, Prune
<1>2. job' \in [Jobs -> Row] /\ \A i \in Jobs : i # j => job'[i] = job[i]
  <2>1. job \in [Jobs -> Row] /\ job[j] \in Row
    BY DEF Types
  <2>2. CASE Enqueue(j)
    <3>1. [job[j] EXCEPT !.status = "queued", !.due = TRUE] \in Row
      BY <2>1 DEF Row, JobStatus
    <3> QED BY <2>1, <2>2, <3>1 DEF Enqueue
  <2>3. CASE ComeDue(j)
    <3>1. [job[j] EXCEPT !.due = TRUE] \in Row
      BY <2>1 DEF Row
    <3> QED BY <2>1, <2>3, <3>1 DEF ComeDue
  <2>4. CASE LeaseLapses(j)
    <3>1. [job[j] EXCEPT !.lease = "lapsed"] \in Row
      BY <2>1 DEF Row
    <3> QED BY <2>1, <2>4, <3>1 DEF LeaseLapses
  <2>5. CASE RetryWrite(j)
    <3>1. [job[j] EXCEPT !.status = "queued", !.attempts = 0, !.due = TRUE] \in Row
      BY <2>1 DEF Row, JobStatus
    <3> QED BY <2>1, <2>5, <3>1 DEF RetryWrite
  <2>6. CASE Prune(j)
    <3>1. [job[j] EXCEPT !.status = "pruned"] \in Row
      BY <2>1 DEF Row, JobStatus
    <3> QED BY <2>1, <2>6, <3>1 DEF Prune
  <2> QED BY <2>2, <2>3, <2>4, <2>5, <2>6
<1>3. /\ taken \subseteq taken' /\ taken' \subseteq Jobs
      /\ \A i \in Jobs : i # j /\ i \notin taken' => i \notin taken
  BY DEF Types, Enqueue, ComeDue, LeaseLapses, RetryWrite, Prune
<1>4. ASSUME j \notin taken' PROVE Holds(j)' /\ Counts(j)'
  <2>1. j \notin taken /\ Holds(j) /\ Counts(j)
    BY <1>3, <1>4
  <2>2. CASE Enqueue(j)
    BY <1>1, <2>1, <2>2 DEF Types, Row, Enqueue, Holds, Counts
  <2>3. CASE ComeDue(j)
    BY <1>1, <2>1, <2>3 DEF Types, Row, ComeDue, Holds, Counts
  <2>4. CASE LeaseLapses(j)
    <3>1. \A w \in Workers : worker[w].job # j
      BY <1>4, <2>4 DEF LeaseLapses, RunnersOf
    <3> QED BY <1>1, <2>1, <2>4, <3>1 DEF Types, Row, LeaseLapses, Holds, Counts
  <2>5. CASE RetryWrite(j)
    <3>1. \A w \in Workers : worker[w].job # j
      BY <1>4, <2>5 DEF RetryWrite, RunnersOf
    <3>2. \/ job'[j] = job[j]
          \/ job'[j].status = "queued" /\ job'[j].attempts = 0
      BY <2>5 DEF RetryWrite, Types, Row
    <3>3. CASE job'[j] = job[j]
      BY <1>1, <2>1, <3>3 DEF Holds, Counts
    <3>4. CASE job'[j].status = "queued" /\ job'[j].attempts = 0
      BY <1>1, <3>1, <3>4 DEF Holds, Counts, Types
    <3> QED BY <3>2, <3>3, <3>4
  <2>6. CASE Prune(j)
    BY <1>1, <2>1, <2>6 DEF Types, Row, Prune, Holds, Counts
  <2> QED BY <2>2, <2>3, <2>4, <2>5, <2>6
<1>5. \A i \in Jobs : i # j /\ i \notin taken' => Holds(i)' /\ Counts(i)'
  BY <1>1, <1>2, <1>3, OtherJob DEF Types
<1> QED BY <1>1, <1>2, <1>3, <1>4, <1>5 DEF Types

\* A job is taken that is queued, or whose lease lapsed: nobody runs it.
LEMMA ClaimStep ==
  ASSUME IInv, NEW w \in Workers, NEW j \in Jobs, Claim(w, j)
  PROVE  IInv'
<1> USE QueueAssumption DEF IInv
<1>1. /\ worker[w] = Idle /\ UNCHANGED <<crashes, taken>>
      /\ job' = [job EXCEPT ![j] = [status |-> "running", attempts |-> job[j].attempts + 1,
                                    lockedBy |-> w, lease |-> "held", due |-> TRUE]]
      /\ worker' = [worker EXCEPT ![w] = [up |-> TRUE, job |-> j, attempt |-> job[j].attempts + 1]]
  BY DEF Claim
<1>2. job[j].attempts \in Nat
  BY DEF Types, Row
<1>3. Types'
  BY <1>1, <1>2 DEF Types, Row, Process, JobStatus
<1>4. /\ job'[j].status = "running" /\ job'[j].attempts = job[j].attempts + 1
      /\ job'[j].lockedBy = w /\ job'[j].lease = "held"
      /\ worker'[w].job = j /\ worker'[w].attempt = job[j].attempts + 1
      /\ worker[w].job = Nobody
      /\ \A v \in Workers : v # w => worker'[v] = worker[v]
      /\ \A i \in Jobs : i # j => job'[i] = job[i]
  BY <1>1 DEF Types, Idle
<1>5. ASSUME j \notin taken PROVE Holds(j)' /\ Counts(j)'
  <2>1. \A v \in Workers : worker[v].job # j
    BY <1>5 DEF Claim, Due, Holds
  <2>2. job[j].attempts < MaxAttempts + crashes
    BY <1>5, <2>1 DEF Claim, Due, Counts, Types, Row
  <2> QED BY <1>1, <1>2, <1>4, <2>1, <2>2 DEF Holds, Counts, Types
<1>6. \A i \in Jobs : i # j /\ i \notin taken => Holds(i)' /\ Counts(i)'
  BY <1>1, <1>4, OtherJob DEF Types
<1> QED BY <1>1, <1>3, <1>5, <1>6

\* The holder renews its lease.
LEMMA RenewStep ==
  ASSUME IInv, NEW w \in Workers, Renew(w)
  PROVE  IInv'
<1> USE QueueAssumption DEF IInv
<1> DEFINE j == worker[w].job
<1>1. j \in Jobs
  BY DEF Renew, Types, Process
<1>2. job' = [job EXCEPT ![j].lease = "held"] /\ UNCHANGED <<worker, crashes, taken>>
  BY DEF Renew
<1> HIDE DEF j
<1>3. Types'
  BY <1>1, <1>2 DEF Types, Row
<1>4. \A i \in Jobs : /\ job'[i].status = job[i].status /\ job'[i].attempts = job[i].attempts
                      /\ job'[i].lockedBy = job[i].lockedBy
                      /\ job[i].lease = "held" => job'[i].lease = "held"
  BY <1>1, <1>2 DEF Types, Row
<1> QED BY <1>2, <1>3, <1>4 DEF Holds, Counts

\* A run ends and its outcome is written, or cannot be.
LEMMA OutcomeStep ==
  ASSUME IInv, NEW w \in Workers,
         Succeed(w) \/ \E permanent \in BOOLEAN : Fail(w, permanent)
  PROVE  IInv'
<1> USE QueueAssumption DEF IInv
<1>0. PICK j \in Jobs : j = worker[w].job
  BY DEF Succeed, Fail, Types, Process
<1>1. worker' = [worker EXCEPT ![w] = Idle] /\ UNCHANGED <<crashes, taken>>
  BY DEF Succeed, Fail
<1>2. PICK status \in {"succeeded", "failed", "queued"} :
        /\ Write(j, status, FALSE)
        /\ status = "queued" => worker[w].attempt < MaxAttempts
  <2>1. CASE Succeed(w)
    BY <1>0, <2>1 DEF Succeed
  <2>2. ASSUME NEW permanent \in BOOLEAN, Fail(w, permanent), GivesUp(w, permanent)
        PROVE  Write(j, "failed", FALSE)
    BY <1>0, <2>2 DEF Fail
  <2>3. ASSUME NEW permanent \in BOOLEAN, Fail(w, permanent), ~GivesUp(w, permanent)
        PROVE  Write(j, "queued", FALSE) /\ worker[w].attempt < MaxAttempts
    <3>1. Write(j, "queued", FALSE)
      BY <1>0, <2>3 DEF Fail
    <3>2. worker[w].attempt \in Nat
      BY DEF Types, Process
    <3>3. ~(worker[w].attempt >= MaxAttempts)
      BY <2>3, Zenon DEF GivesUp
    <3>4. worker[w].attempt < MaxAttempts
      BY <3>2, <3>3
    <3> QED BY <3>1, <3>4
  <2> QED BY <2>1, <2>2, <2>3
<1>3. \/ job' = job /\ job[j].status = "pruned"
      \/ job' = [job EXCEPT ![j] = [status |-> status, attempts |-> job[j].attempts,
                                    lockedBy |-> Nobody, lease |-> "none", due |-> FALSE]]
  BY <1>2 DEF Write
<1>4. job' \in [Jobs -> Row] /\ \A i \in Jobs : i # j => job'[i] = job[i]
  <2>1. job \in [Jobs -> Row]
    BY DEF Types
  <2>2. [status |-> status, attempts |-> job[j].attempts, lockedBy |-> Nobody,
         lease |-> "none", due |-> FALSE] \in Row
    BY <1>1, <2>1 DEF Row, JobStatus
  <2> QED BY <1>1, <1>3, <2>1, <2>2
<1>5. worker' \in [Workers -> Process] /\ worker'[w].job = Nobody
      /\ \A v \in Workers : v # w => worker'[v] = worker[v]
  BY <1>1 DEF Types, Process, Idle
<1>6. ASSUME j \notin taken PROVE Holds(j)' /\ Counts(j)'
  <2>1. \A v \in Workers : worker[v].job = j => v = w
    BY <1>0, <1>6 DEF Holds
  <2>2. /\ job[j].status = "running" /\ worker[w].attempt = job[j].attempts
        /\ job[j].attempts <= MaxAttempts + crashes
    BY <1>0, <1>6 DEF Holds, Counts
  <2>3. job'[j].status = status /\ job'[j].attempts = job[j].attempts
    BY <1>1, <1>3, <2>2 DEF Types
  <2>4. \A v \in Workers : worker'[v].job # j
    BY <1>1, <1>5, <2>1
  <2>5. Holds(j)'
    BY <2>4 DEF Holds
  <2>6. job[j].attempts \in Nat
    BY <1>1 DEF Types, Row
  <2>7. status = "queued" => job[j].attempts < MaxAttempts
    BY <1>2, <2>2
  <2>8. Counts(j)'
    BY <1>1, <2>2, <2>3, <2>6, <2>7 DEF Counts
  <2> QED BY <2>5, <2>8
<1>7. \A i \in Jobs : i # j /\ i \notin taken => Holds(i)' /\ Counts(i)'
  BY <1>1, <1>4, <1>5, <1>0, OtherJob DEF Types
<1>8. Types'
  <2>1. \A v \in Workers : ~worker'[v].up => worker'[v].job = Nobody
    BY <1>5 DEF Types
  <2> QED BY <1>1, <1>4, <1>5, <2>1 DEF Types
<1> QED BY <1>1, <1>6, <1>7, <1>8

\* What a lost process, or a lost outcome, costs its job is one attempt more.
LEMMA LossStep ==
  ASSUME IInv, NEW w \in Workers, OutcomeLost(w) \/ Crash(w)
  PROVE  IInv'
<1> USE QueueAssumption DEF IInv
<1>1. /\ worker'[w].job = Nobody /\ worker' \in [Workers -> Process]
      /\ \A v \in Workers : v # w => worker'[v] = worker[v]
      /\ crashes' = crashes + 1 /\ taken' = taken
  <2>1. Idle \in Process /\ [up |-> FALSE, job |-> Nobody, attempt |-> 0] \in Process
    BY DEF Idle, Process
  <2>2. PICK p \in Process : p.job = Nobody /\ worker' = [worker EXCEPT ![w] = p]
    BY <2>1 DEF OutcomeLost, Crash, Idle
  <2>3. crashes' = crashes + 1 /\ taken' = taken
    BY DEF OutcomeLost, Crash
  <2> QED BY <2>2, <2>3 DEF Types
<1>2. /\ job' \in [Jobs -> Row]
      /\ \A i \in Jobs : /\ job'[i].status = job[i].status /\ job'[i].attempts = job[i].attempts
                         /\ job'[i].lease = job[i].lease
                         /\ job[i].lockedBy # w => job'[i].lockedBy = job[i].lockedBy
  BY DEF OutcomeLost, Crash, Types, Row
<1>3. ASSUME NEW i \in Jobs, i \notin taken PROVE Holds(i)' /\ Counts(i)'
  <2>1. \A v \in Workers : worker'[v].job = i => v # w /\ worker[v].job = i
    BY <1>1
  <2>2. Holds(i)'
    BY <1>1, <1>2, <1>3, <2>1 DEF Holds
  <2>3. Counts(i)'
    BY <1>1, <1>2, <1>3 DEF Counts, Types, Row
  <2> QED BY <2>2, <2>3
<1> QED BY <1>1, <1>2, <1>3 DEF Types

\* Leases of processes that are gone are released, and no other.
LEMMA RestartStep ==
  ASSUME IInv, NEW w \in Workers, NEW sameHost \in BOOLEAN, Restart(w, sameHost)
  PROVE  IInv'
<1> USE QueueAssumption DEF IInv
<1>1. /\ worker'[w].job = Nobody /\ worker' \in [Workers -> Process]
      /\ \A v \in Workers : v # w => worker'[v] = worker[v]
      /\ UNCHANGED <<crashes, taken>>
  BY DEF Restart, Types, Process, Idle
<1>2. /\ job' \in [Jobs -> Row]
      /\ \A i \in Jobs : /\ job'[i].status = job[i].status /\ job'[i].attempts = job[i].attempts
                         /\ job'[i].lockedBy = job[i].lockedBy
                         /\ job[i].lockedBy \in Workers => job'[i].lease = job[i].lease
  BY DEF Restart, Orphan, Types, Row
<1>3. \A v \in Workers : worker'[v].job = worker[v].job
  BY <1>1 DEF Restart, Types
<1>4. \A v \in Workers : worker[v].job \in Jobs => worker'[v] = worker[v]
  BY <1>1, <1>3
<1>5. \A v \in Workers : ~worker'[v].up => worker'[v].job = Nobody
  BY <1>1, <1>3 DEF Types
<1>6. ASSUME NEW i \in Jobs, i \notin taken PROVE Holds(i)' /\ Counts(i)'
  <2>1. Holds(i)'
    BY <1>1, <1>2, <1>3, <1>4, <1>6 DEF Holds
  <2>2. Counts(i)'
    BY <1>1, <1>2, <1>3, <1>6 DEF Counts
  <2> QED BY <2>1, <2>2
<1> QED BY <1>1, <1>2, <1>5, <1>6 DEF Types

-----------------------------------------------------------------------------
LEMMA NextIInv == IInv /\ [Next]_vars => IInv'
<1> SUFFICES ASSUME IInv, [Next]_vars PROVE IInv'
  OBVIOUS
<1>1. CASE UNCHANGED vars
  BY <1>1 DEF vars, IInv, Types, Holds, Counts
<1>2. CASE \E j \in Jobs : Enqueue(j) \/ ComeDue(j) \/ LeaseLapses(j) \/ RetryWrite(j) \/ Prune(j)
  BY <1>2, RowStep
<1>3. CASE \E w \in Workers, j \in Jobs : Claim(w, j)
  BY <1>3, ClaimStep
<1>4. CASE \E w \in Workers : Renew(w)
  BY <1>4, RenewStep
<1>5. CASE \E w \in Workers : Succeed(w) \/ \E permanent \in BOOLEAN : Fail(w, permanent)
  BY <1>5, OutcomeStep
<1>6. CASE \E w \in Workers : OutcomeLost(w) \/ Crash(w)
  BY <1>6, LossStep
<1>7. CASE \E w \in Workers, sameHost \in BOOLEAN : Restart(w, sameHost)
  BY <1>7, RestartStep
<1>8. CASE \E j \in Jobs : RetryRead(j)
  <2>1. UNCHANGED <<job, worker, crashes, taken>>
    BY <1>8 DEF RetryRead
  <2> QED BY <2>1 DEF IInv, Types, Holds, Counts
<1> QED BY <1>1, <1>2, <1>3, <1>4, <1>5, <1>6, <1>7, <1>8 DEF Next

LEMMA SpecIInv == Spec => []IInv
BY InitIInv, NextIInv, PTL DEF Spec

-----------------------------------------------------------------------------
\* How many retries have read a job is a number: what is written had been read.
Retries == retrying \in [Jobs -> Nat]

LEMMA SpecRetries == Spec => []Retries
<1>1. Init => Retries
  BY DEF Init, Retries
<1>2. Retries /\ [Next]_vars => Retries'
  <2> SUFFICES ASSUME Retries, [Next]_vars PROVE Retries'
    OBVIOUS
  <2>1. CASE \E j \in Jobs : RetryRead(j)
    BY <2>1 DEF RetryRead, Retries
  <2>2. CASE \E j \in Jobs : RetryWrite(j)
    BY <2>2 DEF RetryWrite, Retries
  <2>3. CASE UNCHANGED retrying
    BY <2>3 DEF Retries
  <2>4. \/ \E j \in Jobs : RetryRead(j)
        \/ \E j \in Jobs : RetryWrite(j)
        \/ UNCHANGED retrying
    BY DEF Next, vars, Enqueue, ComeDue, LeaseLapses, Prune, Claim, Renew, Succeed, Fail,
           OutcomeLost, Crash, Restart
  <2> QED BY <2>1, <2>2, <2>3, <2>4
<1> QED BY <1>1, <1>2, PTL DEF Spec

\* The types, for any jobs, workers and bounds.
THEOREM SpecTypeOK == Spec => []TypeOK
<1>1. IInv /\ Retries => TypeOK
  BY DEF IInv, Types, Row, Process, Retries, TypeOK
<1> QED BY <1>1, SpecIInv, SpecRetries, PTL

\* Any number of workers: a job that was not made claimable under a worker that still
\* ran it has one runner at most (claimNext, recoverOrphans).
THEOREM SpecOneRunner == Spec => []OneRunner
<1>1. IInv => OneRunner
  <2> SUFFICES ASSUME IInv, NEW j \in Jobs \ taken
               PROVE  Cardinality(RunnersOf(j)) <= 1
    BY DEF OneRunner
  <2>1. \A v, w \in RunnersOf(j) : v = w
    BY DEF IInv, Holds, RunnersOf
  <2>2. CASE RunnersOf(j) = {}
    BY <2>2, FS_EmptySet
  <2>3. CASE RunnersOf(j) # {}
    <3>1. PICK w \in RunnersOf(j) : TRUE
      BY <2>3
    <3>2. RunnersOf(j) = {w}
      BY <2>1, <3>1
    <3>3. Cardinality({w}) = 1
      BY FS_Singleton
    <3> QED BY <3>2, <3>3
  <2> QED BY <2>2, <2>3
<1> QED BY <1>1, SpecIInv, PTL

\* Any limit on attempts: what a job gets beyond it was lost with a process or with an
\* outcome (run, claimNext).
THEOREM SpecAttemptsAccounted == Spec => []AttemptsAccounted
<1>1. IInv => AttemptsAccounted
  BY DEF IInv, Counts, AttemptsAccounted
<1> QED BY <1>1, SpecIInv, PTL

-----------------------------------------------------------------------------
(* Memberships                                                             *)

\* A finite set of numbers that is not empty has a greatest and a least.
LEMMA GreatestExists ==
  ASSUME NEW S, IsFiniteSet(S), S \subseteq Nat, S # {}
  PROVE  Max(S) \in S /\ \A y \in S : Max(S) >= y
<1> DEFINE Above(x) == {y \in S : y > x}
           A == {Above(x) : x \in S}
<1>1. PICK D \in A : \A E \in A : <<E, D>> \notin StrictSubsetOrdering(S)
  <2>1. A \subseteq FiniteSubsetsOf(S) /\ A # {}
    <3>1. \A y \in S : Above(y) \in SUBSET S /\ IsFiniteSet(Above(y))
      <4> SUFFICES ASSUME NEW y \in S PROVE Above(y) \in SUBSET S /\ IsFiniteSet(Above(y))
        OBVIOUS
      <4>1. Above(y) \in SUBSET S
        OBVIOUS
      <4> HIDE DEF Above
      <4> QED BY <4>1, FS_Subset
    <3> HIDE DEF Above
    <3> QED BY <3>1 DEF FiniteSubsetsOf
  <2>2. IsWellFoundedOn(StrictSubsetOrdering(S), FiniteSubsetsOf(S))
    BY FS_StrictSubsetOrderingWellFounded
  <2> HIDE DEF A
  <2> QED BY <2>1, <2>2, WFMin
<1>2. PICK x \in S : D = Above(x)
  OBVIOUS
<1>3. \A z \in S : ~(z > x)
  <2> SUFFICES ASSUME NEW z \in S, z > x PROVE FALSE
    OBVIOUS
  <2>1. Above(z) \in A /\ Above(z) \in SUBSET S /\ Above(x) \in SUBSET S
    OBVIOUS
  <2>2. Above(z) \subseteq Above(x) /\ z \in Above(x) /\ z \notin Above(z)
    <3>1. \A y \in S : y > z => y > x
      OBVIOUS
    <3>2. ~(z > z)
      OBVIOUS
    <3> QED BY <3>1, <3>2
  <2>3. <<Above(z), Above(x)>> \in StrictSubsetOrdering(S)
    <3> HIDE DEF Above
    <3> QED BY <2>1, <2>2 DEF StrictSubsetOrdering
  <2> HIDE DEF Above, A
  <2> QED BY <1>1, <1>2, <2>1, <2>3
<1>4. \A y \in S : x >= y
  BY <1>3
<1> QED BY <1>4 DEF Max

LEMMA LeastExists ==
  ASSUME NEW S, IsFiniteSet(S), S \subseteq Nat, S # {}
  PROVE  Min(S) \in S
<1> DEFINE Below(x) == {y \in S : y < x}
           B == {Below(x) : x \in S}
<1>1. PICK D \in B : \A E \in B : <<E, D>> \notin StrictSubsetOrdering(S)
  <2>1. B \subseteq FiniteSubsetsOf(S) /\ B # {}
    <3>1. \A y \in S : Below(y) \in SUBSET S /\ IsFiniteSet(Below(y))
      <4> SUFFICES ASSUME NEW y \in S PROVE Below(y) \in SUBSET S /\ IsFiniteSet(Below(y))
        OBVIOUS
      <4>1. Below(y) \in SUBSET S
        OBVIOUS
      <4> HIDE DEF Below
      <4> QED BY <4>1, FS_Subset
    <3> HIDE DEF Below
    <3> QED BY <3>1 DEF FiniteSubsetsOf
  <2>2. IsWellFoundedOn(StrictSubsetOrdering(S), FiniteSubsetsOf(S))
    BY FS_StrictSubsetOrderingWellFounded
  <2> HIDE DEF B
  <2> QED BY <2>1, <2>2, WFMin
<1>2. PICK x \in S : D = Below(x)
  OBVIOUS
<1>3. \A z \in S : ~(z < x)
  <2> SUFFICES ASSUME NEW z \in S, z < x PROVE FALSE
    OBVIOUS
  <2>1. Below(z) \in B /\ Below(z) \in SUBSET S /\ Below(x) \in SUBSET S
    OBVIOUS
  <2>2. Below(z) \subseteq Below(x) /\ z \in Below(x) /\ z \notin Below(z)
    <3>1. \A y \in S : y < z => y < x
      OBVIOUS
    <3>2. ~(z < z)
      OBVIOUS
    <3> QED BY <3>1, <3>2
  <2>3. <<Below(z), Below(x)>> \in StrictSubsetOrdering(S)
    <3> HIDE DEF Below
    <3> QED BY <2>1, <2>2 DEF StrictSubsetOrdering
  <2> HIDE DEF Below, B
  <2> QED BY <1>1, <1>2, <2>1, <2>3
<1>4. \A y \in S : x =< y
  BY <1>3
<1> QED BY <1>4 DEF Min

LEMMA RowsFinite ==
  ASSUME NEW S, S \subseteq Rows
  PROVE  IsFiniteSet(S) /\ S \subseteq Nat
<1>1. IsFiniteSet(Rows)
  BY FS_Interval, MembershipsAssumption DEF Rows
<1>2. IsFiniteSet(S)
  BY <1>1, FS_Subset
<1> QED BY <1>2, MembershipsAssumption DEF Rows

\* Of two numbers one is the greater.
LEMMA GreaterOfTwo ==
  ASSUME NEW a \in Nat, NEW b \in Nat
  PROVE  Max({a, b}) \in {a, b} /\ Max({a, b}) >= a /\ Max({a, b}) >= b
<1>1. \E x \in {a, b} : \A y \in {a, b} : x >= y
  OBVIOUS
<1> QED BY <1>1 DEF Max

-----------------------------------------------------------------------------
\* The records: one is live at most, and nobody runs on more than was granted.
RecordsInv ==
  /\ row \in [Rows -> RowRecords] /\ isOpen \in BOOLEAN
  /\ granted \in 0 .. MaxLimit
  /\ OneLive
  /\ \A r \in Rows : row[r].status = "active" => row[r].limit <= granted

\* The calls: a check is of a device, and goes by what was granted once.
CallsInv ==
  /\ call \in [Calls -> CallRecords]
  /\ \A c \in Calls : call[c].stage = "admitting" =>
       call[c].device \in Devices /\ call[c].most <= granted

\* The devices.
DevicesInv ==
  /\ known \subseteq Devices /\ blocked \subseteq known /\ restored \subseteq known
  /\ IsFiniteSet(known)
  /\ PlacesWithinGrant

MInv == RecordsInv /\ CallsInv /\ DevicesInv

LEMMA NoCallTyped == NoRow \in RowRecords /\ NoCall \in CallRecords
BY MembershipsAssumption DEF NoRow, RowRecords, NoCall, CallRecords, Live, Ended

LEMMA InitMInv == MembershipInit => MInv
<1> SUFFICES ASSUME MembershipInit PROVE MInv
  OBVIOUS
<1> USE MembershipsAssumption DEF MembershipInit
<1>1. RecordsInv
  <2>1. row \in [Rows -> RowRecords] /\ \A r \in Rows : row[r] = NoRow
    BY NoCallTyped
  <2>2. \A r \in Rows : row[r].status = "none" /\ row[r].key = FALSE
    BY <2>1 DEF NoRow
  <2>3. OneLive
    BY <2>2 DEF OneLive, Live
  <2> QED BY <2>1, <2>2, <2>3 DEF RecordsInv
<1>2. CallsInv
  <2>1. call \in [Calls -> CallRecords] /\ \A c \in Calls : call[c] = NoCall
    BY NoCallTyped
  <2> QED BY <2>1 DEF CallsInv, NoCall
<1>3. DevicesInv
  <2>1. Placed \ restored = {}
    BY DEF Placed
  <2> QED BY <2>1, FS_EmptySet DEF DevicesInv, PlacesWithinGrant
<1> QED BY <1>1, <1>2, <1>3 DEF MInv

\* What a call comes to next, when no device does and no less is granted.
LEMMA CallGoes ==
  ASSUME MInv, NEW c \in Calls, NEW to \in CallRecords, Goes(c, to),
         to.stage = "admitting" => to.device \in Devices /\ to.most <= granted, UNCHANGED granted
  PROVE  CallsInv'
BY DEF MInv, CallsInv, Goes

\* The devices stay as they are, and no less is granted.
LEMMA SameDevices ==
  ASSUME MInv, UNCHANGED deviceVars, granted' \in Nat, granted' >= granted
  PROVE  DevicesInv'
<1> USE DEF MInv, DevicesInv, PlacesWithinGrant, deviceVars
<1>1. (Placed \ restored)' = Placed \ restored
  BY DEF Placed
<1>2. IsFiniteSet(Placed \ restored)
  BY FS_Subset DEF Placed
<1>3. Cardinality(Placed \ restored) \in Nat /\ granted \in Nat
  BY <1>2, FS_CardinalityType, MembershipsAssumption DEF RecordsInv
<1>4. (Cardinality(Placed \ restored) <= granted)'
  BY <1>1, <1>3
<1> QED BY <1>4

\* The calls stay as they are, and no less is granted.
LEMMA SameCalls ==
  ASSUME MInv, UNCHANGED call, granted' \in Nat, granted' >= granted
  PROVE  CallsInv'
<1>1. \A c \in Calls : call[c].most \in Nat
  BY MembershipsAssumption DEF MInv, CallsInv, CallRecords
<1>2. granted \in Nat
  BY MembershipsAssumption DEF MInv, RecordsInv
<1> QED BY <1>1, <1>2 DEF MInv, CallsInv

\* One record is written: its key goes with being live, and no other has it.
LEMMA OneWritten ==
  ASSUME MInv, NEW r \in Rows, NEW n \in RowRecords, row' = [row EXCEPT ![r] = n],
         isOpen' \in BOOLEAN, granted' \in 0 .. MaxLimit, granted' >= granted,
         n.key <=> n.status \in Live,
         n.key => KeyFree(r),
         n.status = "active" => n.limit <= granted'
  PROVE  RecordsInv'
<1> USE DEF MInv, RecordsInv
<1>1. row' \in [Rows -> RowRecords] /\ \A s \in Rows : row'[s] = IF s = r THEN n ELSE row[s]
  OBVIOUS
<1>2. \A s \in Rows : row'[s].key <=> row'[s].status \in Live
  BY <1>1 DEF OneLive
<1>3. n.status \in Live => \A s \in Rows : row[s].status \in Live => s = r
  BY DEF OneLive, KeyFree, Keyed
<1>4. \A s \in Rows : \A t \in Rows :
        row'[s].status \in Live /\ row'[t].status \in Live => s = t
  BY <1>1, <1>3 DEF OneLive
<1>5. OneLive'
  BY <1>2, <1>4 DEF OneLive
<1>6. \A s \in Rows : row[s].limit \in Nat /\ granted \in Nat /\ granted' \in Nat
  BY MembershipsAssumption DEF RowRecords
<1>7. \A s \in Rows : row'[s].status = "active" => row'[s].limit <= granted'
  BY <1>1, <1>6
<1> QED BY <1>1, <1>5, <1>7

\* The records stay as they are.
LEMMA SameRecords ==
  ASSUME MInv, UNCHANGED <<row, granted>>, isOpen' \in BOOLEAN
  PROVE  RecordsInv'
BY DEF MInv, RecordsInv, OneLive
-----------------------------------------------------------------------------
\* Who has the key is the only one to have it.
LEMMA KeyIsFree ==
  ASSUME MInv, NEW r \in Rows, row[r].key
  PROVE  KeyFree(r)
BY DEF MInv, RecordsInv, OneLive, KeyFree, Keyed

\* One record is written, and nothing of calls and devices.
LEMMA WriteStep ==
  ASSUME MInv, NEW r \in Rows, NEW n \in RowRecords, row' = [row EXCEPT ![r] = n],
         UNCHANGED <<isOpen, call, deviceVars>>,
         granted' \in 0 .. MaxLimit, granted' >= granted,
         n.key <=> n.status \in Live,
         n.key => KeyFree(r),
         n.status = "active" => n.limit <= granted'
  PROVE  MInv'
<1>1. isOpen' \in BOOLEAN /\ granted' \in Nat
  BY MembershipsAssumption DEF MInv, RecordsInv
<1>2. RecordsInv'
  BY <1>1, OneWritten
<1> QED BY <1>1, <1>2, SameCalls, SameDevices DEF MInv

\* A call writes one record and goes on to something that is not a check.
LEMMA CallWriteStep ==
  ASSUME MInv, NEW c \in Calls, NEW r \in Rows, NEW n \in RowRecords,
         row' = [row EXCEPT ![r] = n],
         NEW to \in CallRecords, Goes(c, to), to.stage # "admitting",
         UNCHANGED <<isOpen, deviceVars, granted>>,
         n.key <=> n.status \in Live,
         n.key => KeyFree(r),
         n.status = "active" => n.limit <= granted
  PROVE  MInv'
<1>1. isOpen' \in BOOLEAN /\ granted' \in Nat /\ granted' \in 0 .. MaxLimit /\ granted' >= granted
  BY MembershipsAssumption DEF MInv, RecordsInv
<1>2. RecordsInv'
  BY <1>1, OneWritten
<1> QED BY <1>1, <1>2, CallGoes, SameDevices DEF MInv

\* A call goes on and writes nothing.
LEMMA CallStep ==
  ASSUME MInv, NEW c \in Calls, NEW to \in CallRecords, Goes(c, to),
         to.stage = "admitting" => to.device \in Devices /\ to.most <= granted,
         UNCHANGED <<row, isOpen, deviceVars, granted>>
  PROVE  MInv'
<1>1. isOpen' \in BOOLEAN /\ granted' \in Nat /\ granted' >= granted
  BY MembershipsAssumption DEF MInv, RecordsInv
<1> QED BY <1>1, SameRecords, CallGoes, SameDevices DEF MInv

-----------------------------------------------------------------------------
LEMMA RunsOutStep == ASSUME MInv, NEW r \in Rows, RunsOut(r) PROVE MInv'
<1> DEFINE n == [row[r] EXCEPT !.ends = "past"]
<1>1. row[r] \in RowRecords /\ granted \in 0 .. MaxLimit /\ granted <= granted
  BY MembershipsAssumption DEF MInv, RecordsInv
<1>2. n \in RowRecords /\ n.key = row[r].key /\ n.status = row[r].status /\ n.limit = row[r].limit
  BY <1>1 DEF RowRecords
<1>3. row' = [row EXCEPT ![r] = n] /\ UNCHANGED <<isOpen, call, deviceVars, granted>>
  BY DEF RunsOut
<1>4. /\ row[r].key <=> row[r].status \in Live
      /\ row[r].status = "active" => row[r].limit <= granted
  BY DEF MInv, RecordsInv, OneLive
<1> HIDE DEF n
<1> QED BY <1>1, <1>2, <1>3, <1>4, KeyIsFree, WriteStep

\* Expiring by id and by status keeps the key in step.
LEMMA ExpiredKept ==
  ASSUME MInv, NEW r \in Rows
  PROVE  /\ Expired(r) \in RowRecords
         /\ Expired(r).key <=> Expired(r).status \in Live
         /\ Expired(r).key => KeyFree(r)
         /\ Expired(r).status = "active" => Expired(r).limit <= granted
<1>1. row[r] \in RowRecords
  BY DEF MInv, RecordsInv
<1>2. CASE row[r].status = "active"
  <2>1. Expired(r) = [row[r] EXCEPT !.status = "expired", !.key = FALSE]
    BY <1>2 DEF Expired
  <2> QED BY <1>1, <2>1 DEF RowRecords, Ended, Live
<1>3. CASE row[r].status # "active"
  <2>1. Expired(r) = row[r]
    BY <1>3 DEF Expired
  <2>2. row[r].key <=> row[r].status \in Live
    BY DEF MInv, RecordsInv, OneLive
  <2> QED BY <1>1, <1>3, <2>1, <2>2, KeyIsFree
<1> QED BY <1>2, <1>3

LEMMA RequestExpireStep == ASSUME MInv, NEW c \in Calls, RequestExpire(c) PROVE MInv'
<1>1. call[c] \in CallRecords
  BY DEF MInv, CallsInv
<1>2. CASE call[c].row \in Rows
  <2>1. [NoCall EXCEPT !.stage = "looking"] \in CallRecords
        /\ [NoCall EXCEPT !.stage = "looking"].stage # "admitting"
    BY NoCallTyped DEF CallRecords, NoCall
  <2>2. /\ row' = [row EXCEPT ![call[c].row] = Expired(call[c].row)]
        /\ Goes(c, [NoCall EXCEPT !.stage = "looking"])
        /\ UNCHANGED <<isOpen, deviceVars, granted>>
    BY DEF RequestExpire
  <2> QED BY <1>2, <2>1, <2>2, ExpiredKept, CallWriteStep
<1>3. CASE call[c].row \notin Rows
  <2>1. row' = row
    BY <1>3 DEF RequestExpire, MInv, RecordsInv
  <2>2. [NoCall EXCEPT !.stage = "looking"] \in CallRecords
        /\ [NoCall EXCEPT !.stage = "looking"].stage # "admitting"
    BY NoCallTyped DEF CallRecords, NoCall
  <2>3. Goes(c, [NoCall EXCEPT !.stage = "looking"]) /\ UNCHANGED <<isOpen, deviceVars, granted>>
    BY DEF RequestExpire
  <2> QED BY <2>1, <2>2, <2>3, CallStep
<1> QED BY <1>2, <1>3

LEMMA SweepExpireStep ==
  ASSUME MInv, NEW c \in Calls, NEW r \in Rows, SweepExpire(c, r)
  PROVE  MInv'
<1> DEFINE to == IF call[c].list \ {r} = {} THEN NoCall
                 ELSE [call[c] EXCEPT !.list = call[c].list \ {r}]
<1>1. call[c] \in CallRecords /\ call[c].stage = "sweeping"
  BY DEF MInv, CallsInv, SweepExpire
<1>2. to \in CallRecords /\ to.stage # "admitting"
  <2>1. [call[c] EXCEPT !.list = call[c].list \ {r}] \in CallRecords
        /\ [call[c] EXCEPT !.list = call[c].list \ {r}].stage # "admitting"
    BY <1>1 DEF CallRecords
  <2>2. NoCall \in CallRecords /\ NoCall.stage # "admitting"
    BY NoCallTyped DEF NoCall
  <2> QED BY <2>1, <2>2
<1>3. row' = [row EXCEPT ![r] = Expired(r)] /\ Goes(c, to)
      /\ UNCHANGED <<isOpen, deviceVars, granted>>
  BY DEF SweepExpire
<1> HIDE DEF to
<1> QED BY <1>2, <1>3, ExpiredKept, CallWriteStep

LEMMA RequestReadStep ==
  ASSUME MInv, NEW c \in Calls, RequestBegin(c) \/ RequestRead(c) \/ Stops(c)
  PROVE  MInv'
<1>1. /\ NoCall \in CallRecords /\ NoCall.stage # "admitting"
      /\ [NoCall EXCEPT !.stage = "reading"] \in CallRecords
      /\ [NoCall EXCEPT !.stage = "reading"].stage # "admitting"
      /\ [NoCall EXCEPT !.stage = "looking"] \in CallRecords
      /\ [NoCall EXCEPT !.stage = "looking"].stage # "admitting"
  BY NoCallTyped DEF CallRecords, NoCall
<1>2. \A r \in Rows : /\ [NoCall EXCEPT !.stage = "expiring", !.row = r] \in CallRecords
                      /\ [NoCall EXCEPT !.stage = "expiring", !.row = r].stage # "admitting"
  BY NoCallTyped DEF CallRecords, NoCall
<1>3. PICK to \in CallRecords : Goes(c, to) /\ to.stage # "admitting"
  <2>1. CASE RequestBegin(c)
    BY <1>1, <2>1 DEF RequestBegin
  <2>2. CASE Stops(c)
    BY <1>1, <2>2 DEF Stops
  <2>3. CASE RequestRead(c)
    <3>1. CASE Keyed = {}
      BY <1>1, <2>3, <3>1 DEF RequestRead
    <3>2. CASE Keyed # {}
      <4> DEFINE held == CHOOSE r \in Keyed : TRUE
      <4>1. held \in Rows
        BY <3>2 DEF Keyed
      <4>2. Goes(c, IF RunOut(held) THEN [NoCall EXCEPT !.stage = "expiring", !.row = held]
                    ELSE NoCall)
        BY <2>3, <3>2 DEF RequestRead
      <4> HIDE DEF held
      <4>3. CASE RunOut(held)
        BY <1>2, <4>1, <4>2, <4>3
      <4>4. CASE ~RunOut(held)
        BY <1>1, <4>2, <4>4
      <4> QED BY <4>3, <4>4
    <3> QED BY <3>1, <3>2
  <2> QED BY <2>1, <2>2, <2>3
<1>4. UNCHANGED <<row, isOpen, deviceVars, granted>>
  BY DEF RequestBegin, RequestRead, Stops
<1> QED BY <1>3, <1>4, CallStep

\* The newest of the records that ended is one of them, as it is now.
LEMMA CarryingTyped ==
  ASSUME MInv
  PROVE  Carrying \in CallRecords /\ Carrying.stage = "writing"
<1> DEFINE earlier == {r \in Rows : ~row[r].key /\ row[r].status \in Ended}
<1>1. CASE earlier = {}
  <2>1. Carrying = [NoCall EXCEPT !.stage = "writing", !.row = 0, !.copy = NoRow]
    BY <1>1 DEF Carrying
  <2> QED BY <2>1, NoCallTyped DEF CallRecords, NoCall
<1>2. CASE earlier # {}
  <2>1. earlier \subseteq Rows
    OBVIOUS
  <2>2. Carrying = LET r == Max(earlier)
                   IN [NoCall EXCEPT !.stage = "writing", !.row = r,
                                     !.copy = IF r = 0 THEN NoRow ELSE row[r]]
    BY <1>2 DEF Carrying
  <2> HIDE DEF earlier
  <2>3. PICK r \in Rows : r = Max(earlier)
    BY <1>2, <2>1, RowsFinite, GreatestExists
  <2>4. row[r] \in RowRecords /\ r # 0
    BY MembershipsAssumption DEF MInv, RecordsInv, Rows
  <2>5. Carrying = [NoCall EXCEPT !.stage = "writing", !.row = r, !.copy = row[r]]
    BY <2>2, <2>3, <2>4
  <2> QED BY <2>4, <2>5, NoCallTyped DEF CallRecords, NoCall
<1> QED BY <1>1, <1>2

LEMMA RequestLookStep == ASSUME MInv, NEW c \in Calls, RequestLook(c) PROVE MInv'
<1>1. Goes(c, Carrying) /\ UNCHANGED <<row, isOpen, deviceVars, granted>>
  BY DEF RequestLook
<1> QED BY <1>1, CarryingTyped, CallStep

\* A record of its own, where no other has the key.
LEMMA RequestCreateStep ==
  ASSUME MInv, NEW c \in Calls, NEW limit \in Asked, RequestCreate(c, limit)
  PROVE  MInv'
<1> DEFINE unused == {r \in Rows : row[r].status = "none"}
           n == [NoRow EXCEPT !.status = "pending", !.key = TRUE, !.limit = limit]
<1>1. unused \subseteq Rows /\ unused # {} /\ KeyFree(0)
  BY DEF RequestCreate
<1>2. row' = [row EXCEPT ![Min(unused)] = n] /\ Goes(c, NoCall)
      /\ UNCHANGED <<isOpen, deviceVars, granted>>
  BY DEF RequestCreate
<1>3. n \in RowRecords /\ n.key = TRUE /\ n.status = "pending"
  <2>1. limit \in 0 .. MaxLimit
    BY MembershipsAssumption
  <2> QED BY <2>1, NoCallTyped DEF RowRecords, Live, NoRow
<1> HIDE DEF unused, n
<1>4. PICK r \in Rows : r = Min(unused)
  BY <1>1, RowsFinite, LeastExists
<1>5. KeyFree(r)
  <2>1. 0 \notin Rows
    BY MembershipsAssumption DEF Rows
  <2> QED BY <1>1, <2>1 DEF KeyFree, Keyed
<1>6. NoCall.stage # "admitting" /\ (n.key <=> n.status \in Live)
  BY <1>3 DEF NoCall, Live
<1>7. n.status = "active" => n.limit <= granted
  BY <1>3
<1> QED BY <1>2, <1>3, <1>4, <1>5, <1>6, <1>7, NoCallTyped, CallWriteStep

\* The copy's record carries on, where no other has the key.
LEMMA RequestCarriesOnStep ==
  ASSUME MInv, NEW c \in Calls, NEW limit \in Asked, RequestCarriesOn(c, limit)
  PROVE  MInv'
<1> DEFINE r == call[c].row
           was == call[c].copy
           n == [status |-> "pending", key |-> TRUE,
                 ends |-> Column(row[r].ends, was.ends, "none"),
                 limit |-> Column(row[r].limit, was.limit, limit), past |-> was.past + 1]
<1>1. call[c] \in CallRecords /\ r # 0 /\ was.past < MaxPast /\ KeyFree(r)
  BY DEF MInv, CallsInv, RequestCarriesOn
<1>2. r \in Rows /\ was \in RowRecords
  BY <1>1 DEF CallRecords
<1>3. row[r] \in RowRecords /\ row \in [Rows -> RowRecords]
  BY <1>2 DEF MInv, RecordsInv
<1>4. row' = [row EXCEPT ![r] = n] /\ Goes(c, NoCall)
      /\ UNCHANGED <<isOpen, deviceVars, granted>>
  BY <1>3 DEF RequestCarriesOn
<1>5. Column(row[r].ends, was.ends, "none") \in {"none", "ahead", "past"}
  BY <1>3 DEF Column, RowRecords
<1>6. Column(row[r].limit, was.limit, limit) \in 0 .. MaxLimit
  BY <1>3, MembershipsAssumption DEF Column, RowRecords
<1>7. was.past + 1 \in 0 .. MaxPast
  BY <1>1, <1>2, MembershipsAssumption DEF RowRecords
<1>8. n \in RowRecords /\ n.key = TRUE /\ n.status = "pending"
  BY <1>5, <1>6, <1>7 DEF RowRecords, Live
<1> HIDE DEF n, r
<1>9. NoCall.stage # "admitting" /\ (n.key <=> n.status \in Live)
  BY <1>8 DEF NoCall, Live
<1>10. n.status = "active" => n.limit <= granted
  BY <1>8
<1> QED BY <1>1, <1>2, <1>4, <1>8, <1>9, <1>10, NoCallTyped, CallWriteStep

LEMMA GrantsMore ==
  ASSUME MInv, NEW limit \in Limits, Grants(limit)
  PROVE  granted' \in 0 .. MaxLimit /\ granted' >= granted /\ granted' >= limit
<1>1. granted \in 0 .. MaxLimit /\ limit \in 1 .. MaxLimit
  BY DEF MInv, RecordsInv, Limits
<1>2. granted \in Nat /\ limit \in Nat
  BY <1>1
<1>3. granted' = Max({granted, limit})
  BY DEF Grants
<1> QED BY <1>1, <1>2, <1>3, GreaterOfTwo, MembershipsAssumption

\* What a reviewer or the subscriber decides.
LEMMA DecisionStep ==
  ASSUME MInv, NEW r \in Rows,
         \/ \E limit \in Limits : Approve(r, limit) \/ Amend(r, limit) \/ Resume(r, limit)
         \/ Decline(r)
         \/ Cancel(r)
  PROVE  MInv'
<1>1. row[r] \in RowRecords
  BY DEF MInv, RecordsInv
<1>2. row[r].key <=> row[r].status \in Live
  BY DEF MInv, RecordsInv, OneLive
<1>3. ASSUME NEW limit \in Limits, Approve(r, limit) PROVE MInv'
  <2> DEFINE n == [row[r] EXCEPT !.status = "active", !.ends = "ahead", !.limit = limit]
  <2>1. Decide(r, n) /\ Grants(limit) /\ row[r].status = "pending"
    BY <1>3 DEF Approve
  <2>2. n \in RowRecords /\ n.key = row[r].key /\ n.status = "active" /\ n.limit = limit
    <3>1. limit \in 0 .. MaxLimit
      BY MembershipsAssumption DEF Limits
    <3> HIDE DEF Limits
    <3> QED BY <1>1, <3>1 DEF RowRecords, Live
  <2> HIDE DEF n
  <2>3. row[r].key /\ n.status \in Live
    BY <1>2, <2>1, <2>2 DEF Live
  <2>4. n.limit <= granted'
    BY <2>1, <2>2, GrantsMore, MembershipsAssumption DEF Limits
  <2> QED BY <2>1, <2>2, <2>3, <2>4, GrantsMore, KeyIsFree, WriteStep DEF Decide
<1>4. ASSUME NEW limit \in Limits, Amend(r, limit) PROVE MInv'
  <2> DEFINE n == [row[r] EXCEPT !.limit = limit]
  <2>1. Decide(r, n) /\ Grants(limit)
    BY <1>4 DEF Amend
  <2>2. n \in RowRecords /\ n.key = row[r].key /\ n.status = row[r].status /\ n.limit = limit
    BY <1>1, MembershipsAssumption DEF RowRecords, Limits
  <2> HIDE DEF n
  <2>3. n.limit <= granted'
    BY <2>1, <2>2, GrantsMore, MembershipsAssumption DEF Limits
  <2> QED BY <1>2, <2>1, <2>2, <2>3, GrantsMore, KeyIsFree, WriteStep DEF Decide
<1>5. ASSUME NEW limit \in Limits, Resume(r, limit) PROVE MInv'
  <2> DEFINE n == [status |-> "active", key |-> TRUE, ends |-> "ahead", limit |-> limit,
                   past |-> row[r].past + 1]
  <2>1. Decide(r, n) /\ Grants(limit) /\ KeyFree(r) /\ row[r].past < MaxPast
    BY <1>5 DEF Resume
  <2>2. row[r].past + 1 \in 0 .. MaxPast
    BY <1>1, <2>1, MembershipsAssumption DEF RowRecords
  <2>3. n \in RowRecords /\ n.key = TRUE /\ n.status = "active" /\ n.limit = limit
    BY <2>2, MembershipsAssumption DEF RowRecords, Live, Limits
  <2> HIDE DEF n
  <2>4. n.limit <= granted' /\ n.status \in Live
    BY <2>1, <2>3, GrantsMore, MembershipsAssumption DEF Limits, Live
  <2> QED BY <2>1, <2>3, <2>4, GrantsMore, WriteStep DEF Decide
<1>6. granted \in 0 .. MaxLimit /\ granted >= granted
  BY MembershipsAssumption DEF MInv, RecordsInv
<1>7. CASE Decline(r)
  <2> DEFINE n == [row[r] EXCEPT !.status = "declined", !.key = FALSE]
  <2>1. Decide(r, n) /\ UNCHANGED granted
    BY <1>7 DEF Decline
  <2>2. n \in RowRecords /\ n.key = FALSE /\ n.status = "declined"
    BY <1>1 DEF RowRecords, Ended
  <2> HIDE DEF n
  <2>3. (n.key <=> n.status \in Live) /\ ~(n.status = "active")
    BY <2>2 DEF Live
  <2> QED BY <1>6, <2>1, <2>2, <2>3, WriteStep DEF Decide
<1>8. CASE Cancel(r)
  <2> DEFINE n == [row[r] EXCEPT !.status = "cancelled", !.key = FALSE]
  <2>1. Decide(r, n) /\ UNCHANGED granted
    BY <1>8 DEF Cancel
  <2>2. n \in RowRecords /\ n.key = FALSE /\ n.status = "cancelled"
    BY <1>1 DEF RowRecords, Ended
  <2> HIDE DEF n
  <2>3. (n.key <=> n.status \in Live) /\ ~(n.status = "active")
    BY <2>2 DEF Live
  <2> QED BY <1>6, <2>1, <2>2, <2>3, WriteStep DEF Decide
<1> QED BY <1>3, <1>4, <1>5, <1>7, <1>8

LEMMA OpenStep == ASSUME MInv, Close \/ Reopen PROVE MInv'
<1>1. UNCHANGED <<call, deviceVars, granted>> /\ isOpen' \in BOOLEAN
  BY DEF Close, Reopen
<1>2. granted' \in Nat /\ granted' >= granted
  BY <1>1, MembershipsAssumption DEF MInv, RecordsInv
<1>3. RecordsInv'
  <2>1. CASE Reopen
    BY <1>1, <2>1, SameRecords DEF Reopen
  <2>2. CASE Close
    <3>1. \A r \in Rows : row[r] \in RowRecords /\ (row[r].key <=> row[r].status \in Live)
      BY DEF MInv, RecordsInv, OneLive
    <3>2. \A r \in Rows :
            LET n == [row[r] EXCEPT !.status = "declined", !.key = FALSE]
            IN n \in RowRecords /\ n.key = FALSE /\ n.status = "declined"
      BY <3>1 DEF RowRecords, Ended
    <3>3. row' = [r \in Rows |-> IF row[r].status = "pending"
                    THEN [row[r] EXCEPT !.status = "declined", !.key = FALSE] ELSE row[r]]
      BY <2>2 DEF Close, Declines
    <3>4. row' \in [Rows -> RowRecords]
      BY <3>1, <3>2, <3>3
    <3>5. \A r \in Rows : /\ row'[r].key <=> row'[r].status \in Live
                          /\ row'[r].status \in Live => row'[r] = row[r]
      BY <3>1, <3>2, <3>3 DEF Live
    <3>6. OneLive'
      BY <3>5 DEF OneLive, MInv, RecordsInv
    <3>7. \A r \in Rows : row'[r].status = "active" => row'[r].limit <= granted'
      BY <1>1, <3>5 DEF MInv, RecordsInv, Live
    <3> QED BY <1>1, <3>4, <3>6, <3>7 DEF MInv, RecordsInv
  <2> QED BY <2>1, <2>2
<1> QED BY <1>1, <1>2, <1>3, SameCalls, SameDevices DEF MInv

LEMMA SweepReadStep == ASSUME MInv, NEW c \in Calls, SweepRead(c) PROVE MInv'
<1> DEFINE to == [NoCall EXCEPT !.stage = "sweeping", !.list = {r \in Rows : RunOut(r)}]
<1>1. Goes(c, to) /\ UNCHANGED <<row, isOpen, deviceVars, granted>>
  BY DEF SweepRead
<1>2. to \in CallRecords /\ to.stage # "admitting"
  BY NoCallTyped DEF CallRecords, NoCall
<1> HIDE DEF to
<1> QED BY <1>1, <1>2, CallStep

\* What a check reads as allowed is the limit of a record that runs.
LEMMA CheckReadStep ==
  ASSUME MInv, NEW c \in Calls, NEW d \in Devices, CheckRead(c, d)
  PROVE  MInv'
<1> DEFINE limits == {row[r].limit : r \in {s \in Rows : Running(s)}}
<1>1. limits # {}
  BY DEF CheckRead
<1>2. limits \subseteq 0 .. MaxLimit /\ \A m \in limits : m <= granted
  BY DEF MInv, RecordsInv, Running, RowRecords
<1>3. Goes(c, [NoCall EXCEPT !.stage = "admitting", !.device = d, !.most = Max(limits)])
      /\ UNCHANGED <<row, isOpen, deviceVars, granted>>
  BY DEF CheckRead
<1> HIDE DEF limits
<1>4. IsFiniteSet(limits) /\ limits \subseteq Nat
  <2>1. IsFiniteSet(0 .. MaxLimit)
    BY FS_Interval, MembershipsAssumption
  <2>2. IsFiniteSet(limits)
    BY <1>2, <2>1, FS_Subset
  <2> QED BY <1>2, <2>2, MembershipsAssumption
<1>5. PICK m \in limits : m = Max(limits)
  BY <1>1, <1>4, GreatestExists
<1> DEFINE to == [NoCall EXCEPT !.stage = "admitting", !.device = d, !.most = m]
<1>6. to \in CallRecords /\ to.most = m /\ to.device = d
  BY <1>2, NoCallTyped DEF CallRecords, NoCall
<1>7. Goes(c, to) /\ to.most <= granted
  BY <1>2, <1>3, <1>5, <1>6
<1> HIDE DEF to
<1> QED BY <1>3, <1>6, <1>7, CallStep

-----------------------------------------------------------------------------
\* Fewer have a place, or it is one that was given back.
LEMMA FewerPlaces ==
  ASSUME MInv, (Placed \ restored)' \subseteq Placed \ restored, UNCHANGED granted
  PROVE  PlacesWithinGrant'
<1>1. IsFiniteSet(Placed \ restored)
  BY FS_Subset DEF MInv, DevicesInv, Placed
<1>2. Cardinality((Placed \ restored)') <= Cardinality(Placed \ restored)
  BY <1>1, FS_Subset
<1>3. Cardinality(Placed \ restored) \in Nat /\ Cardinality((Placed \ restored)') \in Nat
  BY <1>1, FS_Subset, FS_CardinalityType
<1>4. granted \in Nat /\ Cardinality(Placed \ restored) <= granted
  BY MembershipsAssumption DEF MInv, RecordsInv, DevicesInv, PlacesWithinGrant
<1>5. Cardinality((Placed \ restored)') <= granted'
  BY <1>2, <1>3, <1>4
<1> QED BY <1>5 DEF PlacesWithinGrant

LEMMA BlockingStep ==
  ASSUME MInv, NEW d \in Devices, Block(d) \/ Unblock(d) \/ Forget(d)
  PROVE  MInv'
<1>1. UNCHANGED <<row, isOpen, call, granted>>
  BY DEF Block, Unblock, Forget
<1>2. granted' \in Nat /\ granted' >= granted /\ isOpen' \in BOOLEAN
  BY <1>1, MembershipsAssumption DEF MInv, RecordsInv
<1>3. /\ known' \subseteq known
      /\ blocked' \subseteq known' /\ restored' \subseteq known'
      /\ (Placed \ restored)' \subseteq Placed \ restored
  BY DEF Block, Unblock, Forget, Placed, MInv, DevicesInv
<1>4. IsFiniteSet(known') /\ known' \subseteq Devices
  BY <1>3, FS_Subset DEF MInv, DevicesInv
<1>5. DevicesInv'
  BY <1>1, <1>3, <1>4, FewerPlaces DEF DevicesInv
<1> QED BY <1>1, <1>2, <1>5, SameRecords, SameCalls DEF MInv

\* A new device takes a place where there was room within what the check had read.
LEMMA AdmitStep == ASSUME MInv, NEW c \in Calls, Admit(c) PROVE MInv'
<1> DEFINE d == call[c].device
           most == call[c].most
<1>1. /\ Goes(c, NoCall) /\ UNCHANGED <<row, isOpen, blocked, restored, granted>>
      /\ known' = IF d \notin known /\ Room(most) THEN known \union {d} ELSE known
      /\ call[c].stage = "admitting"
  BY DEF Admit
<1>2. isOpen' \in BOOLEAN /\ NoCall \in CallRecords /\ NoCall.stage # "admitting"
  BY <1>1, NoCallTyped DEF MInv, RecordsInv, NoCall
<1>3. RecordsInv' /\ CallsInv'
  BY <1>1, <1>2, SameRecords, CallGoes
<1>4. DevicesInv'
  <2>1. CASE known' = known
    BY <1>1, <2>1, FewerPlaces DEF MInv, DevicesInv, Placed
  <2>2. CASE d \notin known /\ Room(most) /\ known' = known \union {d}
    <3>1. most <= granted /\ most \in Nat /\ granted \in Nat /\ d \in Devices \union {NoDevice}
      BY <1>1, MembershipsAssumption DEF MInv, RecordsInv, CallsInv, CallRecords
    <3>2. IsFiniteSet(Placed) /\ IsFiniteSet(Placed \ restored)
      BY FS_Subset DEF MInv, DevicesInv, Placed
    <3>3. Cardinality(Placed \ restored) <= Cardinality(Placed)
      BY <3>2, FS_Subset
    <3>4. Cardinality(Placed) \in Nat /\ Cardinality(Placed \ restored) \in Nat
      BY <3>2, FS_CardinalityType
    <3>5. (Placed \ restored)' = (Placed \ restored) \union {d} /\ d \notin Placed \ restored
      BY <1>1, <2>2 DEF Placed, MInv, DevicesInv
    <3>6. Cardinality((Placed \ restored) \union {d}) = Cardinality(Placed \ restored) + 1
      BY <3>2, <3>5, FS_AddElement
    <3>7. Cardinality(Placed) < most
      BY <2>2 DEF Room
    <3>8. Cardinality((Placed \ restored) \union {d}) <= granted
      BY <3>1, <3>3, <3>4, <3>6, <3>7
    <3>9. PlacesWithinGrant'
      BY <1>1, <3>5, <3>8 DEF PlacesWithinGrant
    <3>10. IsFiniteSet(known')
      BY <2>2, FS_AddElement DEF MInv, DevicesInv
    <3>11. d \in Devices
      BY <1>1 DEF MInv, CallsInv
    <3> QED BY <1>1, <2>2, <3>9, <3>10, <3>11 DEF MInv, DevicesInv
  <2> QED BY <1>1, <2>1, <2>2
<1> QED BY <1>3, <1>4 DEF MInv

LEMMA NextMInv == MInv /\ [MembershipNext]_membershipVars => MInv'
<1> SUFFICES ASSUME MInv, [MembershipNext]_membershipVars PROVE MInv'
  OBVIOUS
<1>1. CASE UNCHANGED membershipVars
  <2>1. UNCHANGED <<row, isOpen, call, granted, known, blocked, restored>>
    BY <1>1 DEF membershipVars
  <2> QED BY <2>1 DEF MInv, RecordsInv, OneLive, CallsInv, DevicesInv, PlacesWithinGrant, Placed
<1>2. CASE \E r \in Rows : RunsOut(r)
  BY <1>2, RunsOutStep
<1>3. CASE \E c \in Calls : RequestBegin(c) \/ RequestRead(c) \/ Stops(c)
  BY <1>3, RequestReadStep
<1>4. CASE \E c \in Calls : RequestExpire(c)
  BY <1>4, RequestExpireStep
<1>5. CASE \E c \in Calls : RequestLook(c)
  BY <1>5, RequestLookStep
<1>6. CASE \E c \in Calls, limit \in Asked : RequestCreate(c, limit)
  BY <1>6, RequestCreateStep
<1>7. CASE \E c \in Calls, limit \in Asked : RequestCarriesOn(c, limit)
  BY <1>7, RequestCarriesOnStep
<1>8. CASE \E r \in Rows : \/ \E limit \in Limits : Approve(r, limit) \/ Amend(r, limit) \/ Resume(r, limit)
                           \/ Decline(r)
                           \/ Cancel(r)
  BY <1>8, DecisionStep
<1>9. CASE Close \/ Reopen
  BY <1>9, OpenStep
<1>10. CASE \E c \in Calls : SweepRead(c)
  BY <1>10, SweepReadStep
<1>11. CASE \E c \in Calls, r \in Rows : SweepExpire(c, r)
  BY <1>11, SweepExpireStep
<1>12. CASE \E c \in Calls, d \in Devices : CheckRead(c, d)
  BY <1>12, CheckReadStep
<1>13. CASE \E c \in Calls : Admit(c)
  BY <1>13, AdmitStep
<1>14. CASE \E d \in Devices : Block(d) \/ Unblock(d) \/ Forget(d)
  BY <1>14, BlockingStep
<1> QED BY <1>1, <1>2, <1>3, <1>4, <1>5, <1>6, <1>7, <1>8, <1>9, <1>10, <1>11, <1>12, <1>13,
           <1>14 DEF MembershipNext

LEMMA SpecMInv == MembershipSpec => []MInv
BY InitMInv, NextMInv, PTL DEF MembershipSpec

-----------------------------------------------------------------------------
\* The types of the records, the calls and the devices, for any of them.
THEOREM SpecMembershipTypeOK == MembershipSpec => []MembershipTypeOK
<1>1. MInv => MembershipTypeOK
  BY DEF MInv, RecordsInv, CallsInv, DevicesInv, MembershipTypeOK
<1> QED BY <1>1, SpecMInv, PTL

\* Any number of records, requests and sweeps: one subscription to a thing is live at
\* most, and its key says which (subscriptionService: request, expire, change).
THEOREM SpecOneLive == MembershipSpec => []OneLive
<1>1. MInv => OneLive
  BY DEF MInv, RecordsInv
<1> QED BY <1>1, SpecMInv, PTL

\* Any number of devices, checks and limits: but for those that were unblocked, no more
\* devices have a place than some decision allowed (deviceService.admit).
THEOREM SpecPlacesWithinGrant == MembershipSpec => []PlacesWithinGrant
<1>1. MInv => PlacesWithinGrant
  BY DEF MInv, DevicesInv
<1> QED BY <1>1, SpecMInv, PTL

\* A step that stops a record running is its period's end, a cancellation, or a call's
\* that had read it.
LEMMA StepRunsOn ==
  ASSUME MInv, [MembershipNext]_membershipVars, NEW r \in Rows, Running(r), ~Running(r)'
  PROVE  \/ row'[r].status = "cancelled" \/ row'[r].ends = "past"
         \/ \E c \in Calls : r \in WorksOn(c)
<1>1. row \in [Rows -> RowRecords]
  BY DEF MInv, RecordsInv
<1>2. row[r].status = "active" /\ row[r].ends = "ahead" /\ row'[r] # row[r]
  BY DEF Running
<1>3. CASE \E s \in Rows : RunsOut(s)
  BY <1>1, <1>2, <1>3 DEF RunsOut
<1>4. CASE \E c \in Calls : RequestExpire(c)
  BY <1>1, <1>2, <1>4 DEF RequestExpire, WorksOn
<1>5. CASE \E c \in Calls, limit \in Asked : RequestCreate(c, limit)
  <2>1. PICK limit \in Asked : \E c \in Calls : RequestCreate(c, limit)
    BY <1>5
  <2> DEFINE unused == {s \in Rows : row[s].status = "none"}
  <2>2. unused \subseteq Rows /\ unused # {}
    BY <2>1 DEF RequestCreate
  <2>3. row' = [row EXCEPT ![Min(unused)] =
                  [NoRow EXCEPT !.status = "pending", !.key = TRUE, !.limit = limit]]
    BY <2>1 DEF RequestCreate
  <2>4. r \notin unused
    BY <1>2
  <2> HIDE DEF unused
  <2>5. Min(unused) \in unused
    BY <2>2, RowsFinite, LeastExists
  <2>6. row'[r] = row[r]
    BY <1>1, <2>3, <2>4, <2>5
  <2> QED BY <1>2, <2>6
<1>6. CASE \E c \in Calls, limit \in Asked : RequestCarriesOn(c, limit)
  <2>1. PICK c \in Calls : \E limit \in Asked : RequestCarriesOn(c, limit)
    BY <1>6
  <2>2. call[c].row # r => row'[r] = row[r]
    BY <1>1, <2>1 DEF RequestCarriesOn
  <2> QED BY <1>2, <2>1, <2>2 DEF WorksOn
<1>7. ASSUME NEW s \in Rows, NEW limit \in Limits, Approve(s, limit) \/ Resume(s, limit)
      PROVE  Running(r)'
  <2>1. CASE s = r
    BY <1>1, <1>7, <2>1 DEF Approve, Resume, Decide, Running
  <2>2. CASE s # r
    BY <1>1, <1>2, <1>7, <2>2 DEF Approve, Resume, Decide
  <2> QED BY <2>1, <2>2
<1>8. ASSUME NEW s \in Rows, NEW limit \in Limits, Amend(s, limit)
      PROVE  Running(r)'
  BY <1>1, <1>2, <1>8 DEF Amend, Decide, Running
<1>9. CASE \E s \in Rows : Decline(s)
  BY <1>1, <1>2, <1>9 DEF Decline, Decide
<1>10. CASE \E s \in Rows : Cancel(s)
  BY <1>1, <1>2, <1>10 DEF Cancel, Decide
<1>11. CASE Close
  BY <1>1, <1>2, <1>11 DEF Close, Declines
<1>12. CASE \E c \in Calls, s \in Rows : SweepExpire(c, s)
  BY <1>1, <1>2, <1>12 DEF SweepExpire, WorksOn
<1>13. CASE UNCHANGED row
  BY <1>2, <1>13
<1>14. \/ \E s \in Rows : RunsOut(s)
       \/ \E c \in Calls : RequestExpire(c)
       \/ \E c \in Calls, limit \in Asked : RequestCreate(c, limit)
       \/ \E c \in Calls, limit \in Asked : RequestCarriesOn(c, limit)
       \/ \E s \in Rows, limit \in Limits : Approve(s, limit) \/ Resume(s, limit)
       \/ \E s \in Rows, limit \in Limits : Amend(s, limit)
       \/ \E s \in Rows : Decline(s)
       \/ \E s \in Rows : Cancel(s)
       \/ Close
       \/ \E c \in Calls, s \in Rows : SweepExpire(c, s)
       \/ UNCHANGED row
  BY DEF MembershipNext, membershipVars, RequestBegin, RequestRead, RequestLook, Stops, Reopen,
         SweepRead, CheckRead, Admit, Block, Unblock, Forget
<1> QED BY <1>3, <1>4, <1>5, <1>6, <1>7, <1>8, <1>9, <1>10, <1>11, <1>12, <1>13, <1>14

\* Any number of records and calls: a subscription that runs is ended by its period, by a
\* cancellation or by a call that had read it, and by nothing else.
THEOREM SpecRunsOn == MembershipSpec => RunsOn
<1>1. MInv /\ [MembershipNext]_membershipVars =>
        [\A r \in Rows : Running(r) /\ ~Running(r)' =>
           \/ row'[r].status = "cancelled" \/ row'[r].ends = "past"
           \/ \E c \in Calls : r \in WorksOn(c)]_membershipVars
  BY StepRunsOn
<1> QED BY <1>1, SpecMInv, PTL DEF MembershipSpec, RunsOn
=============================================================================
