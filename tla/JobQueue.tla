------------------------------- MODULE JobQueue -------------------------------
(***************************************************************************)
(* The durable job queue (jobService): jobs in a table, workers in several *)
(* processes that claim them under a lease.                                *)
(*                                                                         *)
(* A claim is one conditional update.  What a worker writes when it has    *)
(* run a job is not conditional: it names the job and nothing else.  Time  *)
(* is left out: a lease may lapse at any moment, because a worker that     *)
(* stalls, or cannot reach the database, renews nothing.  A process that   *)
(* comes back has a new identity; the rows of the one before it are held   *)
(* by Gone.  Priorities are left out too: any due job may be claimed.      *)
(***************************************************************************)
EXTENDS Integers, FiniteSets

CONSTANTS
  Jobs,         \* ids of job rows
  Workers,      \* processes that run a worker
  Nobody,       \* no worker, no job
  Gone,         \* the identity of a process that no longer exists
  MaxAttempts,  \* jobs.max_attempts
  MaxClaims,    \* bound: a job is not claimed more often than this between retries
  MaxCrashes,   \* bound on crashes
  MaxRetries    \* bound on the retries of one job that are under way at once

ASSUME QueueAssumption ==
  /\ MaxAttempts \in Nat \ {0}
  /\ MaxClaims \in Nat /\ MaxClaims >= MaxAttempts
  /\ MaxCrashes \in Nat
  /\ MaxRetries \in Nat
  /\ Nobody \notin Jobs \union Workers
  /\ Gone \notin Workers \union {Nobody}

JobStatus == {"none", "queued", "running", "succeeded", "failed", "pruned"}

VARIABLES
  job,       \* status, attempts, lockedBy, lease, and whether runAfter has come
  worker,    \* up or down, the job it runs and the attempt it took it for
  retrying,  \* per job, the retries that have read it failed and not written
  crashes,   \* processes lost and outcomes that could not be written
  taken      \* history: jobs that were made claimable under a worker still running them

vars == <<job, worker, retrying, crashes, taken>>

Idle == [up |-> TRUE, job |-> Nobody, attempt |-> 0]

Init ==
  /\ job = [j \in Jobs |-> [status |-> "none", attempts |-> 0, lockedBy |-> Nobody,
                            lease |-> "none", due |-> FALSE]]
  /\ worker = [w \in Workers |-> Idle]
  /\ retrying = [j \in Jobs |-> 0]
  /\ crashes = 0
  /\ taken = {}

RunnersOf(j) == {w \in Workers : worker[w].job = j}

-----------------------------------------------------------------------------
Enqueue(j) ==
  /\ job[j].status = "none"
  /\ job' = [job EXCEPT ![j].status = "queued", ![j].due = TRUE]
  /\ UNCHANGED <<worker, retrying, crashes, taken>>

\* runAfter comes: the wait of a retry is over.
ComeDue(j) ==
  /\ job[j].status = "queued" /\ ~job[j].due
  /\ job' = [job EXCEPT ![j].due = TRUE]
  /\ UNCHANGED <<worker, retrying, crashes, taken>>

\* Mistake: a running job is never taken again.
DueQueuedOnly(j) == job[j].status = "queued" /\ job[j].due
\* dueWhere: queued and past its wait, or running under a lease nobody renewed.
Due(j) ==
  \/ job[j].status = "queued" /\ job[j].due
  \/ job[j].status = "running" /\ job[j].lease = "lapsed"

\* claimNext and the start of run.
Claim(w, j) ==
  /\ worker[w] = Idle
  /\ Due(j) /\ job[j].attempts < MaxClaims
  /\ job' = [job EXCEPT ![j] = [status |-> "running", attempts |-> job[j].attempts + 1,
                                lockedBy |-> w, lease |-> "held", due |-> TRUE]]
  /\ worker' = [worker EXCEPT ![w] = [up |-> TRUE, job |-> j, attempt |-> job[j].attempts + 1]]
  /\ UNCHANGED <<retrying, crashes, taken>>

\* A minute passes without a renewal.
LeaseLapses(j) ==
  /\ job[j].status = "running" /\ job[j].lease = "held"
  /\ job' = [job EXCEPT ![j].lease = "lapsed"]
  /\ taken' = IF RunnersOf(j) = {} THEN taken ELSE taken \union {j}
  /\ UNCHANGED <<worker, retrying, crashes>>

\* The heartbeat, or the handler's report of progress: only the holder's counts.
Renew(w) ==
  LET j == worker[w].job
  IN /\ j # Nobody
     /\ job[j].lockedBy = w /\ job[j].status = "running" /\ job[j].lease = "lapsed"
     /\ job' = [job EXCEPT ![j].lease = "held"]
     /\ UNCHANGED <<worker, retrying, crashes, taken>>

\* What a worker writes at the end of a run goes to the row, if there is one.
Write(j, status, due) ==
  job' = IF job[j].status = "pruned" THEN job
         ELSE [job EXCEPT ![j] = [status |-> status, attempts |-> job[j].attempts,
                                  lockedBy |-> Nobody, lease |-> "none", due |-> due]]

Succeed(w) ==
  LET j == worker[w].job
  IN /\ j # Nobody
     /\ Write(j, "succeeded", FALSE)
     /\ worker' = [worker EXCEPT ![w] = Idle]
     /\ UNCHANGED <<retrying, crashes, taken>>

\* Mistake: one attempt too many.
GivesUpLate(w, permanent) == permanent \/ worker[w].attempt > MaxAttempts
\* The last attempt, or a refusal that would be one again.
GivesUp(w, permanent) == permanent \/ worker[w].attempt >= MaxAttempts

Fail(w, permanent) ==
  LET j == worker[w].job
  IN /\ j # Nobody
     /\ IF GivesUp(w, permanent) THEN Write(j, "failed", FALSE) ELSE Write(j, "queued", FALSE)
     /\ worker' = [worker EXCEPT ![w] = Idle]
     /\ UNCHANGED <<retrying, crashes, taken>>

\* The outcome cannot be written: the worker goes on, the row is left to its lease.
OutcomeLost(w) ==
  /\ worker[w].job # Nobody /\ crashes < MaxCrashes
  /\ worker' = [worker EXCEPT ![w] = Idle]
  /\ crashes' = crashes + 1
  /\ UNCHANGED <<job, retrying, taken>>

\* The process dies.
Crash(w) ==
  /\ worker[w].up /\ crashes < MaxCrashes
  /\ worker' = [worker EXCEPT ![w] = [up |-> FALSE, job |-> Nobody, attempt |-> 0]]
  /\ job' = [j \in Jobs |->
       IF job[j].lockedBy = w THEN [job[j] EXCEPT !.lockedBy = Gone] ELSE job[j]]
  /\ crashes' = crashes + 1
  /\ UNCHANGED <<retrying, taken>>

\* Mistake: whatever another process of this machine holds counts as orphaned.
OrphanOfAnybody(w, j) == job[j].status = "running" /\ job[j].lockedBy \notin {w, Nobody}
Orphan(w, j) == job[j].status = "running" /\ job[j].lockedBy = Gone

\* startWorker: on the machine of the process that died, its leases are released.
Restart(w, sameHost) ==
  /\ ~worker[w].up
  /\ worker' = [worker EXCEPT ![w] = Idle]
  /\ job' = [j \in Jobs |->
       IF sameHost /\ Orphan(w, j) THEN [job[j] EXCEPT !.lease = "lapsed"] ELSE job[j]]
  /\ UNCHANGED <<retrying, crashes, taken>>

\* retry reads the job and finds it failed ...
RetryRead(j) ==
  /\ job[j].status = "failed" /\ retrying[j] < MaxRetries
  /\ retrying' = [retrying EXCEPT ![j] = @ + 1]
  /\ UNCHANGED <<job, worker, crashes, taken>>

\* ... and writes what differs from the row it read: the lease and its holder were
\* null there, so they are not written.
RetryWrite(j) ==
  /\ retrying[j] > 0
  /\ retrying' = [retrying EXCEPT ![j] = @ - 1]
  /\ job' = IF job[j].status = "pruned" THEN job
            ELSE [job EXCEPT ![j].status = "queued", ![j].attempts = 0, ![j].due = TRUE]
  /\ taken' = IF RunnersOf(j) = {} THEN taken ELSE taken \union {j}
  /\ UNCHANGED <<worker, crashes>>

\* Succeeded jobs are deleted when they are old.
Prune(j) ==
  /\ job[j].status = "succeeded"
  /\ job' = [job EXCEPT ![j].status = "pruned"]
  /\ UNCHANGED <<worker, retrying, crashes, taken>>

Next ==
  \/ \E j \in Jobs : Enqueue(j)
  \/ \E j \in Jobs : ComeDue(j)
  \/ \E w \in Workers, j \in Jobs : Claim(w, j)
  \/ \E j \in Jobs : LeaseLapses(j)
  \/ \E w \in Workers : Renew(w)
  \/ \E w \in Workers : Succeed(w)
  \/ \E w \in Workers, permanent \in BOOLEAN : Fail(w, permanent)
  \/ \E w \in Workers : OutcomeLost(w)
  \/ \E w \in Workers : Crash(w)
  \/ \E w \in Workers, sameHost \in BOOLEAN : Restart(w, sameHost)
  \/ \E j \in Jobs : RetryRead(j)
  \/ \E j \in Jobs : RetryWrite(j)
  \/ \E j \in Jobs : Prune(j)

Spec == Init /\ [][Next]_vars

\* A handler ends one way or the other, a process that stopped is started again,
\* time passes, and a due job is not passed over for ever by workers that find other
\* work each time they look.
Fairness ==
  /\ \A j \in Jobs : SF_vars(\E w \in Workers : Claim(w, j))
  /\ \A j \in Jobs : WF_vars(ComeDue(j))
  /\ \A j \in Jobs : WF_vars(RunnersOf(j) = {} /\ LeaseLapses(j))
  /\ \A w \in Workers : WF_vars(Succeed(w) \/ \E permanent \in BOOLEAN : Fail(w, permanent))
  /\ \A w \in Workers : WF_vars(\E sameHost \in BOOLEAN : Restart(w, sameHost))

FairSpec == Spec /\ Fairness

-----------------------------------------------------------------------------
\* The types of the table, the workers and the counters; and a process that is down
\* runs nothing.
TypeOK ==
  /\ job \in [Jobs -> [status : JobStatus, attempts : Nat,
                       lockedBy : Workers \union {Nobody, Gone},
                       lease : {"none", "held", "lapsed"}, due : BOOLEAN]]
  /\ worker \in [Workers -> [up : BOOLEAN, job : Jobs \union {Nobody}, attempt : Nat]]
  /\ \A w \in Workers : ~worker[w].up => worker[w].job = Nobody
  /\ retrying \in [Jobs -> Nat]
  /\ crashes \in Nat
  /\ taken \subseteq Jobs

\* Two workers run one job only if a lease lapsed, or a retry was written, while one
\* of them still ran it; a claim, a crash and a restart never cause it (claimNext,
\* recoverOrphans).
OneRunner == \A j \in Jobs \ taken : Cardinality(RunnersOf(j)) <= 1

\* A job gets more attempts than it may have only for outcomes that were lost with
\* a process or with the database, one each (run, claimNext).
AttemptsAccounted == \A j \in Jobs \ taken : job[j].attempts <= MaxAttempts + crashes

\* Work written down is done or given up on, whichever processes die: a queued job
\* comes to an outcome (the header of jobService: "the next worker carries on").
EveryJobEnds ==
  \A j \in Jobs : job[j].status = "queued" ~> job[j].status \in {"succeeded", "failed", "pruned"}

\* What the setting says: after this many attempts a job stops.  claimNext counts
\* attempts and compares them with nothing, so a job that takes its process with it
\* is claimed again.
StopsAfterMaxAttempts == \A j \in Jobs : job[j].attempts <= MaxAttempts

\* What the comment on retry says: only a failed job is sent round again.
OnlyFailedIsRetried ==
  [][\A j \in Jobs : retrying'[j] < retrying[j] => job[j].status = "failed"]_vars

\* What the diagram of jobService says: nothing leads out of succeeded.  A worker
\* whose lease lapsed still writes its outcome over the next one's.
SucceededIsLast ==
  [][\A j \in Jobs : job[j].status = "succeeded" => job'[j].status \in {"succeeded", "pruned"}]_vars
=============================================================================
