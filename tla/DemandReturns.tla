---------------------------- MODULE DemandReturns ----------------------------
(***************************************************************************)
(* Returns that pay when the seat sells again (refundService.request,      *)
(* settleResold and closeDeparted) over one seat of one departure.         *)
(*                                                                         *)
(* A demand return frees the ticket's segments and watches each of them    *)
(* for a buyer.  A sale settles, inside its own transaction, every watched *)
(* segment it takes.  When the passenger's stop has been left, a scheduled *)
(* job closes what is still open.                                          *)
(*                                                                         *)
(* The sale reads refund segments and refunds with row locks, so those     *)
(* reads belong to its last step; but it counts what is still outstanding  *)
(* without a lock, in the snapshot the transaction took when it began      *)
(* (view).  The job works from a list it read earlier (closing).           *)
(***************************************************************************)
EXTENDS Integers, FiniteSets, FiniteSetsExt

CONSTANTS
  LastSegment,  \* segment i runs from stop i to stop i+1, i in 0 .. LastSegment
  Tickets,      \* ids of tickets that may be sold
  Free,         \* nobody has the segment
  Maximum       \* fare less processing charge: the most a demand return pays

ASSUME ReturnsAssumption ==
  /\ LastSegment \in Nat
  /\ Maximum \in Nat \ {0}
  /\ Free \notin Tickets

Segments == 0 .. LastSegment
Journeys == {a .. b : a, b \in Segments} \ {{}}
RefundStatus == {"none", "awaiting_resale", "partially_settled", "settled", "closed"}

VARIABLES
  owner,    \* who has each segment of the seat: a checkout's or a sold ticket
  ticket,   \* ticket[t].status: none, held (in a checkout), valid, refunded
  refund,   \* the refund of ticket t: status, segments watched, minor units paid
  resold,   \* resold[t][i]: the ticket whose sale settled segment i of t's refund
  selling,  \* tickets whose sale transaction has begun
  view,     \* what each such transaction's snapshot shows settled
  closing,  \* the list closeDeparted has read and not worked through
  left      \* stops below left have been left by the train

vars == <<owner, ticket, refund, resold, selling, view, closing, left>>

Init ==
  /\ owner = [i \in Segments |-> Free]
  /\ ticket = [t \in Tickets |-> [status |-> "none", journey |-> {}]]
  /\ refund = [t \in Tickets |-> [status |-> "none", watched |-> {}, refunded |-> 0]]
  /\ resold = [t \in Tickets |-> [i \in Segments |-> Free]]
  /\ selling = {}
  /\ view = [t \in Tickets |-> {}]
  /\ closing = {}
  /\ left = 0

\* The train has left the stop the passenger's own leg departs from.
HasLeft(journey) == \E i \in journey : i < left

\* splitAcross: equal parts, the remainder spread over the earliest segments.
Share(watched, i) ==
  LET n == Cardinality(watched)
      earlier == Cardinality({k \in watched : k < i})
  IN (Maximum \div n) + (IF earlier < Maximum % n THEN 1 ELSE 0)

Open(r) == refund[r].status \in {"awaiting_resale", "partially_settled"}
Settled == {p \in Tickets \X Segments : resold[p[1]][p[2]] # Free}
Watched(r) == {r} \X refund[r].watched

-----------------------------------------------------------------------------
\* Mistake: only the train is looked at, not whether somebody has the seat.
HoldUnchecked(t, journey) ==
  /\ ticket[t].status = "none" /\ ~HasLeft(journey)
  /\ owner' = [i \in Segments |-> IF i \in journey THEN t ELSE owner[i]]
  /\ ticket' = [ticket EXCEPT ![t] = [status |-> "held", journey |-> journey]]
  /\ UNCHANGED <<refund, resold, selling, view, closing, left>>

\* A checkout takes free segments; its stop must not have been left.
Hold(t, journey) ==
  /\ ticket[t].status = "none" /\ ~HasLeft(journey)
  /\ \A i \in journey : owner[i] = Free
  /\ owner' = [i \in Segments |-> IF i \in journey THEN t ELSE owner[i]]
  /\ ticket' = [ticket EXCEPT ![t] = [status |-> "held", journey |-> journey]]
  /\ UNCHANGED <<refund, resold, selling, view, closing, left>>

SaleBegin(t) ==
  /\ ticket[t].status = "held" /\ t \notin selling
  /\ selling' = selling \union {t}
  /\ view' = [view EXCEPT ![t] = Settled]
  /\ UNCHANGED <<owner, ticket, refund, resold, closing, left>>

\* Mistakes: paying without a look at the refund, and forgetting that one paid in part
\* still waits.
PaysEvenClosed(t) ==
  {p \in Tickets \X ticket[t].journey :
     p[2] \in refund[p[1]].watched /\ resold[p[1]][p[2]] = Free}
PaysFirstOnly(t) ==
  {p \in Tickets \X ticket[t].journey :
     refund[p[1]].status = "awaiting_resale" /\ p[2] \in refund[p[1]].watched}

\* settleResold: the watched segments this sale takes, of refunds still open, that
\* nobody has paid for.
Pays(t) ==
  {p \in Tickets \X ticket[t].journey :
     Open(p[1]) /\ p[2] \in refund[p[1]].watched /\ resold[p[1]][p[2]] = Free}

\* Mistake: finishing a refund with its first resale.
SettledAtOnce(outstanding) == "settled"
\* What the sale makes of a refund it has touched, counting in its snapshot.
StatusAfter(outstanding) == IF outstanding = {} THEN "settled" ELSE "partially_settled"

\* The shares of some of a refund's segments together.
Shares(r, mine) == MapThenSumSet(LAMBDA p : Share(refund[r].watched, p[2]), mine)

\* Mistake: the last payment overwrites those before it.
RefundedLast(r, mine) == Shares(r, mine)
RefundedAfter(r, mine) == refund[r].refunded + Shares(r, mine)

\* The sale commits: the ticket is valid, and every refund waiting on one of its
\* segments is paid for it.
SaleCommit(t) ==
  LET pays == Pays(t)
      Mine(r) == {p \in pays : p[1] = r}
  IN /\ t \in selling
     /\ ticket' = [ticket EXCEPT ![t].status = "valid"]
     /\ resold' = [r \in Tickets |-> [i \in Segments |->
                     IF <<r, i>> \in pays THEN t ELSE resold[r][i]]]
     /\ refund' = [r \in Tickets |->
          IF Mine(r) = {} THEN refund[r]
          ELSE [status |-> StatusAfter(Watched(r) \ (view[t] \union pays)),
                watched |-> refund[r].watched, refunded |-> RefundedAfter(r, Mine(r))]]
     /\ selling' = selling \ {t}
     /\ view' = [view EXCEPT ![t] = {}]
     /\ UNCHANGED <<owner, closing, left>>

\* The payment is declined, a wallet is at its limit, or a deadlock is lost.
SaleAbort(t) ==
  /\ t \in selling
  /\ selling' = selling \ {t}
  /\ view' = [view EXCEPT ![t] = {}]
  /\ UNCHANGED <<owner, ticket, refund, resold, closing, left>>

\* The checkout is given up.
Release(t) ==
  /\ ticket[t].status = "held" /\ t \notin selling
  /\ owner' = [i \in Segments |-> IF owner[i] = t THEN Free ELSE owner[i]]
  /\ ticket' = [ticket EXCEPT ![t] = [status |-> "none", journey |-> {}]]
  /\ UNCHANGED <<refund, resold, selling, view, closing, left>>

\* request: the seat goes back on sale under either policy.
GiveBack(t, status, watched) ==
  /\ ticket[t].status = "valid"
  /\ owner' = [i \in Segments |-> IF owner[i] = t THEN Free ELSE owner[i]]
  /\ ticket' = [ticket EXCEPT ![t].status = "refunded"]
  /\ refund' = [refund EXCEPT ![t] = [status |-> status, watched |-> watched, refunded |-> 0]]
  /\ UNCHANGED <<resold, selling, view, closing, left>>

\* A demand return, refused once the passenger's stop has been left.
ReturnOnDemand(t) ==
  /\ ~HasLeft(ticket[t].journey)
  /\ GiveBack(t, "awaiting_resale", ticket[t].journey)

\* A convenient return, or one the railway issues: settled at once, so there is
\* nothing to watch.  What it pays is not part of this module.
ReturnAtOnce(t) == GiveBack(t, "settled", {})

Depart ==
  /\ left <= LastSegment
  /\ left' = left + 1
  /\ UNCHANGED <<owner, ticket, refund, resold, selling, view, closing>>

\* closeDeparted reads the open refunds and keeps those whose stop has been left.
CloseRead ==
  LET found == {r \in Tickets : Open(r) /\ HasLeft(ticket[r].journey)}
  IN /\ closing = {} /\ found # {}
     /\ closing' = found
     /\ UNCHANGED <<owner, ticket, refund, resold, selling, view, left>>

\* Mistake: a refund paid in part is left as it is.
ClosedUnlessPartial(r) == IF refund[r].status = "partially_settled" THEN "partially_settled" ELSE "closed"
\* It closes them one by one, whatever they have become.
ClosedStatus(r) == "closed"

CloseOne(r) ==
  /\ r \in closing
  /\ refund' = [refund EXCEPT ![r].status = ClosedStatus(r)]
  /\ closing' = closing \ {r}
  /\ UNCHANGED <<owner, ticket, resold, selling, view, left>>

\* The job fails, or its process dies.
CloseAbort ==
  /\ closing # {}
  /\ closing' = {}
  /\ UNCHANGED <<owner, ticket, refund, resold, selling, view, left>>

Next ==
  \/ \E t \in Tickets, journey \in Journeys : Hold(t, journey)
  \/ \E t \in Tickets : SaleBegin(t)
  \/ \E t \in Tickets : SaleCommit(t)
  \/ \E t \in Tickets : SaleAbort(t)
  \/ \E t \in Tickets : Release(t)
  \/ \E t \in Tickets : ReturnOnDemand(t)
  \/ \E t \in Tickets : ReturnAtOnce(t)
  \/ Depart
  \/ CloseRead
  \/ \E r \in Tickets : CloseOne(r)
  \/ CloseAbort

Spec == Init /\ [][Next]_vars

\* refund.close_departed is scheduled: a run that fails is followed by others,
\* and each refund is reached by one of them.
FairSpec ==
  Spec /\ WF_vars(CloseRead) /\ \A r \in Tickets : SF_vars(CloseOne(r))

-----------------------------------------------------------------------------
(* Properties                                                              *)

\* Every row keeps its type (Refund, RefundSegment); how much a refund has paid is
\* the matter of RefundedIsSumOfShares.
TypeOK ==
  /\ owner \in [Segments -> Tickets \union {Free}]
  /\ ticket \in [Tickets -> [status : {"none", "held", "valid", "refunded"},
                             journey : SUBSET Segments]]
  /\ refund = [r \in Tickets |-> [status |-> refund[r].status, watched |-> refund[r].watched,
                                  refunded |-> refund[r].refunded]]
  /\ \A r \in Tickets : refund[r].status \in RefundStatus /\ refund[r].watched \subseteq Segments
  /\ resold \in [Tickets -> [Segments -> Tickets \union {Free}]]
  /\ selling \subseteq Tickets /\ closing \subseteq Tickets
  /\ view \in [Tickets -> SUBSET (Tickets \X Segments)]
  /\ left \in 0 .. LastSegment + 1

SettledOf(r) == Settled \intersect Watched(r)
SoldOn(i) == owner[i] # Free /\ ticket[owner[i]].status = "valid"

\* What a refund has paid is exactly the shares of its segments that resold, so
\* it pays its maximum when all have and never more (settleResold adds to the
\* amount it read under the lock; splitAcross loses no minor unit).
RefundedIsSumOfShares ==
  \A r \in Tickets :
    /\ refund[r].refunded = Shares(r, SettledOf(r))
    /\ (refund[r].watched # {} /\ SettledOf(r) = Watched(r)) => refund[r].refunded = Maximum

\* There is no window in which a seat has been sold twice over but paid for
\* once: while a refund is open, a segment it still waits for is not on a sold
\* ticket (settleResold runs inside the sale's transaction).
ResaleAlwaysPays ==
  \A r \in Tickets : Open(r) =>
    \A i \in refund[r].watched : resold[r][i] = Free => ~SoldOn(i)

\* A sale of a segment pays for it once: no two refunds were settled by the same
\* ticket on the same segment.
OnePayoutPerSale ==
  \A p, q \in Settled :
    p[2] = q[2] /\ resold[p[1]][p[2]] = resold[q[1]][q[2]] => p = q

\* A refund that says it is settled has no segment outstanding: the snapshot can
\* only show too few of them settled.
SettledIsPaidInFull ==
  \A r \in Tickets : refund[r].status = "settled" => SettledOf(r) = Watched(r)

\* Nothing is paid once a refund is closed, and it is never opened again: a sale
\* looks at the refund under its lock (refund.isOpen).
ClosedIsFinal ==
  [][\A r \in Tickets : refund[r].status = "closed" => refund'[r] = refund[r]]_vars

\* Nobody waits for ever for money that cannot come: a refund of a passenger
\* whose stop has been left is closed or settled sooner or later.
DepartedRefundsClose ==
  \A r \in Tickets : Open(r) /\ HasLeft(ticket[r].journey) ~> ~Open(r)

\* What the code's comments say and concurrent calls refute.
\*
\* refundService.js:556, "A refund whose every segment has now sold is
\* finished."  Two sales of two segments of it at once each count the other's
\* as outstanding.
AllSoldIsFinished ==
  \A r \in Tickets :
    refund[r].watched # {} /\ SettledOf(r) = Watched(r) => ~Open(r)

\* Refund.js:24 and 25: a closed refund is one whose train "left with segments
\* unsold".  The job closes a refund that was settled after its list was read.
ClosedHasUnsold ==
  \A r \in Tickets : refund[r].status = "closed" => SettledOf(r) # Watched(r)

\* refundService.js:604, "Segments still unsold at departure will never sell".
\* Departure is that of the passenger's own stop; later segments stay on sale,
\* and so does a checkout made before.
UnsoldStaysUnsold ==
  [][\A r \in Tickets, i \in Segments :
       refund[r].status = "closed" /\ <<r, i>> \in Watched(r) \ Settled /\ ~SoldOn(i)
         => ~(SoldOn(i))']_vars
=============================================================================
