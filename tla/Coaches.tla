-------------------------------- MODULE Coaches --------------------------------
(***************************************************************************)
(* The coaches of one departure: added, removed, cancelled with refunds by *)
(* a job and put back (coachService), while passengers check out, buy and  *)
(* return seats in them and buy standing legs that join onto their seats   *)
(* (standingService, refundService).                                       *)
(*                                                                         *)
(* Each coach has a seat for each passenger, so that seats are no matter   *)
(* of competition here (SeatSales has that).  A transaction that reads     *)
(* before it locks, or locks before it reads, is two steps; one that locks *)
(* what it decides on is one.                                              *)
(***************************************************************************)
EXTENDS Integers, FiniteSets

CONSTANTS
  Coaches,     \* coach codes; each is put on the departure once (bound)
  Order,       \* Order[k]: where k is in the train at first, 0 if it is not in it
  Missing,     \* places of the train left open at first: its coach was skipped or is inactive
  Passengers,  \* each checks out once (bound)
  MaxStanding, \* bound: standing tickets, sold or being sold
  Operators,   \* calls of coachService in progress at once
  MaxSkips,    \* bound: no coach is asked for after as many additions that could not be built
  Stops, SeatFrom, SeatTo,  \* the route, and the stretch the seats are bought over
  Capacity,    \* coach_classes.standing_capacity
  NoCoach, Nobody

Places == 1 .. MaxStanding

ASSUME CoachesAssumption ==
  /\ IsFiniteSet(Coaches) /\ Order \in [Coaches -> 0 .. Cardinality(Coaches) + Missing]
  /\ Stops \in Nat /\ MaxStanding \in Nat /\ Capacity \in Nat
  /\ Missing \in Nat /\ MaxSkips \in Nat
  /\ 1 <= SeatFrom /\ SeatFrom < SeatTo /\ SeatTo <= Stops
  /\ NoCoach \notin Coaches /\ Nobody \notin Passengers

Positions == 1 .. Cardinality(Coaches) + Missing + MaxSkips
\* The legs a passenger could ask for: they run forwards.
Legs == {l \in (1 .. Stops) \X (1 .. Stops) : l[1] < l[2]}
NoLeg == <<0, 0>>

VARIABLES
  coach,      \* trip_coaches, and whether a coach's refund job is live
  seat,       \* each passenger's checkout, its row, and the ticket it becomes
  standing,   \* the standing tickets; buying: the purchase holds the coach's lock
  returning,  \* the legs a return has read, holding its ticket's lock; or none
  operator,   \* the calls of coachService in progress
  skips       \* history: the additions whose plan could not be built

vars == <<coach, seat, standing, returning, operator, skips>>

CoachRows ==
  [status : {"apart", "active", "cancelled", "removed"}, at : Nat, job : BOOLEAN]
\* row: what the rows of seat_segment_bookings over the journey belong to.
SeatRows ==
  [coach : Coaches \union {NoCoach}, hold : {"none", "active", "ended"},
   row : {"none", "hold", "ticket"}, status : {"none", "valid", "refunded"}]
StandingRows ==
  [of : Passengers \union {Nobody}, leg : Legs \union {NoLeg},
   status : {"none", "buying", "valid", "refunded"}, paid : Nat]
NoReturn == {0}
\* at, seen: the position, or positions, the call has read.
Unseen == [k \in Coaches |-> 0]
Calls ==
  [stage : {"idle", "adding", "removing", "cancelling", "releasing", "reinstating"},
   coach : Coaches \union {NoCoach}, at : Nat, seen : [Coaches -> Nat]]
Idle == [stage |-> "idle", coach |-> NoCoach, at |-> 0, seen |-> Unseen]
NoStanding == [of |-> Nobody, leg |-> NoLeg, status |-> "none", paid |-> 0]

Init ==
  /\ coach = [k \in Coaches |-> [status |-> IF Order[k] = 0 THEN "apart" ELSE "active",
                                 at |-> Order[k], job |-> FALSE]]
  /\ seat = [p \in Passengers |-> [coach |-> NoCoach, hold |-> "none",
                                   row |-> "none", status |-> "none"]]
  /\ standing = [i \in Places |-> NoStanding]
  /\ returning = [p \in Passengers |-> NoReturn]
  /\ operator = [o \in Operators |-> Idle]
  /\ skips = 0

Here == {k \in Coaches : coach[k].status \in {"active", "cancelled"}}
CoachOf(i) == IF standing[i].of = Nobody THEN NoCoach ELSE seat[standing[i].of].coach
LegsOf(p) == {i \in Places : standing[i].of = p /\ standing[i].status = "valid"}
Seated(k) == {p \in Passengers : seat[p].coach = k /\ seat[p].status = "valid"}
Standing(k) == {i \in Places : CoachOf(i) = k /\ standing[i].status = "valid"}

\* Mistake: the coach is read without FOR UPDATE.
UnlockedAlways(k) == TRUE
\* The lock a standing purchase takes on its coach's row; writers of the row wait.
Unlocked(k) == \A i \in Places : standing[i].status = "buying" => CoachOf(i) # k

-----------------------------------------------------------------------------
(* Passengers: a checkout takes a seat, and ends or is sold.  Nothing asks *)
(* whether the coach is cancelled: the seat's id is enough.                *)

Hold(p, k) ==
  /\ seat[p].hold = "none" /\ k \in Here
  /\ seat' = [seat EXCEPT ![p] = [@ EXCEPT !.coach = k, !.hold = "active", !.row = "hold"]]
  /\ UNCHANGED <<coach, standing, returning, operator, skips>>

Ended(s) == [s EXCEPT !.hold = "ended", !.row = "none"]

\* The passenger gives the checkout up, or it lapses.
Release(p) ==
  /\ seat[p].hold = "active"
  /\ seat' = [seat EXCEPT ![p] = Ended(@)]
  /\ UNCHANGED <<coach, standing, returning, operator, skips>>

\* The sale converts the checkout's rows; without them it throws, and nothing changes.
Sell(p) ==
  /\ seat[p].hold = "active" /\ seat[p].row = "hold"
  /\ seat' = [seat EXCEPT ![p] = [@ EXCEPT !.hold = "ended", !.row = "ticket", !.status = "valid"]]
  /\ UNCHANGED <<coach, standing, returning, operator, skips>>

-----------------------------------------------------------------------------
(* Standing legs                                                           *)

\* A leg ends where the seat begins, or begins where it ends.
Connects(leg) == leg[2] = SeatFrom \/ leg[1] = SeatTo
Segments(leg) == leg[1] - 1 .. leg[2] - 2
Occupancy(k, s) == Cardinality({i \in Standing(k) : s \in Segments(standing[i].leg)})
\* The tightest segment decides.
RoomFor(k, leg) == \A s \in Segments(leg) : Occupancy(k, s) < Capacity

\* With the coach locked, the occupancy and the seated ticket are read; the ticket is not locked.
PurchaseRead(i, p, leg) ==
  /\ standing[i].status = "none" /\ \A j \in 1 .. i - 1 : standing[j].status # "none"
  /\ seat[p].status = "valid" /\ Connects(leg)
  /\ Unlocked(seat[p].coach) /\ RoomFor(seat[p].coach, leg)
  /\ standing' = [standing EXCEPT ![i] = [NoStanding EXCEPT !.of = p, !.leg = leg, !.status = "buying"]]
  /\ UNCHANGED <<coach, seat, returning, operator, skips>>

\* The leg's seated_ticket_id waits for a return that has the seated ticket locked.
PurchaseWrite(i) ==
  /\ standing[i].status = "buying" /\ returning[standing[i].of] = NoReturn
  /\ standing' = [standing EXCEPT ![i].status = "valid"]
  /\ UNCHANGED <<coach, seat, returning, operator, skips>>

\* The payment is refused, or the server ends.
PurchaseFails(i) ==
  /\ standing[i].status = "buying"
  /\ standing' = [standing EXCEPT ![i] = NoStanding]
  /\ UNCHANGED <<coach, seat, returning, operator, skips>>

-----------------------------------------------------------------------------
(* Returns, and the refunds of a cancelled coach                           *)

Refunded(s) == [s EXCEPT !.row = "none", !.status = "refunded"]
RefundLegs(ids) ==
  [i \in Places |-> IF i \in ids THEN [standing[i] EXCEPT !.status = "refunded", !.paid = @ + 1]
                    ELSE standing[i]]

\* The seated ticket is locked, then its legs are read without a lock (releaseStandingFor).
ReturnRead(p) ==
  /\ seat[p].status = "valid" /\ returning[p] = NoReturn
  /\ returning' = [returning EXCEPT ![p] = LegsOf(p)]
  /\ UNCHANGED <<coach, seat, standing, operator, skips>>

ReturnWrite(p) ==
  /\ returning[p] # NoReturn
  /\ seat' = [seat EXCEPT ![p] = Refunded(@)]
  /\ standing' = RefundLegs(returning[p])
  /\ returning' = [returning EXCEPT ![p] = NoReturn]
  /\ UNCHANGED <<coach, operator, skips>>

ReturnFails(p) ==
  /\ returning[p] # NoReturn
  /\ returning' = [returning EXCEPT ![p] = NoReturn]
  /\ UNCHANGED <<coach, seat, standing, operator, skips>>

\* Whom the job refunds: the tickets on the coach's seats and those standing in it.
OwedSeats(k) == Seated(k)
\* Mistake: only the tickets with a seat are looked for.
NoLegs(k) == {}
OwedLegs(k) == Standing(k)

\* Each ticket is read again under its lock, and refunded if it is still valid.
JobSeat(k, p) ==
  /\ coach[k].job /\ p \in OwedSeats(k) /\ returning[p] = NoReturn
  /\ seat' = [seat EXCEPT ![p] = Refunded(@)]
  /\ UNCHANGED <<coach, standing, returning, operator, skips>>

JobLeg(k, i) ==
  /\ coach[k].job /\ i \in OwedLegs(k)
  /\ standing' = RefundLegs({i})
  /\ UNCHANGED <<coach, seat, returning, operator, skips>>

\* Nobody is left, or the coach was active when the job began.
JobEnds(k) ==
  /\ coach[k].job
  /\ (OwedSeats(k) = {} /\ OwedLegs(k) = {}) \/ coach[k].status = "active"
  /\ coach' = [coach EXCEPT ![k].job = FALSE]
  /\ UNCHANGED <<seat, standing, returning, operator, skips>>

-----------------------------------------------------------------------------
(* The operator: each call reads and checks, and writes in a transaction   *)
(* that does not read again what was checked.                              *)

Begin(o, stage, k, at, seen) ==
  /\ operator[o] = Idle
  /\ operator' = [operator EXCEPT ![o] = [stage |-> stage, coach |-> k, at |-> at, seen |-> seen]]
  /\ UNCHANGED <<coach, seat, standing, returning, skips>>

At(o, stage) == operator[o].stage = stage
End(o) == operator' = [operator EXCEPT ![o] = Idle]

\* A new coach goes where it is asked to be, or at the end: no place further back is left open.
Follows(place) == place = 1 \/ \E j \in Here : coach[j].at >= place - 1

\* The positions of the coaches are read with the checks, before the transaction.
AddRead(o, k, place) ==
  /\ coach[k].status = "apart" /\ Follows(place) /\ skips < MaxSkips
  /\ Begin(o, "adding", k, place, [j \in Coaches |-> IF j \in Here THEN coach[j].at ELSE 0])

\* Every coach seen at the place or behind moves back, from where it was seen.
Behind(o) == {j \in Here : operator[o].seen[j] >= operator[o].at}

\* (trip_id, coach_code) is unique.
AddWrite(o) ==
  /\ At(o, "adding") /\ coach[operator[o].coach].status = "apart"
  /\ \A j \in Behind(o) : Unlocked(j)
  /\ coach' = [j \in Coaches |->
                 IF j \in Behind(o) THEN [coach[j] EXCEPT !.at = operator[o].seen[j] + 1]
                 ELSE IF j = operator[o].coach
                      THEN [coach[j] EXCEPT !.status = "active", !.at = operator[o].at]
                      ELSE coach[j]]
  /\ End(o)
  /\ UNCHANGED <<seat, standing, returning, skips>>

\* The plan of the coach to add cannot be built (two of its seats have one number, or none
\* has any).  Only after the shift has committed is the call refused.
AddSkipped(o) ==
  /\ At(o, "adding")
  /\ \A j \in Behind(o) : Unlocked(j)
  /\ coach' = [j \in Coaches |->
                 IF j \in Behind(o) THEN [coach[j] EXCEPT !.at = operator[o].seen[j] + 1]
                 ELSE coach[j]]
  /\ skips' = skips + 1
  /\ End(o)
  /\ UNCHANGED <<seat, standing, returning>>

\* whatIsOn: no ticket of any status on its seats, nobody standing, nobody checking out.
Unused(k) ==
  /\ \A p \in Passengers : seat[p].coach = k => seat[p].status = "none" /\ seat[p].row # "hold"
  /\ Standing(k) = {}

RemoveRead(o, k) ==
  /\ k \in Here /\ Unused(k)
  /\ Begin(o, "removing", k, coach[k].at, Unseen)

\* Mistake: tickets that were returned no longer count.
RefersLive(k) == Seated(k)
\* The foreign keys from tickets to seats and coaches: whose ticket names one of the coach's.
Refers(k) == {p \in Passengers : seat[p].coach = k /\ seat[p].status # "none"}

\* Mistake: the gap is left.
GapLeft(k, at) == {}
\* The coaches behind move up, to close the gap.
GapClosed(k, at) == {j \in Here \ {k} : coach[j].at > at}

\* Deleting a seat deletes its rows in seat_segment_bookings too.
RemoveWrite(o) ==
  LET k == operator[o].coach
      moved == GapClosed(k, operator[o].at) IN
  /\ At(o, "removing") /\ Refers(k) = {}
  /\ \A j \in moved \union {k} : Unlocked(j)
  /\ coach' = [j \in Coaches |->
                 IF j = k THEN [coach[k] EXCEPT !.status = "removed", !.at = 0]
                 ELSE IF j \in moved THEN [coach[j] EXCEPT !.at = @ - 1] ELSE coach[j]]
  /\ seat' = [p \in Passengers |->
                IF seat[p].coach = k THEN [seat[p] EXCEPT !.row = "none"] ELSE seat[p]]
  /\ End(o)
  /\ UNCHANGED <<standing, returning, skips>>

CancelRead(o, k) ==
  /\ coach[k].status = "active"
  /\ Begin(o, "cancelling", k, 0, Unseen)

\* The status and the refund job are written together; a live job is not queued twice.
CancelWrite(o) ==
  LET k == operator[o].coach IN
  /\ At(o, "cancelling") /\ k \in Here /\ Unlocked(k)
  /\ coach' = [coach EXCEPT ![k] = [@ EXCEPT !.status = "cancelled", !.job = TRUE]]
  /\ operator' = [operator EXCEPT ![o].stage = "releasing"]
  /\ UNCHANGED <<seat, standing, returning, skips>>

\* Afterwards, the checkouts with rows on its seats are ended.
ReleaseFound(o) ==
  /\ At(o, "releasing")
  /\ seat' = [p \in Passengers |->
                IF seat[p].coach = operator[o].coach /\ seat[p].row = "hold"
                THEN Ended(seat[p]) ELSE seat[p]]
  /\ End(o)
  /\ UNCHANGED <<coach, standing, returning, skips>>

\* Not while its passengers are still being refunded.
ReinstateRead(o, k) ==
  /\ coach[k].status = "cancelled" /\ ~coach[k].job
  /\ Begin(o, "reinstating", k, 0, Unseen)

ReinstateWrite(o) ==
  LET k == operator[o].coach IN
  /\ At(o, "reinstating") /\ k \in Here /\ Unlocked(k)
  /\ coach' = [coach EXCEPT ![k].status = "active"]
  /\ End(o)
  /\ UNCHANGED <<seat, standing, returning, skips>>

\* The call ends and its transaction writes nothing: the server ends, the coach is gone, the
\* code of a coach to add was taken, or a ticket refers to a seat to delete.  Or a cancelling
\* ends before it has released the checkouts.
CallLost(o) ==
  /\ operator[o] # Idle
  /\ End(o)
  /\ UNCHANGED <<coach, seat, standing, returning, skips>>

-----------------------------------------------------------------------------
Passenger ==
  \/ \E p \in Passengers, k \in Coaches : Hold(p, k)
  \/ \E p \in Passengers : Release(p) \/ Sell(p) \/ ReturnRead(p) \/ ReturnWrite(p) \/ ReturnFails(p)
  \/ \E i \in Places, p \in Passengers, leg \in Legs : PurchaseRead(i, p, leg)
  \/ \E i \in Places : PurchaseWrite(i) \/ PurchaseFails(i)

JobRefunds(k) == (\E p \in Passengers : JobSeat(k, p)) \/ (\E i \in Places : JobLeg(k, i))

Job == \E k \in Coaches : JobRefunds(k) \/ JobEnds(k)

Operator ==
  \/ \E o \in Operators, k \in Coaches, place \in Positions : AddRead(o, k, place)
  \/ \E o \in Operators, k \in Coaches : RemoveRead(o, k) \/ CancelRead(o, k) \/ ReinstateRead(o, k)
  \/ \E o \in Operators : AddWrite(o) \/ AddSkipped(o) \/ RemoveWrite(o)
                            \/ CancelWrite(o) \/ ReleaseFound(o) \/ ReinstateWrite(o) \/ CallLost(o)

Next == Passenger \/ Job \/ Operator

Spec == Init /\ [][Next]_vars

\* The job queue runs a job to its end, one ticket after the other; a return that has its
\* lock commits or fails, and the job, when it waits for that lock, gets it in its turn,
\* however many returns are tried.
Fairness ==
  /\ \A p \in Passengers : WF_vars(ReturnWrite(p) \/ ReturnFails(p))
  /\ \A k \in Coaches : SF_vars(JobRefunds(k))

FairSpec == Spec /\ Fairness

-----------------------------------------------------------------------------
(* Properties                                                              *)

TypeOK ==
  /\ coach \in [Coaches -> CoachRows]
  /\ seat \in [Passengers -> SeatRows]
  /\ standing \in [Places -> StandingRows]
  /\ returning \in [Passengers -> (SUBSET Places) \union {NoReturn}]
  /\ operator \in [Operators -> Calls]
  /\ skips \in Nat

\* Whatever happens between a removal's check and its transaction, a coach that any ticket
\* was ever sold in stays on the departure, and a valid ticket keeps its seat's rows ("that
\* record has to outlive the carriage"; remove, and the foreign keys it counts on).
RecordOutlives ==
  \A p \in Passengers :
    /\ seat[p].status # "none" => seat[p].coach \in Here
    /\ seat[p].status = "valid" => seat[p].row = "ticket"

\* However purchases, returns and refunds are interleaved, no more passengers stand in a
\* coach over any segment than its class allows (purchase's lock on the coach).
CapHolds == \A k \in Coaches, s \in 0 .. Stops - 2 : Occupancy(k, s) <= Capacity

\* No two coaches of the departure have one position, and no place is open but as many as
\* the train had at first and one for each addition whose plan could not be built: no other
\* addition and no removal leaves a gap, those that failed between two others included
\* (add and remove, one operator at a time).
LastPlace == Cardinality(Here) + Missing + skips
CouplingOrder ==
  \A k \in Here : /\ coach[k].at \in 1 .. LastPlace
                  /\ \A j \in Here \ {k} : coach[j].at # coach[k].at

\* A train without open places keeps none (add: "a coupling order has no gaps").  The code
\* does not keep this.
NoGaps ==
  Missing = 0 => \A k \in Here : coach[k].at \in 1 .. Cardinality(Here)

\* Once a coach's refund job is queued, a time comes when nobody, seated or standing, holds a
\* ticket on it, those who buy while the job runs included (issueForCancellation: "Missing
\* the second would leave people holding standing tickets").
MadeWhole ==
  \A k \in Coaches : coach[k].job ~> (Seated(k) = {} /\ Standing(k) = {})

\* Once a cancelled coach's refunds are done nobody holds a ticket on it (cancel: "so nobody
\* finishes paying for a seat that is not running").  The code does not keep this.
NotRunningNotSold ==
  \A k \in Coaches :
    coach[k].status = "cancelled" /\ ~coach[k].job => Seated(k) = {} /\ Standing(k) = {}

\* Removing a coach takes nothing from a checkout in progress (coachService's table: "Deletes
\* seats no ticket, hold or record refers to").  The code does not keep this.
CheckoutKeepsSeat == \A p \in Passengers : seat[p].hold = "active" => seat[p].row = "hold"

\* A standing ticket is valid only beside a valid seat (legsFor: "returning the seat releases
\* them with it").  The code does not keep this.
LegHasSeat ==
  \A i \in Places : standing[i].status = "valid" => seat[standing[i].of].status = "valid"

\* A standing ticket is refunded once (request: "two tabs, two clicks, one refund").  The
\* code does not keep this.
LegRefundedOnce == \A i \in Places : standing[i].paid <= 1
================================================================================
