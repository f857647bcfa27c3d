-------------------------------- MODULE Quotas --------------------------------
(***************************************************************************)
(* Seats of one departure held back for a pair of stations (quotaService), *)
(* by a train's standing rules or by hand, and what that leaves on sale    *)
(* (utils/availability.js, availabilityService), while seats are taken and *)
(* given back.  The seats are of one class.  A call that checks before it  *)
(* writes, or reads in a transaction before it writes, is two steps.       *)
(***************************************************************************)
EXTENDS Integers, FiniteSets, Sequences
LOCAL INSTANCE FiniteSetsExt

CONSTANTS
  Seats,      \* trip_seats, numbered in the order of their ids
  CoachOf,    \* the coach each seat is in
  LastStop,   \* the stops of the route are 1 .. LastStop
  Rules,      \* train_quota_rules as a sequence, in order of priority
  Operators,  \* calls of quotaService in progress at once
  MaxMoves    \* bound: what others may start while a passenger asks

Stops == 1 .. LastStop
Pairs == {p \in Stops \X Stops : p[1] < p[2]}
RuleIds == DOMAIN Rules

ASSUME QuotasAssumption ==
  /\ Seats \subseteq Nat /\ IsFiniteSet(Seats) /\ LastStop \in Nat /\ MaxMoves \in Nat
  /\ CoachOf \in [Seats -> Nat]
  /\ Rules \in Seq([pair : Pairs, quantity : Nat])

VARIABLES
  row,       \* seat_segment_bookings: the segments of each seat that are taken
  quota,     \* trip_seat_quotas: a seat's reservation; NoQuota where it has no row
  rules,     \* the standing rules there are
  running,   \* the coaches whose status is active
  operator,  \* the calls in progress
  moves      \* the moves others have left (MaxMoves)

quotaVars == <<row, quota, rules, running, operator, moves>>

Segments == 0 .. LastStop - 2
CoachIds == {CoachOf[s] : s \in Seats}
\* due: its release time has passed; rule: 0 for one placed by hand.
QuotaRows ==
  [pair : Pairs \union {<<0, 0>>}, state : {"none", "held", "due", "released"},
   rule : RuleIds \union {0}]
NoQuota == [pair |-> <<0, 0>>, state |-> "none", rule |-> 0]
\* seats: the seats already reserved, the one seat to reserve, or those due to be released.
Calls ==
  [stage : {"idle", "materialising", "setting", "releasing"}, seats : SUBSET Seats,
   pair : Pairs \union {<<0, 0>>}, rules : SUBSET RuleIds, dropped : SUBSET Seats]
Idle == [stage |-> "idle", seats |-> {}, pair |-> <<0, 0>>, rules |-> {}, dropped |-> {}]

-----------------------------------------------------------------------------
(* Availability, as pure functions                                         *)

\* A journey occupies the segments from its boarding stop to the last before it ends.
SegmentsBetween(from, to) == from - 1 .. to - 2

\* Half-open intervals: touching end to end is not an overlap.
JourneysOverlap(aFrom, aTo, bFrom, bTo) == aFrom < bTo /\ bFrom < aTo

IsFree(occupied, needed) == needed \cap occupied = {}

\* Mistake: a journey inside the reserved stretch is let through.
QuotaPermitsInside(q, from, to) ==
  \/ q.state \in {"none", "released", "due"}
  \/ q.pair[1] <= from /\ to <= q.pair[2]
  \/ ~JourneysOverlap(from, to, q.pair[1], q.pair[2])
\* Exactly the reserved pair, or a journey clear of it.
QuotaPermits(q, from, to) ==
  \/ q.state \in {"none", "released", "due"}
  \/ q.pair = <<from, to>>
  \/ ~JourneysOverlap(from, to, q.pair[1], q.pair[2])

SellableSeats == {s \in Seats : CoachOf[s] \in running}

\* computeAvailability, as forJourney calls it: with no filter.
Available(from, to) ==
  {s \in SellableSeats : /\ IsFree(row[s], SegmentsBetween(from, to))
                         /\ QuotaPermits(quota[s], from, to)}

-----------------------------------------------------------------------------
(* Seats are taken and given back by others, whatever is reserved: a       *)
(* checkout or a block asks for a seat by its id (reserveSegments).        *)

Move == moves > 0 /\ moves' = moves - 1

Take(s, pair) ==
  /\ Move /\ IsFree(row[s], SegmentsBetween(pair[1], pair[2]))
  /\ row' = [row EXCEPT ![s] = @ \union SegmentsBetween(pair[1], pair[2])]
  /\ UNCHANGED <<quota, rules, running, operator>>

\* A checkout lapses, a ticket is returned, a block is lifted.
GiveBack(s) ==
  /\ Move /\ row[s] # {}
  /\ row' = [row EXCEPT ![s] = {}]
  /\ UNCHANGED <<quota, rules, running, operator>>

\* coachService cancels a coach, or reinstates it.
CoachTurns(c) ==
  /\ Move
  /\ running' = IF c \in running THEN running \ {c} ELSE running \union {c}
  /\ UNCHANGED <<row, quota, rules, operator>>

-----------------------------------------------------------------------------
(* Reserving                                                               *)

\* A run that replaces deletes its rows first; the others wait for it to end.
Locked(s) ==
  \E o \in Operators : operator[o].stage = "materialising" /\ s \in operator[o].dropped

Begin(o, call) ==
  /\ Move /\ operator[o] = Idle
  /\ operator' = [operator EXCEPT ![o] = call]
  /\ UNCHANGED <<row, quota, rules, running>>

\* A reservation whose row is gone is no longer found by its id.
Forget(call, gone) ==
  IF call.stage = "releasing" THEN [call EXCEPT !.seats = @ \ gone] ELSE call
Done(o, gone) ==
  [p \in Operators |-> IF p = o THEN Idle ELSE Forget(operator[p], gone)]

Reserved == {s \in Seats : quota[s] # NoQuota}
RuleMade == {s \in Seats : quota[s].rule # 0}

\* No part of the stretch may be taken; nothing holds it so until the row is written.
SetRead(o, s, pair) ==
  /\ IsFree(row[s], SegmentsBetween(pair[1], pair[2]))
  /\ Begin(o, [Idle EXCEPT !.stage = "setting", !.seats = {s}, !.pair = pair])

\* The upsert keeps the row's id when the seat has one already.
SetWrite(o) ==
  /\ operator[o].stage = "setting" /\ \A s \in operator[o].seats : ~Locked(s)
  /\ quota' = [s \in Seats |->
                 IF s \in operator[o].seats
                 THEN [pair |-> operator[o].pair, state |-> "held", rule |-> 0]
                 ELSE quota[s]]
  /\ operator' = Done(o, {})
  /\ UNCHANGED <<row, rules, running, moves>>

ClearSeatQuota(s) ==
  /\ Move /\ quota[s] # NoQuota /\ ~Locked(s)
  /\ quota' = [quota EXCEPT ![s] = NoQuota]
  /\ operator' = [o \in Operators |-> Forget(operator[o], {s})]
  /\ UNCHANGED <<row, rules, running>>

\* The seats the rules before rule k claim.
Ahead(k, ids) == MapThenSumSet(LAMBDA j : Rules[j].quantity, {j \in ids : j < k})

\* The rules take their quantities in turn, each the lowest ids the rules before it left of the
\* seats free to reserve.
Claimants(s, seats, ids) ==
  {k \in ids : /\ s \in seats
               /\ Cardinality({t \in seats : t < s}) \in
                    Ahead(k, ids) .. Ahead(k, ids) + Rules[k].quantity - 1}

\* Which rule claims a seat, 0 for none.
Claims(seats, ids) ==
  [s \in Seats |-> IF Claimants(s, seats, ids) = {} THEN 0
                   ELSE CHOOSE k \in Claimants(s, seats, ids) : TRUE]

\* A run reads which rules there are and which seats are reserved; one that replaces deletes
\* the rows the rules made before.  What is placed by hand is left alone.
MaterialiseRead(o, replace) ==
  LET dropped == IF replace THEN RuleMade ELSE {} IN
  /\ rules # {} \/ replace
  /\ \A s \in dropped : ~Locked(s)
  /\ Begin(o, [Idle EXCEPT !.stage = "materialising", !.rules = rules, !.dropped = dropped,
                           !.seats = SellableSeats \ (Reserved \ dropped)])

\* Mistake: a seat that has a row by now has it overwritten.
ClashesNever(o, claim) == \E s \in Seats : claim[s] # 0 /\ claim[s] \notin rules
\* Mistake: a rule that is gone by now still leaves rows.
ClashesRow(o, claim) ==
  \E s \in Seats : claim[s] # 0 /\ quota[s] # NoQuota /\ s \notin operator[o].dropped
\* One row per seat (unique), of a rule that is there (foreign key).
Clashes(o, claim) ==
  \E s \in Seats : /\ claim[s] # 0
                   /\ \/ quota[s] # NoQuota /\ s \notin operator[o].dropped
                      \/ claim[s] \notin rules

MaterialiseWrite(o) ==
  LET claim == Claims(operator[o].seats, operator[o].rules) IN
  /\ operator[o].stage = "materialising" /\ ~Clashes(o, claim)
  /\ quota' = [s \in Seats |->
                 IF claim[s] # 0
                 THEN [pair |-> Rules[claim[s]].pair, state |-> "held", rule |-> claim[s]]
                 ELSE IF s \in operator[o].dropped THEN NoQuota ELSE quota[s]]
  /\ operator' = Done(o, operator[o].dropped)
  /\ UNCHANGED <<row, rules, running, moves>>

\* The rule's seats are freed with it.
DeleteRule(r) ==
  LET freed == {s \in Seats : quota[s].rule = r} IN
  /\ Move /\ r \in rules /\ \A s \in freed : ~Locked(s)
  /\ rules' = rules \ {r}
  /\ quota' = [s \in Seats |-> IF s \in freed THEN NoQuota ELSE quota[s]]
  /\ operator' = [o \in Operators |-> Forget(operator[o], freed)]
  /\ UNCHANGED <<row, running>>

-----------------------------------------------------------------------------
(* Releasing                                                               *)

\* The release time of a reservation comes.
Lapse(s) ==
  /\ Move /\ quota[s].state = "held"
  /\ quota' = [quota EXCEPT ![s].state = "due"]
  /\ UNCHANGED <<row, rules, running, operator>>

Released(seats) ==
  [s \in Seats |-> IF s \in seats THEN [quota[s] EXCEPT !.state = "released"] ELSE quota[s]]

\* The job finds what is due, then writes by id.
ReleaseRead(o) ==
  LET due == {s \in Seats : quota[s].state = "due"} IN
  /\ due # {}
  /\ Begin(o, [Idle EXCEPT !.stage = "releasing", !.seats = due])

ReleaseWrite(o) ==
  /\ operator[o].stage = "releasing" /\ \A s \in operator[o].seats : ~Locked(s)
  /\ quota' = Released(operator[o].seats)
  /\ operator' = Done(o, {})
  /\ UNCHANGED <<row, rules, running, moves>>

\* One departure's, early and by hand, in one statement.
ReleaseTrip ==
  LET held == {s \in Seats : quota[s].state \in {"held", "due"}} IN
  /\ Move /\ held # {} /\ \A s \in held : ~Locked(s)
  /\ quota' = Released(held)
  /\ UNCHANGED <<row, rules, running, operator>>

\* The call ends with nothing written: a run that clashed is rolled back, or the server ends.
CallLost(o) ==
  /\ operator[o] # Idle
  /\ operator' = Done(o, {})
  /\ UNCHANGED <<row, quota, rules, running, moves>>

-----------------------------------------------------------------------------
QuotaInit ==
  /\ quota = [s \in Seats |-> NoQuota]
  /\ rules = RuleIds /\ running = CoachIds
  /\ operator = [o \in Operators |-> Idle]

Sales ==
  \/ \E s \in Seats, pair \in Pairs : Take(s, pair)
  \/ \E s \in Seats : GiveBack(s)
  \/ \E c \in CoachIds : CoachTurns(c)

Reserving ==
  \/ \E o \in Operators, s \in Seats, pair \in Pairs : SetRead(o, s, pair)
  \/ \E o \in Operators, replace \in BOOLEAN : MaterialiseRead(o, replace)
  \/ \E o \in Operators : \/ SetWrite(o) \/ MaterialiseWrite(o)
                          \/ ReleaseRead(o) \/ ReleaseWrite(o) \/ CallLost(o)
  \/ \E s \in Seats : ClearSeatQuota(s) \/ Lapse(s)
  \/ \E r \in RuleIds : DeleteRule(r)
  \/ ReleaseTrip

QuotaNext == Sales \/ Reserving

-----------------------------------------------------------------------------
(* Properties                                                              *)

QuotaTypeOK ==
  /\ row \in [Seats -> SUBSET Segments]
  /\ quota \in [Seats -> QuotaRows]
  /\ rules \subseteq RuleIds /\ running \subseteq CoachIds
  /\ operator \in [Operators -> Calls]
  /\ moves \in 0 .. MaxMoves

\* No reservation is left of a rule that is not there any more ("an invisible hold nobody can
\* find the cause of", deleteRule), also when the rule goes while a run that read it is on.
Explained == \A s \in Seats : quota[s].rule # 0 => quota[s].rule \in rules

\* However many runs, operators and jobs work at once, a run of the rules never turns a seat
\* placed by hand into one of theirs ("so a regeneration does not stomp a deliberate
\* override", materialiseForTrip).
HandPlacedStands ==
  [][\A s \in Seats : quota[s] # NoQuota /\ quota[s].rule = 0 => quota'[s].rule = 0]_quotaVars

\* A rule holds no more seats than its quantity.  The code does not keep this: each run that
\* does not replace reserves as many again.
QuantityKept ==
  \A r \in rules : Cardinality({s \in Seats : quota[s].rule = r}) <= Rules[r].quantity
===============================================================================
