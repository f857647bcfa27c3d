------------------------------ MODULE Selection -------------------------------
(***************************************************************************)
(* "Find me seats" (selectionService): a passenger asks for seats over a   *)
(* journey; the service reads what is on sale, chooses (autoSelect) and    *)
(* holds what it chose, and chooses again when somebody was faster, while  *)
(* seats are taken, given back, reserved and released (Quotas).            *)
(***************************************************************************)
EXTENDS Quotas

CONSTANTS
  RowOf, CellOf,  \* where each seat is in its coach; a cell is a seat, an aisle or a table
  Scenes,      \* what may be taken already, asked for, and left to the others to do
  MaxAttempts  \* MAX_ATTEMPTS

INSTANCE AutoSelect

\* wish: the seats that have what is asked for; all of them when nothing is.
Requests ==
  [from : Stops, to : Stops, count : Nat \ {0}, wish : SUBSET Seats,
   together : BOOLEAN, strict : BOOLEAN]

\* The numbers of the seats are in the order bySeatOrder sorts them into.
ASSUME LayoutAssumption ==
  /\ IsFiniteSet(Seats) /\ RowOf \in [Seats -> Nat] /\ CellOf \in [Seats -> Nat]
  /\ \A s, t \in Seats : s < t =>
       \/ CoachOf[s] < CoachOf[t]
       \/ CoachOf[s] = CoachOf[t] /\ RowOf[s] < RowOf[t]
       \/ CoachOf[s] = CoachOf[t] /\ RowOf[s] = RowOf[t] /\ CellOf[s] < CellOf[t]

ASSUME SelectionAssumption ==
  /\ MaxAttempts \in Nat \ {0}
  /\ \A scene \in Scenes :
       /\ scene.row \in [Seats -> SUBSET Segments] /\ scene.moves \in 0 .. MaxMoves
       /\ scene.request \in Requests /\ scene.request.from < scene.request.to

VARIABLES request, buyer
vars == <<row, quota, rules, running, operator, moves, request, buyer>>

\* relaxed: the wish was given up; reason: why nothing was chosen.
Buyers ==
  [stage : {"asking", "proposed", "held", "refused"}, attempt : 1 .. MaxAttempts,
   seats : SUBSET Seats, togetherness : Togetherness \union {0}, relaxed : BOOLEAN,
   reason : {"none", "not_enough_seats", "criteria_unmet", "cannot_seat_together", "taken"}]

Init ==
  /\ QuotaInit
  /\ \E scene \in Scenes :
       /\ row = scene.row /\ moves = scene.moves /\ request = scene.request
  /\ buyer = [stage |-> "asking", attempt |-> 1, seats |-> {}, togetherness |-> 0,
              relaxed |-> FALSE, reason |-> "none"]

-----------------------------------------------------------------------------
(* autoSelect                                                              *)

Free == Available(request.from, request.to)
Matching == Free \cap request.wish
Relaxes == Cardinality(Matching) < request.count
\* The seats to choose from: when too few match, all that are free.
Pool(relaxed) == IF relaxed THEN Free ELSE Matching

Proposal(seats, togetherness) ==
  [buyer EXCEPT !.stage = "proposed", !.seats = seats, !.togetherness = togetherness,
                !.relaxed = Relaxes]
Refusal(reason) == [buyer EXCEPT !.stage = "refused", !.reason = reason]

\* Mistake: a strict request takes what is nearby for together.
RefusesFar(block) == block.togetherness > 3
\* worseThan the same row
Refuses(block) == block.togetherness > SameRow

\* What the chooser may answer.
AutoSelected ==
  IF Cardinality(Free) < request.count THEN {Refusal("not_enough_seats")}
  ELSE IF Relaxes /\ request.strict THEN {Refusal("criteria_unmet")}
  ELSE IF ~request.together
       THEN LET chosen == First(Pool(Relaxes), request.count) IN
            {Proposal(chosen, Describe(chosen))}
  ELSE {IF request.strict /\ Refuses(block) THEN Refusal("cannot_seat_together")
        ELSE Proposal(block.seats, block.togetherness) :
          block \in BestBlocks(Pool(Relaxes), request.count)}

-----------------------------------------------------------------------------
(* selectAndHold                                                           *)

\* Nothing is taken yet: what is proposed can be stale when it is held.
Propose ==
  /\ buyer.stage = "asking"
  /\ buyer' \in AutoSelected
  /\ UNCHANGED <<row, quota, rules, running, operator, moves, request>>

Needed == SegmentsBetween(request.from, request.to)

\* The rows over the journey are unique; reservations are not looked at again.
Hold ==
  /\ buyer.stage = "proposed" /\ \A s \in buyer.seats : IsFree(row[s], Needed)
  /\ row' = [s \in Seats |-> IF s \in buyer.seats THEN row[s] \union Needed ELSE row[s]]
  /\ buyer' = [buyer EXCEPT !.stage = "held"]
  /\ UNCHANGED <<quota, rules, running, operator, moves, request>>

\* A seat went in the meantime: choose again, or give up after the last attempt.
ChooseAgain ==
  IF buyer.attempt < MaxAttempts
  THEN [buyer EXCEPT !.stage = "asking", !.attempt = @ + 1, !.seats = {}, !.togetherness = 0,
                     !.relaxed = FALSE]
  ELSE Refusal("taken")

Conflict ==
  /\ buyer.stage = "proposed" /\ \E s \in buyer.seats : ~IsFree(row[s], Needed)
  /\ buyer' = ChooseAgain
  /\ UNCHANGED <<row, quota, rules, running, operator, moves, request>>

\* What happens after the answer is not looked at (bound).
Next ==
  \/ Propose \/ Hold \/ Conflict
  \/ buyer.stage \notin {"held", "refused"} /\ QuotaNext /\ UNCHANGED <<request, buyer>>

Spec == Init /\ [][Next]_vars

-----------------------------------------------------------------------------
(* Properties                                                              *)

TypeOK == QuotaTypeOK /\ request \in Requests /\ buyer \in Buyers

Proposes == buyer.stage = "asking" /\ buyer'.stage = "proposed"
RefusesNow == buyer.stage = "asking" /\ buyer'.stage = "refused"

\* Somebody else is between two stops of the journey, or a reservation that stands is.
Travelled(from, to) == {k \in Stops : from <= k /\ k < to}
Taken(s) == \E k \in Travelled(request.from, request.to) : k - 1 \in row[s]
PromisedToOthers(s) ==
  /\ quota[s].state = "held" /\ quota[s].pair # <<request.from, request.to>>
  /\ Travelled(request.from, request.to)
       \cap Travelled(quota[s].pair[1], quota[s].pair[2]) # {}
OnOffer(s) == CoachOf[s] \in running /\ ~Taken(s) /\ ~PromisedToOthers(s)

\* At the time it is read, every seat proposed can be sold for the journey, stop by stop:
\* nobody in it, and no reservation but for exactly this journey over any of it
\* (computeAvailability; "a wrong answer is two passengers in one seat").
OffersWhatIsOnOffer == [][Proposes => \A s \in buyer'.seats : OnOffer(s)]_vars

Blocks == {B \in SUBSET {s \in Seats : OnOffer(s)} : Cardinality(B) = request.count}
Liked == {B \in Blocks : B \subseteq request.wish}

\* Asked for seats together, no other choice of as many, out of those that match or, where
\* too few do, of all that are free, is closer together than what is proposed, and what is
\* said of it is so (bestBlock: "in order of what a passenger would actually prefer").
AsCloseAsCan ==
  [][Proposes =>
       /\ buyer'.togetherness = Describe(buyer'.seats)
       /\ request.together =>
            \A B \in (IF Liked = {} THEN Blocks ELSE Liked) :
              buyer'.togetherness <= Describe(B)]_vars

\* Nothing is let down in silence: a strict request is refused exactly when no choice of free
\* seats has all that was asked for, and any other is answered with less only when there is
\* no such choice, and told so ("so when criteria cannot be met, this says so", autoSelect).
Answers(B) == B \in Liked /\ (request.together => Describe(B) <= SameRow)
NoSilentLetDown ==
  [][/\ Proposes => /\ buyer'.seats \in Blocks
                    /\ ~buyer'.relaxed => buyer'.seats \in Liked
                    /\ buyer'.relaxed => Liked = {}
                    /\ request.strict => Answers(buyer'.seats)
     /\ RefusesNow => /\ request.strict => \A B \in Blocks : ~Answers(B)
                      /\ ~request.strict => Blocks = {}]_vars

\* A seat held is sold as its reservation allows ("A reserved seat sells as **exactly** its own
\* pair", quotaPermits).  The code does not keep this: it is read before the seats are held.
HeldAsReserved ==
  [][buyer.stage = "proposed" /\ buyer'.stage = "held" =>
       \A s \in buyer.seats : ~PromisedToOthers(s)]_vars
===============================================================================
