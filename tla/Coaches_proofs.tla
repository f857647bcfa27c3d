---------------------------- MODULE Coaches_proofs ----------------------------
(***************************************************************************)
(* Proofs about Coaches, for any train, passengers, route, capacity and    *)
(* number of operators at once: the types hold; a coach that a ticket was  *)
(* ever sold in stays; and no more stand in a coach than may.  With one    *)
(* operator at a time no two coaches have one position, and only additions *)
(* whose plan could not be built leave gaps.  That refunds come in time    *)
(* stays with TLC.                                                         *)
(***************************************************************************)
EXTENDS Coaches, FiniteSetTheorems, TLAPS

LEMMA InitType == Init => TypeOK
<1> SUFFICES ASSUME Init PROVE TypeOK
  OBVIOUS
<1> USE CoachesAssumption
<1>0. Cardinality(Coaches) \in Nat
  BY FS_CardinalityType
<1>1. coach \in [Coaches -> CoachRows]
  BY <1>0 DEF Init, CoachRows
<1>2. seat \in [Passengers -> SeatRows]
  BY DEF Init, SeatRows
<1>3. standing \in [Places -> StandingRows]
  BY DEF Init, StandingRows, NoStanding
<1>4. returning \in [Passengers -> (SUBSET Places) \union {NoReturn}]
  BY DEF Init
<1>5. operator \in [Operators -> Calls]
  BY DEF Init, Calls, Idle, Unseen
<1>6. skips \in Nat
  BY DEF Init
<1> QED BY <1>1, <1>2, <1>3, <1>4, <1>5, <1>6 DEF TypeOK

LEMMA BeginType ==
  ASSUME TypeOK, NEW o \in Operators, NEW stage, NEW k \in Coaches, NEW at \in Nat,
         NEW seen \in [Coaches -> Nat], Begin(o, stage, k, at, seen),
         stage \in {"adding", "removing", "cancelling", "reinstating"}
  PROVE  TypeOK'
<1>1. operator' \in [Operators -> Calls]
  BY DEF TypeOK, Begin, Calls
<1> QED BY <1>1 DEF TypeOK, Begin

LEMMA EndType == ASSUME TypeOK, NEW o \in Operators, End(o) PROVE operator' \in [Operators -> Calls]
<1>1. Idle \in Calls
  BY DEF Idle, Calls, Unseen
<1> QED BY <1>1 DEF TypeOK, End

LEMMA RefundLegsType == ASSUME TypeOK, NEW ids PROVE RefundLegs(ids) \in [Places -> StandingRows]
<1>1. ASSUME NEW i \in Places
      PROVE  [standing[i] EXCEPT !.status = "refunded", !.paid = @ + 1] \in StandingRows
  <2>1. standing[i] \in StandingRows
    BY DEF TypeOK
  <2>2. standing[i].paid \in Nat
    BY <2>1 DEF StandingRows
  <2>3. ASSUME NEW row \in StandingRows, NEW n \in Nat
        PROVE  [row EXCEPT !.status = "refunded", !.paid = n] \in StandingRows
    BY DEF StandingRows
  <2>4. standing[i].paid + 1 \in Nat
    BY <2>2
  <2> QED BY <2>1, <2>3, <2>4
<1> QED BY <1>1 DEF TypeOK, RefundLegs

LEMMA SeatTypes ==
  ASSUME NEW s \in SeatRows
  PROVE  Ended(s) \in SeatRows /\ Refunded(s) \in SeatRows
BY DEF Ended, Refunded, SeatRows

LEMMA PassengerType == TypeOK /\ Passenger => TypeOK'
<1> SUFFICES ASSUME TypeOK, Passenger PROVE TypeOK'
  OBVIOUS
<1>1. ASSUME NEW p \in Passengers, NEW k \in Coaches, Hold(p, k) PROVE TypeOK'
  <2>1. seat' \in [Passengers -> SeatRows]
    BY <1>1 DEF Hold, TypeOK, SeatRows
  <2> QED BY <1>1, <2>1 DEF Hold, TypeOK
<1>2. ASSUME NEW p \in Passengers, Release(p) PROVE TypeOK'
  BY <1>2, SeatTypes DEF Release, TypeOK
<1>3. ASSUME NEW p \in Passengers, Sell(p) PROVE TypeOK'
  <2>1. seat' \in [Passengers -> SeatRows]
    BY <1>3 DEF Sell, TypeOK, SeatRows
  <2> QED BY <1>3, <2>1 DEF Sell, TypeOK
<1>4. ASSUME NEW p \in Passengers, ReturnRead(p) PROVE TypeOK'
  BY <1>4 DEF ReturnRead, TypeOK, LegsOf
<1>5. ASSUME NEW p \in Passengers, ReturnWrite(p) PROVE TypeOK'
  <2>1. seat' \in [Passengers -> SeatRows] /\ standing' \in [Places -> StandingRows]
    BY <1>5, SeatTypes, RefundLegsType DEF ReturnWrite, TypeOK
  <2> QED BY <1>5, <2>1 DEF ReturnWrite, TypeOK
<1>6. ASSUME NEW p \in Passengers, ReturnFails(p) PROVE TypeOK'
  BY <1>6 DEF ReturnFails, TypeOK
<1>7. ASSUME NEW i \in Places, NEW p \in Passengers, NEW leg \in Legs, PurchaseRead(i, p, leg)
      PROVE  TypeOK'
  <2>1. standing' \in [Places -> StandingRows]
    BY <1>7 DEF PurchaseRead, TypeOK, StandingRows, NoStanding
  <2> QED BY <1>7, <2>1 DEF PurchaseRead, TypeOK
<1>8. ASSUME NEW i \in Places, PurchaseWrite(i) PROVE TypeOK'
  <2>1. standing' \in [Places -> StandingRows]
    BY <1>8 DEF PurchaseWrite, TypeOK, StandingRows
  <2> QED BY <1>8, <2>1 DEF PurchaseWrite, TypeOK
<1>9. ASSUME NEW i \in Places, PurchaseFails(i) PROVE TypeOK'
  <2>1. NoStanding \in StandingRows
    BY DEF NoStanding, StandingRows
  <2> QED BY <1>9, <2>1 DEF PurchaseFails, TypeOK
<1> QED BY <1>1, <1>2, <1>3, <1>4, <1>5, <1>6, <1>7, <1>8, <1>9 DEF Passenger

LEMMA JobType == TypeOK /\ Job => TypeOK'
<1> SUFFICES ASSUME TypeOK, NEW k \in Coaches, JobRefunds(k) \/ JobEnds(k) PROVE TypeOK'
  BY DEF Job
<1>1. ASSUME NEW p \in Passengers, JobSeat(k, p) PROVE TypeOK'
  BY <1>1, SeatTypes DEF JobSeat, TypeOK
<1>2. ASSUME NEW i \in Places, JobLeg(k, i) PROVE TypeOK'
  BY <1>2, RefundLegsType DEF JobLeg, TypeOK
<1>3. CASE JobEnds(k)
  <2>1. coach' \in [Coaches -> CoachRows]
    BY <1>3 DEF JobEnds, TypeOK, CoachRows
  <2> QED BY <1>3, <2>1 DEF JobEnds, TypeOK
<1> QED BY <1>1, <1>2, <1>3 DEF JobRefunds

LEMMA OperatorType == TypeOK /\ Operator => TypeOK'
<1> SUFFICES ASSUME TypeOK, Operator PROVE TypeOK'
  OBVIOUS
<1>t. coach \in [Coaches -> CoachRows] /\ \A k \in Coaches : coach[k].at \in Nat
  BY DEF TypeOK, CoachRows
<1>u. Unseen \in [Coaches -> Nat]
  BY DEF Unseen
<1>1. ASSUME NEW o \in Operators, NEW k \in Coaches, NEW place \in Positions, AddRead(o, k, place)
      PROVE  TypeOK'
  <2>1. [j \in Coaches |-> IF j \in Here THEN coach[j].at ELSE 0] \in [Coaches -> Nat]
    BY <1>t
  <2>2. place \in Nat
    BY DEF Positions
  <2> QED BY <1>1, <2>1, <2>2, BeginType DEF AddRead
<1>2. ASSUME NEW o \in Operators, NEW k \in Coaches,
             RemoveRead(o, k) \/ CancelRead(o, k) \/ ReinstateRead(o, k)
      PROVE  TypeOK'
  BY <1>2, <1>t, <1>u, BeginType DEF RemoveRead, CancelRead, ReinstateRead
<1>3. ASSUME NEW o \in Operators, AddWrite(o) PROVE TypeOK'
  <2>1. operator[o].seen \in [Coaches -> Nat] /\ operator[o].at \in Nat
    BY DEF TypeOK, Calls
  <2>2. coach' \in [Coaches -> CoachRows]
    <3> SUFFICES ASSUME NEW j \in Coaches PROVE coach'[j] \in CoachRows
      BY <1>3 DEF AddWrite
    <3>1. [coach[j] EXCEPT !.at = operator[o].seen[j] + 1] \in CoachRows
      BY <1>t, <2>1 DEF CoachRows
    <3>2. [coach[j] EXCEPT !.status = "active", !.at = operator[o].at] \in CoachRows
      BY <1>t, <2>1 DEF CoachRows
    <3> QED BY <1>3, <1>t, <3>1, <3>2 DEF AddWrite
  <2> QED BY <1>3, <2>2, EndType DEF AddWrite, TypeOK
<1>4. ASSUME NEW o \in Operators, RemoveWrite(o) PROVE TypeOK'
  <2> DEFINE k == operator[o].coach  at == operator[o].at
  <2>1. at \in Nat
    BY DEF TypeOK, Calls
  <2>2. coach' \in [Coaches -> CoachRows]
    <3> SUFFICES ASSUME NEW j \in Coaches PROVE coach'[j] \in CoachRows
      BY <1>4 DEF RemoveWrite
    <3>0. coach'[j] = IF j = k THEN [coach[k] EXCEPT !.status = "removed", !.at = 0]
                      ELSE IF j \in GapClosed(k, at) THEN [coach[j] EXCEPT !.at = @ - 1]
                      ELSE coach[j]
      BY <1>4 DEF RemoveWrite
    <3> HIDE DEF k, at
    <3>1. CASE j = k
      <4>1. [coach[j] EXCEPT !.status = "removed", !.at = 0] \in CoachRows
        BY <1>t DEF CoachRows
      <4> QED BY <3>0, <3>1, <4>1
    <3>2. CASE j # k /\ j \in GapClosed(k, at)
      <4>1. coach[j].at - 1 \in Nat
        BY <1>t, <2>1, <3>2 DEF GapClosed
      <4>2. [coach[j] EXCEPT !.at = @ - 1] \in CoachRows
        BY <1>t, <4>1 DEF CoachRows
      <4> QED BY <3>0, <3>2, <4>2
    <3>3. CASE j # k /\ j \notin GapClosed(k, at)
      BY <3>0, <1>t, <3>3
    <3> QED BY <3>1, <3>2, <3>3
  <2>3. seat' \in [Passengers -> SeatRows]
    BY <1>4 DEF RemoveWrite, TypeOK, SeatRows
  <2> QED BY <1>4, <2>2, <2>3, EndType DEF RemoveWrite, TypeOK
<1>5. ASSUME NEW o \in Operators, CancelWrite(o) PROVE TypeOK'
  <2>1. coach' \in [Coaches -> CoachRows]
    BY <1>5, <1>t DEF CancelWrite, CoachRows, Here
  <2>2. operator' \in [Operators -> Calls]
    BY <1>5 DEF CancelWrite, TypeOK, Calls
  <2> QED BY <1>5, <2>1, <2>2 DEF CancelWrite, TypeOK
<1>6. ASSUME NEW o \in Operators, ReleaseFound(o) PROVE TypeOK'
  BY <1>6, EndType, SeatTypes DEF ReleaseFound, TypeOK
<1>7. ASSUME NEW o \in Operators, ReinstateWrite(o) PROVE TypeOK'
  <2>1. coach' \in [Coaches -> CoachRows]
    BY <1>7, <1>t DEF ReinstateWrite, CoachRows, Here
  <2> QED BY <1>7, <2>1, EndType DEF ReinstateWrite, TypeOK
<1>8. ASSUME NEW o \in Operators, CallLost(o) PROVE TypeOK'
  BY <1>8, EndType DEF CallLost, TypeOK
<1>9. ASSUME NEW o \in Operators, AddSkipped(o) PROVE TypeOK'
  <2>1. operator[o].seen \in [Coaches -> Nat]
    BY DEF TypeOK, Calls
  <2>2. coach' \in [Coaches -> CoachRows]
    <3> SUFFICES ASSUME NEW j \in Coaches PROVE coach'[j] \in CoachRows
      BY <1>9 DEF AddSkipped
    <3>1. [coach[j] EXCEPT !.at = operator[o].seen[j] + 1] \in CoachRows
      BY <1>t, <2>1 DEF CoachRows
    <3> QED BY <1>9, <1>t, <3>1 DEF AddSkipped
  <2> QED BY <1>9, <2>2, EndType DEF AddSkipped, TypeOK
<1> QED BY <1>1, <1>2, <1>3, <1>4, <1>5, <1>6, <1>7, <1>8, <1>9 DEF Operator

LEMMA TypeStep == TypeOK /\ [Next]_vars => TypeOK'
<1>1. TypeOK /\ UNCHANGED vars => TypeOK'
  BY DEF TypeOK, vars
<1> QED BY <1>1, PassengerType, JobType, OperatorType DEF Next

\* The types of the coaches, checkouts, tickets, returns and calls.
THEOREM SpecTypeOK == Spec => []TypeOK
BY InitType, TypeStep, PTL DEF Spec

-----------------------------------------------------------------------------
\* A checkout that has rows, or a ticket, is in a coach that is there, and only a valid ticket
\* is being returned.
Recorded(p) ==
  /\ seat[p].hold \in {"none", "active"} => seat[p].status = "none"
  /\ seat[p].hold # "active" => seat[p].row # "hold"
  /\ seat[p].row = "hold" \/ seat[p].status # "none" => seat[p].coach \in Here
  /\ seat[p].status = "valid" => seat[p].row = "ticket"
  /\ returning[p] # NoReturn => seat[p].status = "valid"
Records == \A p \in Passengers : Recorded(p)

\* The coaches stay where nothing changes their status but to another of those there.
LEMMA RecordedKept ==
  ASSUME Records, NEW p \in Passengers, seat'[p] = seat[p],
         returning'[p] = returning[p], Here \subseteq Here'
  PROVE  Recorded(p)'
BY DEF Records, Recorded

LEMMA PassengerRecords == TypeOK /\ Records /\ Passenger => Records'
<1> SUFFICES ASSUME TypeOK, Records, Passenger PROVE Records'
  OBVIOUS
<1>t. /\ \A p \in Passengers : seat[p] \in SeatRows
      /\ seat \in [Passengers -> SeatRows]
      /\ returning \in [Passengers -> (SUBSET Places) \union {NoReturn}]
  BY DEF TypeOK
<1>h. ASSUME UNCHANGED coach PROVE Here' = Here
  BY <1>h DEF Here
<1>1. ASSUME NEW p \in Passengers, NEW k \in Coaches, Hold(p, k) PROVE Records'
  <2>1. Recorded(p)'
    BY <1>1, <1>t, <1>h DEF Hold, Records, Recorded, SeatRows
  <2>2. \A q \in Passengers \ {p} : seat'[q] = seat[q]
    BY <1>1, <1>t DEF Hold
  <2> QED BY <1>1, <1>h, <2>1, <2>2, RecordedKept DEF Hold, Records
<1>2. ASSUME NEW p \in Passengers, Release(p) PROVE Records'
  <2>1. Recorded(p)'
    BY <1>2, <1>t, <1>h DEF Release, Records, Recorded, SeatRows, Ended
  <2>2. \A q \in Passengers \ {p} : seat'[q] = seat[q]
    BY <1>2, <1>t DEF Release
  <2> QED BY <1>2, <1>h, <2>1, <2>2, RecordedKept DEF Release, Records
<1>3. ASSUME NEW p \in Passengers, Sell(p) PROVE Records'
  <2>1. Recorded(p)'
    BY <1>3, <1>t, <1>h DEF Sell, Records, Recorded, SeatRows
  <2>2. \A q \in Passengers \ {p} : seat'[q] = seat[q]
    BY <1>3, <1>t DEF Sell
  <2> QED BY <1>3, <1>h, <2>1, <2>2, RecordedKept DEF Sell, Records
<1>4. ASSUME NEW p \in Passengers, ReturnRead(p) PROVE Records'
  <2>1. Recorded(p)'
    BY <1>4, <1>h DEF ReturnRead, Records, Recorded
  <2>2. \A q \in Passengers \ {p} : returning'[q] = returning[q]
    BY <1>4, <1>t DEF ReturnRead
  <2> QED BY <1>4, <1>h, <2>1, <2>2, RecordedKept DEF ReturnRead, Records
<1>5. ASSUME NEW p \in Passengers, ReturnWrite(p) PROVE Records'
  <2>1. Recorded(p)'
    <3>1. returning'[p] = NoReturn /\ seat'[p] = Refunded(seat[p]) /\ Here' = Here
      BY <1>5, <1>t, <1>h DEF ReturnWrite
    <3>2. seat[p].status = "valid"
      BY <1>5 DEF ReturnWrite, Records, Recorded
    <3> QED BY <1>t, <3>1, <3>2 DEF Records, Recorded, Refunded, SeatRows
  <2>2. \A q \in Passengers \ {p} : seat'[q] = seat[q] /\ returning'[q] = returning[q]
    BY <1>5, <1>t DEF ReturnWrite
  <2> QED BY <1>5, <1>h, <2>1, <2>2, RecordedKept DEF ReturnWrite, Records
<1>6. ASSUME NEW p \in Passengers, ReturnFails(p) PROVE Records'
  <2>1. Recorded(p)'
    BY <1>6, <1>t, <1>h DEF ReturnFails, Records, Recorded
  <2>2. \A q \in Passengers \ {p} : returning'[q] = returning[q]
    BY <1>6, <1>t DEF ReturnFails
  <2> QED BY <1>6, <1>h, <2>1, <2>2, RecordedKept DEF ReturnFails, Records
<1>7. ASSUME UNCHANGED <<coach, seat, returning>> PROVE Records'
  BY <1>7, <1>h, RecordedKept DEF Records
<1>8. ASSUME NEW i \in Places
      PROVE  PurchaseWrite(i) \/ PurchaseFails(i) => UNCHANGED <<coach, seat, returning>>
  BY DEF PurchaseWrite, PurchaseFails
<1>9. ASSUME NEW i \in Places, NEW p \in Passengers, NEW leg \in Legs
      PROVE  PurchaseRead(i, p, leg) => UNCHANGED <<coach, seat, returning>>
  BY DEF PurchaseRead
<1> QED BY <1>1, <1>2, <1>3, <1>4, <1>5, <1>6, <1>7, <1>8, <1>9 DEF Passenger

LEMMA JobRecords == TypeOK /\ Records /\ Job => Records'
<1> SUFFICES ASSUME TypeOK, Records, NEW k \in Coaches, JobRefunds(k) \/ JobEnds(k) PROVE Records'
  BY DEF Job
<1>1. ASSUME NEW p \in Passengers, JobSeat(k, p) PROVE Records'
  <2>1. seat'[p] = Refunded(seat[p]) /\ seat[p].status = "valid" /\ seat[p] \in SeatRows
    BY <1>1 DEF JobSeat, OwedSeats, Seated, TypeOK
  <2>2. Here' = Here /\ returning' = returning /\ returning[p] = NoReturn
    BY <1>1 DEF JobSeat, Here
  <2>3. Recorded(p)'
    BY <2>1, <2>2 DEF Records, Recorded, Refunded, SeatRows
  <2>4. \A q \in Passengers \ {p} : seat'[q] = seat[q]
    BY <1>1 DEF JobSeat, TypeOK
  <2> QED BY <2>2, <2>3, <2>4, RecordedKept DEF Records
<1>2. ASSUME NEW i \in Places, JobLeg(k, i) PROVE Records'
  BY <1>2, RecordedKept DEF JobLeg, Records, Here
<1>3. CASE JobEnds(k)
  <2>1. Here' = Here
    BY <1>3 DEF JobEnds, TypeOK, CoachRows, Here
  <2> QED BY <1>3, <2>1, RecordedKept DEF JobEnds, Records
<1> QED BY <1>1, <1>2, <1>3 DEF JobRefunds

LEMMA OperatorRecords == TypeOK /\ Records /\ Operator => Records'
<1> SUFFICES ASSUME TypeOK, Records, Operator PROVE Records'
  OBVIOUS
<1>t. coach \in [Coaches -> CoachRows] /\ seat \in [Passengers -> SeatRows]
  BY DEF TypeOK
<1>k. ASSUME UNCHANGED <<seat, returning>>, Here \subseteq Here' PROVE Records'
  BY <1>k, RecordedKept DEF Records
<1>b. ASSUME NEW o \in Operators, NEW stage, NEW j, NEW at, NEW seen, Begin(o, stage, j, at, seen)
      PROVE  Records'
  BY <1>b, <1>k DEF Begin, Here
<1>1. ASSUME NEW o \in Operators, NEW k \in Coaches, NEW place \in Positions, AddRead(o, k, place)
      PROVE  Records'
  BY <1>1, <1>b DEF AddRead
<1>2. ASSUME NEW o \in Operators, NEW k \in Coaches,
             RemoveRead(o, k) \/ CancelRead(o, k) \/ ReinstateRead(o, k)
      PROVE  Records'
  BY <1>2, <1>b DEF RemoveRead, CancelRead, ReinstateRead
<1>3. ASSUME NEW o \in Operators, AddWrite(o) PROVE Records'
  <2>1. \A j \in Here : coach'[j].status = coach[j].status
    BY <1>3, <1>t DEF AddWrite, Here, CoachRows
  <2> QED BY <1>3, <1>k, <2>1 DEF AddWrite, Here
<1>4. ASSUME NEW o \in Operators, RemoveWrite(o) PROVE Records'
  <2> DEFINE k == operator[o].coach
  <2>1. Here \ {k} \subseteq Here'
    <3>1. \A j \in Here \ {k} : coach'[j].status = coach[j].status
      BY <1>4, <1>t DEF RemoveWrite, Here, CoachRows
    <3> QED BY <3>1 DEF Here
  <2>2. \A p \in Passengers : seat[p].coach = k => seat[p].status = "none"
    BY <1>4 DEF RemoveWrite, Refers
  <2>3. \A p \in Passengers :
          seat'[p] = IF seat[p].coach = k THEN [seat[p] EXCEPT !.row = "none"] ELSE seat[p]
    BY <1>4 DEF RemoveWrite
  <2>4. returning' = returning
    BY <1>4 DEF RemoveWrite
  <2> HIDE DEF k
  <2>5. ASSUME NEW p \in Passengers PROVE Recorded(p)'
    <3>1. CASE seat[p].coach = k
      BY <1>t, <2>2, <2>3, <2>4, <3>1 DEF Records, Recorded, SeatRows
    <3>2. CASE seat[p].coach # k
      BY <2>1, <2>3, <2>4, <3>2 DEF Records, Recorded
    <3> QED BY <3>1, <3>2
  <2> QED BY <2>5 DEF Records
<1>5. ASSUME NEW o \in Operators, CancelWrite(o) PROVE Records'
  <2>1. Here \subseteq Here'
    BY <1>5, <1>t DEF CancelWrite, Here, CoachRows
  <2> QED BY <1>5, <1>k, <2>1 DEF CancelWrite
<1>6. ASSUME NEW o \in Operators, ReleaseFound(o) PROVE Records'
  <2>1. Here' = Here /\ returning' = returning
    BY <1>6 DEF ReleaseFound, Here
  <2>2. ASSUME NEW p \in Passengers PROVE Recorded(p)'
    <3>1. CASE seat[p].row = "hold"
      <4>1. seat'[p] = Ended(seat[p]) \/ seat'[p] = seat[p]
        BY <1>6 DEF ReleaseFound
      <4> QED BY <1>t, <2>1, <3>1, <4>1 DEF Records, Recorded, Ended, SeatRows
    <3>2. CASE seat[p].row # "hold"
      BY <1>6, <2>1, <3>2, RecordedKept DEF ReleaseFound
    <3> QED BY <3>1, <3>2
  <2> QED BY <2>2 DEF Records
<1>7. ASSUME NEW o \in Operators, ReinstateWrite(o) PROVE Records'
  <2>1. Here \subseteq Here'
    BY <1>7, <1>t DEF ReinstateWrite, Here, CoachRows
  <2> QED BY <1>7, <1>k, <2>1 DEF ReinstateWrite
<1>8. ASSUME NEW o \in Operators, CallLost(o) PROVE Records'
  BY <1>8, <1>k DEF CallLost, Here
<1>9. ASSUME NEW o \in Operators, AddSkipped(o) PROVE Records'
  <2>1. \A j \in Here : coach'[j].status = coach[j].status
    BY <1>9, <1>t DEF AddSkipped, Here, CoachRows
  <2> QED BY <1>9, <1>k, <2>1 DEF AddSkipped, Here
<1> QED BY <1>1, <1>2, <1>3, <1>4, <1>5, <1>6, <1>7, <1>8, <1>9 DEF Operator

LEMMA SpecRecords == Spec => []Records
<1>1. Init => Records
  BY DEF Init, Records, Recorded
<1>2. TypeOK /\ Records /\ [Next]_vars => Records'
  <2>1. Records /\ UNCHANGED vars => Records'
    BY DEF Records, Recorded, vars, Here
  <2> QED BY <2>1, PassengerRecords, JobRecords, OperatorRecords DEF Next
<1> QED BY <1>1, <1>2, SpecTypeOK, PTL DEF Spec

\* However many operators and passengers are at work: a coach a ticket was ever sold in stays,
\* and a valid ticket keeps its rows (remove, and the foreign keys it counts on).
THEOREM SpecRecordOutlives == Spec => []RecordOutlives
<1>1. Records => RecordOutlives
  BY DEF Records, Recorded, RecordOutlives
<1> QED BY <1>1, SpecRecords, PTL

-----------------------------------------------------------------------------
\* Who has a standing ticket, or is buying one, has a seat, whose coach stays what it is.
Seatedly == \A i \in Places :
              standing[i].status # "none" =>
                standing[i].of \in Passengers /\ seat[standing[i].of].status # "none"

Cars == Coaches \union {NoCoach}
Buys(i, k) == standing[i].status = "buying" /\ CoachOf(i) = k

\* A purchase holds its coach alone, and there is room for it.
Rooms ==
  \A i \in Places, k \in Cars :
    Buys(i, k) => /\ \A s \in Segments(standing[i].leg) : Occupancy(k, s) < Capacity
                  /\ \A j \in Places \ {i} : ~Buys(j, k)

\* Who stands in a coach over a segment.
Members(k, s) == {i \in Standing(k) : s \in Segments(standing[i].leg)}
CapKept == \A k \in Cars, s \in 0 .. Stops - 2 : Occupancy(k, s) <= Capacity

LEMMA MembersFinite ==
  ASSUME NEW k, NEW s
  PROVE  /\ IsFiniteSet(Members(k, s)) /\ Occupancy(k, s) = Cardinality(Members(k, s))
         /\ Occupancy(k, s) \in Nat
<1>1. IsFiniteSet(Places)
  BY FS_Interval, CoachesAssumption DEF Places
<1>2. Members(k, s) \subseteq Places
  BY DEF Members, Standing
<1>3. IsFiniteSet(Members(k, s))
  BY <1>1, <1>2, FS_Subset
<1>4. Occupancy(k, s) = Cardinality(Members(k, s))
  BY DEF Occupancy, Members
<1> QED BY <1>3, <1>4, FS_CardinalityType

LEMMA MembersFiniteNext ==
  ASSUME NEW k, NEW s
  PROVE  /\ IsFiniteSet(Members(k, s)') /\ Occupancy(k, s)' = Cardinality(Members(k, s)')
         /\ Occupancy(k, s)' \in Nat
<1>1. IsFiniteSet(Places)
  BY FS_Interval, CoachesAssumption DEF Places
<1>2. Members(k, s)' \subseteq Places
  BY DEF Members, Standing, Places
<1>3. IsFiniteSet(Members(k, s)')
  BY <1>1, <1>2, FS_Subset
<1>4. Occupancy(k, s)' = Cardinality(Members(k, s)')
  BY DEF Occupancy, Members
<1> QED BY <1>3, <1>4, FS_CardinalityType

\* A step that sells no leg and moves no seat that is sold.
Quiet(i) ==
  standing'[i].status \in {"buying", "valid"} =>
    /\ standing'[i].status = standing[i].status
    /\ standing'[i].of = standing[i].of /\ standing'[i].leg = standing[i].leg
SeatKept(p) ==
  seat[p].status # "none" => seat'[p].status # "none" /\ seat'[p].coach = seat[p].coach

LEMMA CoachKept ==
  ASSUME Seatedly, NEW i \in Places, standing[i].status # "none",
         standing'[i].of = standing[i].of, \A p \in Passengers : SeatKept(p)
  PROVE  CoachOf(i)' = CoachOf(i)
<1>1. standing[i].of \in Passengers /\ standing[i].of # Nobody
  BY CoachesAssumption DEF Seatedly
<1> QED BY <1>1 DEF Seatedly, SeatKept, CoachOf

LEMMA FewerStand ==
  ASSUME Seatedly, \A i \in Places : Quiet(i), \A p \in Passengers : SeatKept(p), NEW k, NEW s
  PROVE  Occupancy(k, s)' <= Occupancy(k, s)
<1>1. Members(k, s)' \subseteq Members(k, s)
  <2> SUFFICES ASSUME NEW i \in Members(k, s)' PROVE i \in Members(k, s)
    OBVIOUS
  <2>1. /\ i \in Places /\ CoachOf(i)' = k /\ standing'[i].status = "valid"
        /\ s \in Segments(standing'[i].leg)
    BY DEF Members, Standing, Segments, Places
  <2>2. /\ standing[i].status = "valid" /\ standing'[i].of = standing[i].of
        /\ standing'[i].leg = standing[i].leg
    BY <2>1 DEF Quiet
  <2>3. CoachOf(i)' = CoachOf(i)
    BY <2>1, <2>2, CoachKept
  <2> QED BY <2>1, <2>2, <2>3 DEF Members, Standing
<1> QED BY <1>1, MembersFinite, MembersFiniteNext, FS_Subset

LEMMA QuietStep ==
  ASSUME Seatedly, Rooms, CapKept, \A i \in Places : Quiet(i), \A p \in Passengers : SeatKept(p)
  PROVE  Rooms' /\ CapKept'
<1>1. CapKept'
  <2> SUFFICES ASSUME NEW k \in Cars, NEW s \in 0 .. Stops - 2
               PROVE  Occupancy(k, s)' <= Capacity
    BY DEF CapKept
  <2>1. Occupancy(k, s) <= Capacity /\ Occupancy(k, s)' <= Occupancy(k, s)
    BY FewerStand DEF CapKept
  <2> QED BY <2>1, MembersFinite, MembersFiniteNext, CoachesAssumption
<1>2. ASSUME NEW i \in Places, NEW k \in Cars, Buys(i, k)'
      PROVE  Buys(i, k) /\ standing'[i].leg = standing[i].leg
  BY <1>2, CoachKept DEF Quiet, Buys
<1>3. ASSUME NEW i \in Places, NEW k \in Cars, Buys(i, k)',
             NEW s \in Segments(standing[i].leg)
      PROVE  Occupancy(k, s)' < Capacity
  <2>1. Occupancy(k, s) < Capacity /\ Occupancy(k, s)' <= Occupancy(k, s)
    BY <1>2, <1>3, FewerStand DEF Rooms
  <2> QED BY <2>1, MembersFinite, MembersFiniteNext, CoachesAssumption
<1>4. Rooms'
  <2> SUFFICES ASSUME NEW i \in Places, NEW k \in Cars, Buys(i, k)'
               PROVE  /\ \A s \in Segments(standing[i].leg)' : Occupancy(k, s)' < Capacity
                      /\ \A j \in Places \ {i} : ~Buys(j, k)'
    BY DEF Rooms, Places, Cars
  <2>1. Segments(standing[i].leg)' = Segments(standing[i].leg)
    BY <1>2 DEF Segments
  <2>2. \A j \in Places \ {i} : ~Buys(j, k)'
    BY <1>2 DEF Rooms
  <2> QED BY <1>3, <2>1, <2>2
<1> QED BY <1>1, <1>4

\* A purchase begins where nobody else is buying, and there is room.
LEMMA PurchaseReadStep ==
  ASSUME TypeOK, Seatedly, Rooms, CapKept,
         NEW i \in Places, NEW p \in Passengers, NEW leg \in Legs, PurchaseRead(i, p, leg)
  PROVE  Rooms' /\ CapKept'
<1>1. /\ standing[i].status = "none" /\ standing'[i].leg = leg /\ standing'[i].of = p
      /\ standing'[i].status = "buying" /\ seat' = seat
      /\ \A j \in Places \ {i} : standing'[j] = standing[j]
  BY DEF PurchaseRead, TypeOK, NoStanding
<1>2. \A j \in Places \ {i} : CoachOf(j)' = CoachOf(j)
  BY <1>1 DEF CoachOf
<1>3. ASSUME NEW k, NEW s PROVE Occupancy(k, s)' = Occupancy(k, s)
  <2>1. Standing(k)' = Standing(k)
    BY <1>1, <1>2 DEF Standing, Places
  <2>2. Members(k, s)' = Members(k, s)
    BY <1>1, <2>1 DEF Members, Standing, Segments
  <2> QED BY <2>2, MembersFinite, MembersFiniteNext
<1>4. CapKept'
  BY <1>3 DEF CapKept, Cars
<1>5. CoachOf(i)' = seat[p].coach
  BY <1>1, CoachesAssumption DEF CoachOf
<1>6. ASSUME NEW j \in Places \ {i}, NEW k \in Cars
      PROVE  Buys(j, k)' <=> Buys(j, k)
  BY <1>1, <1>2 DEF Buys
<1>7. ASSUME NEW k \in Cars, Buys(i, k)'
      PROVE  /\ \A s \in Segments(leg) : Occupancy(k, s) < Capacity
             /\ \A j \in Places : ~Buys(j, k)
  BY <1>5, <1>7 DEF PurchaseRead, Buys, Unlocked, RoomFor
<1>8. ASSUME NEW j \in Places, NEW k \in Cars, Buys(j, k)'
      PROVE  /\ \A s \in Segments(standing[j].leg)' : Occupancy(k, s)' < Capacity
             /\ \A q \in Places \ {j} : ~Buys(q, k)'
  <2>1. CASE j = i
    <3>1. Segments(standing[j].leg)' = Segments(leg)
      BY <1>1, <2>1 DEF Segments
    <3> QED BY <1>3, <1>6, <1>7, <1>8, <2>1, <3>1
  <2>2. CASE j # i
    <3>1. Buys(j, k) /\ Segments(standing[j].leg)' = Segments(standing[j].leg)
      BY <1>1, <1>6, <1>8, <2>2 DEF Segments
    <3>2. \A q \in Places \ {i, j} : ~Buys(q, k)'
      BY <1>6, <2>2, <3>1 DEF Rooms
    <3>3. ~Buys(i, k)'
      BY <1>7, <3>1
    <3> QED BY <1>3, <2>2, <3>1, <3>2, <3>3 DEF Rooms
  <2> QED BY <2>1, <2>2
<1>9. Rooms'
  BY <1>8 DEF Rooms, Places, Cars
<1> QED BY <1>4, <1>9

\* A purchase ends with one more standing, where there was room for one more.
LEMMA PurchaseWriteStep ==
  ASSUME TypeOK, Seatedly, Rooms, CapKept, NEW i \in Places, PurchaseWrite(i)
  PROVE  Rooms' /\ CapKept'
<1>1. /\ standing[i].status = "buying" /\ standing'[i].status = "valid" /\ seat' = seat
      /\ standing'[i].leg = standing[i].leg
      /\ \A j \in Places : standing'[j].of = standing[j].of
      /\ \A j \in Places \ {i} : standing'[j] = standing[j]
  BY DEF PurchaseWrite, TypeOK, StandingRows
<1>2. \A j \in Places : CoachOf(j)' = CoachOf(j)
  BY <1>1 DEF CoachOf
<1>3. ASSUME NEW k, NEW s, CoachOf(i) # k \/ s \notin Segments(standing[i].leg)
      PROVE  Occupancy(k, s)' = Occupancy(k, s)
  <2>1. Members(k, s)' = Members(k, s)
    <3>1. i \notin Members(k, s) /\ i \notin Members(k, s)'
      BY <1>1, <1>2, <1>3 DEF Members, Standing, Segments
    <3>2. \A j \in Places \ {i} : j \in Members(k, s)' <=> j \in Members(k, s)
      BY <1>1, <1>2 DEF Members, Standing, Segments
    <3>3. Members(k, s) \subseteq Places /\ Members(k, s)' \subseteq Places
      BY DEF Members, Standing, Places
    <3> QED BY <3>1, <3>2, <3>3
  <2> QED BY <2>1, MembersFinite, MembersFiniteNext
<1>4. ASSUME NEW k, NEW s PROVE Occupancy(k, s)' <= Occupancy(k, s) + 1
  <2>1. Members(k, s)' \subseteq Members(k, s) \union {i}
    <3>1. \A j \in Places \ {i} : j \in Members(k, s)' => j \in Members(k, s)
      BY <1>1, <1>2 DEF Members, Standing, Segments
    <3>2. Members(k, s)' \subseteq Places
      BY DEF Members, Standing, Places
    <3> QED BY <3>1, <3>2
  <2>2. /\ IsFiniteSet(Members(k, s) \union {i})
        /\ Cardinality(Members(k, s) \union {i}) <= Occupancy(k, s) + 1
    BY MembersFinite, FS_AddElement
  <2>3. Occupancy(k, s)' <= Cardinality(Members(k, s) \union {i})
    BY <2>1, <2>2, MembersFiniteNext, FS_Subset
  <2>4. Cardinality(Members(k, s) \union {i}) \in Nat
    BY <2>2, FS_CardinalityType
  <2> QED BY <2>2, <2>3, <2>4, MembersFinite, MembersFiniteNext
<1>5. CapKept'
  <2> SUFFICES ASSUME NEW k \in Cars, NEW s \in 0 .. Stops - 2 PROVE Occupancy(k, s)' <= Capacity
    BY DEF CapKept
  <2>1. CASE CoachOf(i) = k /\ s \in Segments(standing[i].leg)
    <3>1. Occupancy(k, s) < Capacity
      BY <1>1, <2>1 DEF Rooms, Buys
    <3> QED BY <1>4, <3>1, MembersFinite, MembersFiniteNext, CoachesAssumption
  <2>2. CASE ~(CoachOf(i) = k /\ s \in Segments(standing[i].leg))
    BY <1>3, <2>2 DEF CapKept
  <2> QED BY <2>1, <2>2
<1>6. ASSUME NEW j \in Places, NEW k \in Cars, Buys(j, k)'
      PROVE  j # i /\ Buys(j, k) /\ CoachOf(i) # k
  <2>1. j # i /\ Buys(j, k)
    BY <1>1, <1>2, <1>6 DEF Buys
  <2> QED BY <1>1, <2>1 DEF Rooms, Buys
<1>7. ASSUME NEW j \in Places, NEW k \in Cars, Buys(j, k)'
      PROVE  /\ \A s \in Segments(standing[j].leg)' : Occupancy(k, s)' < Capacity
             /\ \A q \in Places \ {j} : ~Buys(q, k)'
  <2>1. Segments(standing[j].leg)' = Segments(standing[j].leg)
    BY <1>1, <1>6, <1>7 DEF Segments
  <2>2. \A q \in Places \ {j} : ~Buys(q, k)'
    BY <1>6, <1>7 DEF Rooms
  <2> QED BY <1>3, <1>6, <1>7, <2>1, <2>2 DEF Rooms
<1>8. Rooms'
  BY <1>7 DEF Rooms, Places, Cars
<1> QED BY <1>5, <1>8

LEMMA OperatorStands == Operator => UNCHANGED <<standing, returning>>
<1>1. ASSUME NEW o \in Operators, NEW stage, NEW j, NEW at, NEW seen
      PROVE  Begin(o, stage, j, at, seen) => UNCHANGED <<standing, returning>>
  BY DEF Begin
<1>2. ASSUME NEW o \in Operators, NEW k \in Coaches, NEW place \in Positions
      PROVE  AddRead(o, k, place) => UNCHANGED <<standing, returning>>
  BY <1>1 DEF AddRead
<1>3. ASSUME NEW o \in Operators, NEW k \in Coaches
      PROVE  RemoveRead(o, k) \/ CancelRead(o, k) \/ ReinstateRead(o, k)
               => UNCHANGED <<standing, returning>>
  BY <1>1 DEF RemoveRead, CancelRead, ReinstateRead
<1>4. ASSUME NEW o \in Operators
      PROVE  AddWrite(o) \/ AddSkipped(o) \/ RemoveWrite(o) \/ CancelWrite(o) \/ ReleaseFound(o)
               \/ ReinstateWrite(o) \/ CallLost(o) => UNCHANGED <<standing, returning>>
  BY DEF AddWrite, AddSkipped, RemoveWrite, CancelWrite, ReleaseFound, ReinstateWrite, CallLost
<1> QED BY <1>2, <1>3, <1>4 DEF Operator

\* No step takes a passenger who has bought a seat out of its coach.
LEMMA SeatsKept == TypeOK /\ Records /\ Next => \A p \in Passengers : SeatKept(p)
<1> SUFFICES ASSUME TypeOK, Records, Next, NEW p \in Passengers, seat[p].status # "none"
             PROVE  seat'[p].status # "none" /\ seat'[p].coach = seat[p].coach
  BY DEF SeatKept
<1> DEFINE Goal == seat'[p].status # "none" /\ seat'[p].coach = seat[p].coach
<1>t. seat \in [Passengers -> SeatRows] /\ seat[p] \in SeatRows
  BY DEF TypeOK
<1>s. seat[p].hold \notin {"none", "active"}
  BY DEF Records, Recorded
<1>r. Refunded(seat[p]).status # "none" /\ Refunded(seat[p]).coach = seat[p].coach
  BY <1>t DEF Refunded, SeatRows
<1>e. Ended(seat[p]).status = seat[p].status /\ Ended(seat[p]).coach = seat[p].coach
  BY <1>t DEF Ended, SeatRows
<1>1. ASSUME NEW q \in Passengers, NEW k \in Coaches, Hold(q, k) \/ Release(q) \/ Sell(q)
      PROVE  Goal
  <2>1. p # q
    BY <1>1, <1>s DEF Hold, Release, Sell
  <2> QED BY <1>1, <1>t, <2>1 DEF Hold, Release, Sell
<1>2. ASSUME NEW q \in Passengers, NEW k \in Coaches, ReturnWrite(q) \/ JobSeat(k, q) PROVE Goal
  BY <1>2, <1>t, <1>r DEF ReturnWrite, JobSeat
<1>3. ASSUME NEW o \in Operators, RemoveWrite(o) PROVE Goal
  <2>1. seat'[p] = seat[p] \/ seat'[p] = [seat[p] EXCEPT !.row = "none"]
    BY <1>3 DEF RemoveWrite
  <2> QED BY <1>t, <2>1 DEF SeatRows
<1>4. ASSUME NEW o \in Operators, ReleaseFound(o) PROVE Goal
  BY <1>4, <1>e DEF ReleaseFound
<1>5. ASSUME UNCHANGED seat PROVE Goal
  BY <1>5
<1>6. Passenger => Goal
  <2>1. ASSUME NEW q \in Passengers PROVE ReturnRead(q) \/ ReturnFails(q) => Goal
    BY DEF ReturnRead, ReturnFails
  <2>2. ASSUME NEW i \in Places PROVE PurchaseWrite(i) \/ PurchaseFails(i) => Goal
    BY DEF PurchaseWrite, PurchaseFails
  <2>3. ASSUME NEW i \in Places, NEW q \in Passengers, NEW leg \in Legs
        PROVE  PurchaseRead(i, q, leg) => Goal
    BY DEF PurchaseRead
  <2>4. ASSUME NEW q \in Passengers, ReturnWrite(q) PROVE Goal
    BY <2>4, <1>t, <1>r DEF ReturnWrite
  <2>5. ASSUME NEW q \in Passengers, Release(q) \/ Sell(q) PROVE Goal
    <3>1. p # q
      BY <2>5, <1>s DEF Release, Sell
    <3> QED BY <2>5, <1>t, <3>1 DEF Release, Sell
  <2> QED BY <1>1, <2>1, <2>2, <2>3, <2>4, <2>5 DEF Passenger
<1>7. Job => Goal
  BY <1>2 DEF Job, JobRefunds, JobLeg, JobEnds
<1>8. Operator => Goal
  <2>1. ASSUME NEW o \in Operators,
               AddWrite(o) \/ AddSkipped(o) \/ CancelWrite(o) \/ ReinstateWrite(o) \/ CallLost(o)
        PROVE  Goal
    BY <2>1 DEF AddWrite, AddSkipped, CancelWrite, ReinstateWrite, CallLost
  <2>2. ASSUME NEW o \in Operators, NEW k \in Coaches,
               RemoveRead(o, k) \/ CancelRead(o, k) \/ ReinstateRead(o, k)
        PROVE  Goal
    BY <2>2 DEF RemoveRead, CancelRead, ReinstateRead, Begin
  <2>3. ASSUME NEW o \in Operators, NEW k \in Coaches, NEW place \in Positions, AddRead(o, k, place)
        PROVE  Goal
    BY <2>3 DEF AddRead, Begin
  <2> QED BY <1>3, <1>4, <2>1, <2>2, <2>3 DEF Operator
<1> QED BY <1>6, <1>7, <1>8 DEF Next

\* What a return has read was sold, and stays so.
Sold(i) == standing[i].status \in {"valid", "refunded"}
Returned == \A p \in Passengers, i \in Places : i \in returning[p] => Sold(i)

LEMMA ReturnedStep == TypeOK /\ Returned /\ Next => Returned'
<1> SUFFICES ASSUME TypeOK, Returned, Next PROVE Returned'
  OBVIOUS
<1>t. /\ standing \in [Places -> StandingRows]
      /\ returning \in [Passengers -> (SUBSET Places) \union {NoReturn}]
  BY DEF TypeOK
<1>k. ASSUME \A i \in Places : Sold(i) => standing'[i].status \in {"valid", "refunded"},
             \A p \in Passengers, i \in Places : i \in returning'[p] => i \in returning[p] \/ Sold(i)
      PROVE  Returned'
  BY <1>k DEF Returned, Sold, Places
<1>r. ASSUME NEW ids, NEW i \in Places, standing' = RefundLegs(ids), Sold(i)
      PROVE  standing'[i].status \in {"valid", "refunded"}
  BY <1>t, <1>r DEF RefundLegs, StandingRows, Sold
<1>n. \A i \in Places : i \notin NoReturn
  BY CoachesAssumption DEF Places, NoReturn
<1>u. ASSUME UNCHANGED <<standing, returning>> PROVE Returned'
  BY <1>u, <1>k DEF Sold
<1>1. ASSUME NEW p \in Passengers, ReturnRead(p) PROVE Returned'
  BY <1>1, <1>t, <1>k DEF ReturnRead, LegsOf, Sold
<1>2. ASSUME NEW p \in Passengers, ReturnWrite(p) PROVE Returned'
  BY <1>2, <1>t, <1>k, <1>r, <1>n DEF ReturnWrite
<1>3. ASSUME NEW p \in Passengers, ReturnFails(p) PROVE Returned'
  BY <1>3, <1>t, <1>k, <1>n DEF ReturnFails, Sold
<1>4. ASSUME NEW i \in Places, NEW p \in Passengers, NEW leg \in Legs, PurchaseRead(i, p, leg)
      PROVE  Returned'
  BY <1>4, <1>t, <1>k DEF PurchaseRead, Sold
<1>5. ASSUME NEW i \in Places, PurchaseWrite(i) \/ PurchaseFails(i) PROVE Returned'
  <2>1. ASSUME NEW j \in Places, Sold(j) PROVE standing'[j].status \in {"valid", "refunded"}
    <3>1. CASE j = i
      BY <1>5, <2>1, <3>1 DEF PurchaseWrite, PurchaseFails, Sold
    <3>2. CASE j # i
      BY <1>5, <1>t, <2>1, <3>2 DEF PurchaseWrite, PurchaseFails, Sold
    <3> QED BY <3>1, <3>2
  <2> QED BY <1>5, <2>1, <1>k DEF PurchaseWrite, PurchaseFails
<1>6. ASSUME NEW p \in Passengers, NEW k \in Coaches, Hold(p, k) \/ Release(p) \/ Sell(p)
      PROVE  Returned'
  BY <1>6, <1>u DEF Hold, Release, Sell
<1>7. ASSUME NEW p \in Passengers, Release(p) \/ Sell(p) PROVE Returned'
  BY <1>7, <1>u DEF Release, Sell
<1>8. Passenger => Returned'
  BY <1>1, <1>2, <1>3, <1>4, <1>5, <1>6, <1>7 DEF Passenger
<1>9. Job => Returned'
  <2>1. ASSUME NEW k \in Coaches, NEW i \in Places, JobLeg(k, i) PROVE Returned'
    BY <2>1, <1>k, <1>r DEF JobLeg
  <2>2. ASSUME NEW k \in Coaches, NEW p \in Passengers PROVE JobSeat(k, p) => Returned'
    BY <1>u DEF JobSeat
  <2>3. ASSUME NEW k \in Coaches PROVE JobEnds(k) => Returned'
    BY <1>u DEF JobEnds
  <2> QED BY <2>1, <2>2, <2>3 DEF Job, JobRefunds
<1>10. Operator => Returned'
  BY <1>u, OperatorStands
<1> QED BY <1>8, <1>9, <1>10 DEF Next

\* Who has a leg keeps it, in its coach, and a purchase is all that adds to those who stand.
LEMMA StandStep ==
  ASSUME TypeOK, Records, Returned, Seatedly, Rooms, CapKept, Next
  PROVE  Seatedly' /\ Rooms' /\ CapKept'
<1> DEFINE Goal == Seatedly' /\ Rooms' /\ CapKept'
<1>t. standing \in [Places -> StandingRows]
  BY DEF TypeOK
<1>k. \A p \in Passengers : SeatKept(p)
  BY SeatsKept
\* A step in which no place is taken or filled.
<1>q. ASSUME \A i \in Places : /\ Quiet(i)
                               /\ standing'[i].status # "none" =>
                                    /\ standing[i].status # "none"
                                    /\ standing'[i].of = standing[i].of
      PROVE  Goal
  BY <1>q, <1>k, QuietStep DEF Seatedly, SeatKept
<1>u. ASSUME UNCHANGED standing PROVE Goal
  BY <1>u, <1>q DEF Quiet
<1>r. ASSUME NEW ids, standing' = RefundLegs(ids),
             \A i \in Places : i \in ids => standing[i].status # "none"
      PROVE  Goal
  <2>1. ASSUME NEW i \in Places, i \in ids
        PROVE  standing'[i].status = "refunded" /\ standing'[i].of = standing[i].of
    BY <1>t, <1>r, <2>1 DEF RefundLegs, StandingRows
  <2>2. ASSUME NEW i \in Places, i \notin ids PROVE standing'[i] = standing[i]
    BY <1>r, <2>2 DEF RefundLegs
  <2> QED BY <1>r, <1>q, <2>1, <2>2 DEF Quiet
<1>1. ASSUME NEW i \in Places, NEW p \in Passengers, NEW leg \in Legs, PurchaseRead(i, p, leg)
      PROVE  Goal
  <2>1. /\ standing'[i].of = p /\ seat[p].status # "none" /\ seat' = seat
        /\ \A j \in Places \ {i} : standing'[j] = standing[j]
    BY <1>1, <1>t DEF PurchaseRead, NoStanding
  <2> QED BY <1>1, <2>1, PurchaseReadStep DEF Seatedly
<1>2. ASSUME NEW i \in Places, PurchaseWrite(i) PROVE Goal
  <2>1. /\ seat' = seat /\ standing[i].status = "buying"
        /\ \A j \in Places : standing'[j].of = standing[j].of
        /\ \A j \in Places \ {i} : standing'[j] = standing[j]
    BY <1>2, <1>t DEF PurchaseWrite, StandingRows
  <2> QED BY <1>2, <2>1, PurchaseWriteStep DEF Seatedly
<1>3. ASSUME NEW i \in Places, PurchaseFails(i) PROVE Goal
  <2>1. ASSUME NEW j \in Places
        PROVE  standing'[j] = standing[j] \/ standing'[j].status = "none"
    BY <1>3, <1>t DEF PurchaseFails, NoStanding
  <2> QED BY <1>q, <2>1 DEF Quiet
<1>4. ASSUME NEW p \in Passengers, ReturnWrite(p) PROVE Goal
  BY <1>4, <1>r DEF ReturnWrite, Returned, Sold
<1>5. Passenger => Goal
  <2>1. ASSUME NEW p \in Passengers, NEW k \in Coaches PROVE Hold(p, k) => Goal
    BY <1>u DEF Hold
  <2>2. ASSUME NEW p \in Passengers
        PROVE  Release(p) \/ Sell(p) \/ ReturnRead(p) \/ ReturnFails(p) => Goal
    BY <1>u DEF Release, Sell, ReturnRead, ReturnFails
  <2> QED BY <1>1, <1>2, <1>3, <1>4, <2>1, <2>2 DEF Passenger
<1>6. Job => Goal
  <2>1. ASSUME NEW k \in Coaches, NEW i \in Places, JobLeg(k, i) PROVE Goal
    BY <2>1, <1>r DEF JobLeg, OwedLegs, Standing
  <2>2. ASSUME NEW k \in Coaches, NEW p \in Passengers PROVE JobSeat(k, p) => Goal
    BY <1>u DEF JobSeat
  <2>3. ASSUME NEW k \in Coaches PROVE JobEnds(k) => Goal
    BY <1>u DEF JobEnds
  <2> QED BY <2>1, <2>2, <2>3 DEF Job, JobRefunds
<1>7. Operator => Goal
  BY <1>u, OperatorStands
<1> QED BY <1>5, <1>6, <1>7 DEF Next

\* Any number of purchases, returns and refunds at once, for any capacity: no more stand in a
\* coach over any segment than may (purchase, which holds the coach's lock from its reading
\* of the occupancy to its write).
THEOREM SpecCapHolds == Spec => []CapHolds
<1> DEFINE IInv == Returned /\ Seatedly /\ Rooms /\ CapKept
<1>1. Init => IInv
  <2> SUFFICES ASSUME Init PROVE IInv
    OBVIOUS
  <2>1. \A i \in Places : standing[i].status = "none"
    BY DEF Init, NoStanding
  <2>2. \A i \in Places : i \notin NoReturn
    BY CoachesAssumption DEF Places, NoReturn
  <2>3. Returned
    BY <2>2 DEF Init, Returned
  <2>4. ASSUME NEW k, NEW s PROVE Occupancy(k, s) = 0
    <3>1. Members(k, s) = {}
      BY <2>1 DEF Members, Standing
    <3> QED BY <3>1, MembersFinite, FS_EmptySet
  <2>5. CapKept
    BY <2>4, CoachesAssumption DEF CapKept
  <2> QED BY <2>1, <2>3, <2>5 DEF Seatedly, Rooms, Buys
<1>2. TypeOK /\ Records /\ IInv /\ [Next]_vars => IInv'
  <2>1. IInv /\ UNCHANGED vars => IInv'
    <3> SUFFICES ASSUME IInv, UNCHANGED vars PROVE IInv'
      OBVIOUS
    <3>1. standing' = standing /\ seat' = seat /\ returning' = returning
      BY DEF vars
    <3>2. \A i \in Places : Quiet(i)
      BY <3>1 DEF Quiet
    <3>3. \A p \in Passengers : SeatKept(p)
      BY <3>1 DEF SeatKept
    <3>4. Returned' /\ Seatedly'
      BY <3>1 DEF Returned, Seatedly, Sold
    <3> QED BY <3>2, <3>3, <3>4, QuietStep
  <2> QED BY <2>1, StandStep, ReturnedStep
<1>3. IInv => CapHolds
  BY DEF CapKept, CapHolds, Cars
<1> QED BY <1>1, <1>2, <1>3, SpecTypeOK, SpecRecords, PTL DEF Spec

-----------------------------------------------------------------------------
(* One operator at a time: what a call has read of the train is still so   *)
(* when it writes (Current), since nothing else moves, adds or removes a   *)
(* coach.                                                                  *)

OneOperator == \A o, p \in Operators : o = p

\* The departure starts with distinct positions, and Missing is at least the number of places
\* open between them: a composition is numbered from 1 (compositionService, set), and a
\* departure keeps its positions, those of coaches inactive or skipped left open (buildTrip).
TrainOrdered ==
  LET train == {k \in Coaches : Order[k] # 0} IN
  \A k \in train : /\ Order[k] \in 1 .. Cardinality(train) + Missing
                   /\ \A j \in train \ {k} : Order[j] # Order[k]

Current ==
  \A o \in Operators : LET call == operator[o] IN
    /\ call.stage \in {"adding", "removing"} => call.coach \in Coaches
    /\ call.stage = "adding" => /\ call.at \in 1 .. LastPlace + 1
                                /\ \A j \in Here : call.seen[j] = coach[j].at
    /\ call.stage = "removing" => call.coach \in Here /\ call.at = coach[call.coach].at

InOrder == CouplingOrder /\ Current

\* Where every coach is at, and which are here.
SamePlaces == skips' = skips /\ Here' = Here /\ \A k \in Here : coach'[k].at = coach[k].at

LEMMA HereFinite ==
  ASSUME TypeOK
  PROVE  IsFiniteSet(Here) /\ Cardinality(Here) \in Nat /\ LastPlace \in Nat
<1>1. IsFiniteSet(Here) /\ Cardinality(Here) \in Nat
  BY CoachesAssumption, FS_Subset, FS_CardinalityType DEF Here
<1> QED BY <1>1, CoachesAssumption DEF TypeOK, LastPlace

LEMMA SamePlacesInOrder ==
  ASSUME InOrder, SamePlaces,
         \A o \in Operators : operator'[o] = operator[o]
                                \/ operator'[o].stage \notin {"adding", "removing"}
  PROVE  InOrder'
<1>1. LastPlace' = LastPlace
  BY DEF SamePlaces, LastPlace
<1>2. CouplingOrder'
  BY <1>1 DEF InOrder, CouplingOrder, SamePlaces
<1>3. Current'
  BY <1>1 DEF InOrder, Current, SamePlaces
<1> QED BY <1>2, <1>3 DEF InOrder

\* A call begins with what it reads, and leaves the other calls as they are.
LEMMA BeginInOrder ==
  ASSUME TypeOK, InOrder, NEW o \in Operators, NEW stage, NEW k \in Coaches, NEW at, NEW seen,
         Begin(o, stage, k, at, seen),
         stage = "adding" => at \in 1 .. LastPlace + 1 /\ \A j \in Here : seen[j] = coach[j].at,
         stage = "removing" => k \in Here /\ at = coach[k].at
  PROVE  InOrder'
<1>1. Here' = Here /\ coach' = coach /\ LastPlace' = LastPlace
  BY DEF Begin, Here, LastPlace
<1>2. \A p \in Operators :
        operator'[p] = IF p = o THEN [stage |-> stage, coach |-> k, at |-> at, seen |-> seen]
                       ELSE operator[p]
  BY DEF Begin, TypeOK
<1>3. CouplingOrder'
  BY <1>1 DEF InOrder, CouplingOrder
<1>4. Current'
  BY <1>1, <1>2 DEF InOrder, Current
<1> QED BY <1>3, <1>4 DEF InOrder

LEMMA RowFields ==
  ASSUME NEW row \in CoachRows, NEW status, NEW at, NEW job
  PROVE  /\ [row EXCEPT !.at = at].status = row.status /\ [row EXCEPT !.at = at].at = at
         /\ [row EXCEPT !.status = status].at = row.at
         /\ [row EXCEPT !.status = status].status = status
         /\ [row EXCEPT !.status = status, !.job = job].at = row.at
         /\ [row EXCEPT !.status = status, !.job = job].status = status
         /\ [row EXCEPT !.status = status, !.at = at].status = status
         /\ [row EXCEPT !.status = status, !.at = at].at = at
BY DEF CoachRows

\* A coach is put in: those behind its place make room for it.
LEMMA AddInOrder ==
  ASSUME TypeOK, InOrder, NEW o \in Operators, OneOperator, AddWrite(o)
  PROVE  InOrder'
<1> DEFINE call == operator[o]
           k == call.coach
           n == LastPlace
<1>1. /\ k \in Coaches /\ k \notin Here /\ call.at \in 1 .. n + 1
      /\ \A j \in Here : call.seen[j] = coach[j].at
  BY DEF AddWrite, At, InOrder, Current, Here
<1>2. n \in Nat /\ \A j \in Here : coach[j].at \in 1 .. n
  BY HereFinite DEF InOrder, CouplingOrder
<1>3. /\ \A j \in Here : /\ coach'[j].status = coach[j].status
                         /\ coach'[j].at = IF coach[j].at >= call.at THEN coach[j].at + 1 ELSE coach[j].at
      /\ coach'[k].status = "active" /\ coach'[k].at = call.at
      /\ \A j \in Coaches : j \notin Here /\ j # k => coach'[j].status = coach[j].status
  <2>1. coach \in [Coaches -> CoachRows] /\ Here \subseteq Coaches
    BY DEF TypeOK, Here
  <2>2. \A j \in Coaches :
          coach'[j] = IF j \in Behind(o) THEN [coach[j] EXCEPT !.at = call.seen[j] + 1]
                      ELSE IF j = k THEN [coach[j] EXCEPT !.status = "active", !.at = call.at]
                           ELSE coach[j]
    BY DEF AddWrite
  <2>3. \A j \in Coaches : j \in Behind(o) <=> j \in Here /\ coach[j].at >= call.at
    BY <1>1 DEF Behind
  <2> HIDE DEF call, k
  <2>4. \A j \in Coaches : coach[j] \in CoachRows
    BY <2>1
  <2>5. ASSUME NEW j \in Here
        PROVE  /\ coach'[j].status = coach[j].status
               /\ coach'[j].at = IF coach[j].at >= call.at THEN coach[j].at + 1 ELSE coach[j].at
    <3>1. j \in Coaches /\ j # k /\ call.seen[j] = coach[j].at
      BY <2>1, <1>1
    <3>2. CASE coach[j].at >= call.at
      <4>1. coach'[j] = [coach[j] EXCEPT !.at = coach[j].at + 1]
        BY <3>1, <3>2, <2>2, <2>3
      <4> QED BY <3>1, <3>2, <4>1, <2>4, RowFields
    <3>3. CASE ~(coach[j].at >= call.at)
      <4>1. coach'[j] = coach[j]
        BY <3>1, <3>3, <2>2, <2>3
      <4> QED BY <3>3, <4>1
    <3> QED BY <3>2, <3>3
  <2>6. coach'[k].status = "active" /\ coach'[k].at = call.at
    <3>1. k \in Coaches /\ k \notin Behind(o)
      BY <1>1, <2>3
    <3>2. coach'[k] = [coach[k] EXCEPT !.status = "active", !.at = call.at]
      BY <3>1, <2>2
    <3>3. coach[k] \in CoachRows
      BY <3>1, <2>4
    <3> QED BY <3>2, <3>3, RowFields
  <2>7. \A j \in Coaches : j \notin Here /\ j # k => coach'[j].status = coach[j].status
    BY <2>2, <2>3
  <2> QED BY <2>5, <2>6, <2>7
<1>4. Here' = Here \union {k}
  BY <1>1, <1>3 DEF Here
<1>5. LastPlace' = n + 1
  <2>1. Cardinality(Here)' = Cardinality(Here) + 1 /\ skips' = skips
    BY <1>1, <1>4, HereFinite, FS_AddElement DEF AddWrite
  <2> QED BY <2>1, HereFinite, CoachesAssumption DEF LastPlace, TypeOK
<1>6. CouplingOrder'
  <2> SUFFICES ASSUME NEW i \in Here \union {k}, NEW j \in (Here \union {k}) \ {i}
               PROVE  coach'[i].at \in 1 .. n + 1 /\ coach'[j].at # coach'[i].at
    <3>1. \A i \in Here \union {k} : coach'[i].at \in 1 .. n + 1
      <4> TAKE i \in Here \union {k}
      <4>1. CASE i = k
        BY <4>1, <1>1, <1>3
      <4>2. CASE i # k
        BY <4>2, <1>1, <1>2, <1>3
      <4> QED BY <4>1, <4>2
    <3> QED BY <3>1, <1>4, <1>5 DEF CouplingOrder
  <2>1. \A h \in Here : coach'[h].at \in 1 .. n + 1 /\ coach'[h].at # call.at
    BY <1>1, <1>2, <1>3
  <2>2. call.at \in 1 .. n + 1
    BY <1>1
  <2>3. CASE i = k
    BY <2>1, <2>2, <2>3, <1>3
  <2>4. CASE j = k
    BY <2>1, <2>2, <2>4, <1>3
  <2>5. CASE i # k /\ j # k
    <3>1. i \in Here /\ j \in Here /\ coach[i].at # coach[j].at
      BY <2>5 DEF InOrder, CouplingOrder
    <3> QED BY <2>1, <3>1, <1>1, <1>2, <1>3
  <2> QED BY <2>3, <2>4, <2>5
<1>7. Current'
  <2>1. operator'[o].stage = "idle"
    BY DEF AddWrite, End, TypeOK, Idle
  <2>2. \A p \in Operators : p = o
    BY DEF OneOperator
  <2> QED BY <2>1, <2>2 DEF Current
<1> QED BY <1>6, <1>7 DEF InOrder

\* The plan could not be built: those behind have made room for nobody.
LEMMA SkipInOrder ==
  ASSUME TypeOK, InOrder, NEW o \in Operators, OneOperator, AddSkipped(o)
  PROVE  InOrder'
<1> DEFINE call == operator[o]
           n == LastPlace
<1>1. call.at \in 1 .. n + 1 /\ \A j \in Here : call.seen[j] = coach[j].at
  BY DEF AddSkipped, At, InOrder, Current
<1>2. n \in Nat /\ \A j \in Here : coach[j].at \in 1 .. n
  BY HereFinite DEF InOrder, CouplingOrder
<1>3. \A j \in Coaches : /\ coach'[j].status = coach[j].status
                         /\ j \in Here =>
                              coach'[j].at = IF coach[j].at >= call.at THEN coach[j].at + 1 ELSE coach[j].at
  <2> SUFFICES ASSUME NEW j \in Coaches
               PROVE  /\ coach'[j].status = coach[j].status
                      /\ j \in Here =>
                           coach'[j].at = IF coach[j].at >= call.at THEN coach[j].at + 1 ELSE coach[j].at
    OBVIOUS
  <2>1. coach[j] \in CoachRows
    BY DEF TypeOK
  <2>2. coach'[j] = IF j \in Behind(o) THEN [coach[j] EXCEPT !.at = call.seen[j] + 1] ELSE coach[j]
    BY DEF AddSkipped
  <2>3. j \in Behind(o) <=> j \in Here /\ coach[j].at >= call.at
    BY <1>1 DEF Behind
  <2> HIDE DEF call
  <2>4. CASE j \in Behind(o)
    <3>1. coach'[j] = [coach[j] EXCEPT !.at = coach[j].at + 1]
      BY <1>1, <2>2, <2>3, <2>4
    <3> QED BY <2>1, <2>3, <2>4, <3>1, RowFields
  <2>5. CASE j \notin Behind(o)
    <3>1. coach'[j] = coach[j]
      BY <2>2, <2>5
    <3> QED BY <2>3, <2>5, <3>1
  <2> QED BY <2>4, <2>5
<1>4. Here' = Here
  BY <1>3 DEF Here
<1>5. LastPlace' = n + 1
  BY <1>4, HereFinite, CoachesAssumption DEF AddSkipped, LastPlace, TypeOK
<1>6. CouplingOrder'
  <2>1. \A i \in Here : i \in Coaches /\ coach'[i].at \in 1 .. n + 1
    BY <1>1, <1>2, <1>3 DEF Here
  <2>2. ASSUME NEW i \in Here, NEW j \in Here \ {i} PROVE coach'[j].at # coach'[i].at
    <3>1. coach[j].at # coach[i].at
      BY DEF InOrder, CouplingOrder
    <3> QED BY <2>1, <3>1, <1>1, <1>2, <1>3
  <2> QED BY <2>1, <2>2, <1>4, <1>5 DEF CouplingOrder
<1>7. Current'
  <2>1. operator'[o].stage = "idle"
    BY DEF AddSkipped, End, TypeOK, Idle
  <2>2. \A p \in Operators : p = o
    BY DEF OneOperator
  <2> QED BY <2>1, <2>2 DEF Current
<1> QED BY <1>6, <1>7 DEF InOrder

\* A coach is taken out: those behind it close up.
LEMMA RemoveInOrder ==
  ASSUME TypeOK, InOrder, NEW o \in Operators, OneOperator, RemoveWrite(o)
  PROVE  InOrder'
<1> DEFINE k == operator[o].coach
           at == operator[o].at
           n == LastPlace
<1>1. k \in Here /\ at = coach[k].at
  BY DEF RemoveWrite, At, InOrder, Current
<1>2. /\ n \in Nat /\ \A j \in Here : coach[j].at \in 1 .. n
      /\ \A j \in Here \ {k} : coach[j].at # at
  BY <1>1, HereFinite DEF InOrder, CouplingOrder
<1>3. /\ coach'[k].status = "removed"
      /\ \A j \in Here \ {k} : /\ coach'[j].status = coach[j].status
                               /\ coach'[j].at = IF coach[j].at > at THEN coach[j].at - 1 ELSE coach[j].at
      /\ \A j \in Coaches \ Here : coach'[j].status = coach[j].status
  <2>1. coach \in [Coaches -> CoachRows] /\ Here \subseteq Coaches
    BY DEF TypeOK, Here
  <2>2. \A j \in Coaches :
          coach'[j] = IF j = k THEN [coach[k] EXCEPT !.status = "removed", !.at = 0]
                      ELSE IF j \in GapClosed(k, at) THEN [coach[j] EXCEPT !.at = @ - 1]
                           ELSE coach[j]
    BY DEF RemoveWrite
  <2>3. \A j \in Coaches : j \in GapClosed(k, at) <=> j \in Here /\ j # k /\ coach[j].at > at
    BY DEF GapClosed, Here
  <2> HIDE DEF k, at
  <2>4. \A j \in Coaches : coach[j] \in CoachRows
    BY <2>1
  <2>5. ASSUME NEW j \in Here \ {k}
        PROVE  /\ coach'[j].status = coach[j].status
               /\ coach'[j].at = IF coach[j].at > at THEN coach[j].at - 1 ELSE coach[j].at
    <3>1. j \in Coaches /\ j # k
      BY <2>1
    <3>2. CASE coach[j].at > at
      <4>1. coach'[j] = [coach[j] EXCEPT !.at = coach[j].at - 1]
        BY <3>1, <3>2, <2>2, <2>3
      <4> QED BY <3>1, <3>2, <4>1, <2>4, RowFields
    <3>3. CASE ~(coach[j].at > at)
      <4>1. coach'[j] = coach[j]
        BY <3>1, <3>3, <2>2, <2>3
      <4> QED BY <3>3, <4>1
    <3> QED BY <3>2, <3>3
  <2>6. coach'[k].status = "removed"
    <3>1. k \in Coaches /\ coach[k] \in CoachRows
      BY <1>1, <2>1, <2>4
    <3>2. coach'[k] = [coach[k] EXCEPT !.status = "removed", !.at = 0]
      BY <3>1, <2>2
    <3> QED BY <3>1, <3>2, RowFields
  <2>7. \A j \in Coaches \ Here : coach'[j].status = coach[j].status
    BY <1>1, <2>2, <2>3
  <2> QED BY <2>5, <2>6, <2>7
<1>4. Here' = Here \ {k}
  BY <1>1, <1>3 DEF Here
<1>5. LastPlace' = n - 1
  <2>1. Cardinality(Here)' = Cardinality(Here) - 1 /\ skips' = skips
    BY <1>1, <1>4, HereFinite, FS_RemoveElement DEF RemoveWrite
  <2> QED BY <2>1, HereFinite, CoachesAssumption DEF LastPlace, TypeOK
<1>6. CouplingOrder'
  <2>1. \A i \in Here \ {k} : coach'[i].at \in 1 .. n - 1
    BY <1>1, <1>2, <1>3
  <2>2. \A i, j \in Here \ {k} : i # j => coach'[i].at # coach'[j].at
    <3> SUFFICES ASSUME NEW i \in Here \ {k}, NEW j \in Here \ {k}, i # j
                 PROVE  coach'[i].at # coach'[j].at
      OBVIOUS
    <3>1. coach[i].at # coach[j].at
      BY DEF InOrder, CouplingOrder
    <3> QED BY <3>1, <1>1, <1>2, <1>3
  <2> QED BY <2>1, <2>2, <1>4, <1>5 DEF CouplingOrder
<1>7. Current'
  <2>1. operator'[o].stage = "idle"
    BY DEF RemoveWrite, End, TypeOK, Idle
  <2>2. \A p \in Operators : p = o
    BY DEF OneOperator
  <2> QED BY <2>1, <2>2 DEF Current
<1> QED BY <1>6, <1>7 DEF InOrder

LEMMA StepInOrder ==
  ASSUME TypeOK, InOrder, OneOperator, Next
  PROVE  InOrder'
<1>t. coach \in [Coaches -> CoachRows] /\ operator \in [Operators -> Calls]
  BY DEF TypeOK
<1>u. ASSUME UNCHANGED <<coach, operator, skips>> PROVE InOrder'
  <2>1. SamePlaces
    BY <1>u DEF SamePlaces, Here
  <2> QED BY <1>u, <2>1, SamePlacesInOrder
<1>1. Passenger => InOrder'
  BY <1>u DEF Passenger, Hold, Release, Sell, ReturnRead, ReturnWrite, ReturnFails,
              PurchaseRead, PurchaseWrite, PurchaseFails
<1>2. ASSUME NEW k \in Coaches, JobRefunds(k) \/ JobEnds(k) PROVE InOrder'
  <2>1. CASE JobRefunds(k)
    BY <2>1, <1>u DEF JobRefunds, JobSeat, JobLeg
  <2>2. CASE JobEnds(k)
    <3>1. SamePlaces /\ operator' = operator
      BY <2>2, <1>t DEF JobEnds, SamePlaces, Here, CoachRows
    <3> QED BY <3>1, SamePlacesInOrder
  <2> QED BY <1>2, <2>1, <2>2
<1>3. ASSUME NEW o \in Operators, NEW k \in Coaches, NEW place \in Positions, AddRead(o, k, place)
      PROVE  InOrder'
  <2>1. place \in 1 .. LastPlace + 1
    <3>1. LastPlace \in Nat /\ \A j \in Here : coach[j].at \in 1 .. LastPlace
      BY HereFinite DEF InOrder, CouplingOrder
    <3>2. Follows(place) /\ place \in Nat /\ place >= 1
      BY <1>3 DEF AddRead, Positions
    <3>3. CASE place = 1
      BY <3>1, <3>3
    <3>4. CASE place # 1
      <4>1. PICK j \in Here : coach[j].at >= place - 1
        BY <3>2, <3>4 DEF Follows
      <4> QED BY <3>1, <3>2, <4>1
    <3> QED BY <3>3, <3>4
  <2>2. \A j \in Here : [h \in Coaches |-> IF h \in Here THEN coach[h].at ELSE 0][j] = coach[j].at
    BY DEF Here
  <2> QED BY <1>3, <2>1, <2>2, BeginInOrder DEF AddRead
<1>4. ASSUME NEW o \in Operators, NEW k \in Coaches,
             RemoveRead(o, k) \/ CancelRead(o, k) \/ ReinstateRead(o, k)
      PROVE  InOrder'
  BY <1>4, BeginInOrder DEF RemoveRead, CancelRead, ReinstateRead
<1>5. ASSUME NEW o \in Operators, CancelWrite(o) \/ ReinstateWrite(o) PROVE InOrder'
  <2>1. operator[o].coach \in Here
    BY <1>5 DEF CancelWrite, ReinstateWrite
  <2>2. SamePlaces
    <3> DEFINE k == operator[o].coach
    <3>1. k \in Coaches /\ coach[k].status \in {"active", "cancelled"}
      BY <2>1 DEF Here
    <3>2. /\ coach'[k].status \in {"active", "cancelled"} /\ coach'[k].at = coach[k].at
          /\ \A j \in Coaches : j # k => coach'[j] = coach[j]
      <4>1. coach[k] \in CoachRows
        BY <1>t, <3>1
      <4>2. PICK row \in {[coach[k] EXCEPT !.status = "cancelled", !.job = TRUE],
                          [coach[k] EXCEPT !.status = "active"]} :
              coach' = [coach EXCEPT ![k] = row]
        BY <1>5 DEF CancelWrite, ReinstateWrite
      <4>3. row.status \in {"active", "cancelled"} /\ row.at = coach[k].at
        <5> HIDE DEF k
        <5>1. CASE row = [coach[k] EXCEPT !.status = "cancelled", !.job = TRUE]
          BY <4>1, <5>1, RowFields
        <5>2. CASE row = [coach[k] EXCEPT !.status = "active"]
          BY <4>1, <5>2, RowFields
        <5> QED BY <5>1, <5>2
      <4> QED BY <1>t, <3>1, <4>2, <4>3
    <3> HIDE DEF k
    <3> QED BY <1>5, <3>1, <3>2 DEF SamePlaces, Here, CancelWrite, ReinstateWrite
  <2>3. \A p \in Operators : operator'[p] = operator[p]
                               \/ operator'[p].stage \notin {"adding", "removing"}
    BY <1>5, <1>t DEF CancelWrite, ReinstateWrite, End, Idle, Calls
  <2> QED BY <2>2, <2>3, SamePlacesInOrder
<1>6. ASSUME NEW o \in Operators, ReleaseFound(o) \/ CallLost(o) PROVE InOrder'
  <2>1. SamePlaces
    BY <1>6 DEF ReleaseFound, CallLost, SamePlaces, Here
  <2>2. \A p \in Operators : operator'[p] = operator[p]
                               \/ operator'[p].stage \notin {"adding", "removing"}
    BY <1>6, <1>t DEF ReleaseFound, CallLost, End, Idle
  <2> QED BY <2>1, <2>2, SamePlacesInOrder
<1>7. Operator => InOrder'
  BY <1>3, <1>4, <1>5, <1>6, AddInOrder, SkipInOrder, RemoveInOrder DEF Operator
<1> QED BY <1>1, <1>2, <1>7 DEF Next, Job

\* With one operator at a time, for any train, no two coaches come to have one position, and
\* additions, removals, cancellations and calls lost between them open no place; only an
\* addition whose plan could not be built opens one (add and remove; two operators at once
\* refute it).
THEOREM SpecCouplingOrder == OneOperator /\ TrainOrdered => (Spec => []CouplingOrder)
<1> SUFFICES ASSUME OneOperator, TrainOrdered PROVE Spec => []CouplingOrder
  OBVIOUS
<1>1. Init => InOrder
  <2> SUFFICES ASSUME Init PROVE InOrder
    OBVIOUS
  <2>1. \A k \in Coaches : coach[k].at = Order[k]
                           /\ coach[k].status = IF Order[k] = 0 THEN "apart" ELSE "active"
    BY DEF Init
  <2>2. Here = {k \in Coaches : Order[k] # 0}
    BY <2>1 DEF Here
  <2>3. \A k \in Here : k \in Coaches /\ coach[k].at = Order[k]
    BY <2>1 DEF Here
  <2>4. CouplingOrder
    <3>1. IsFiniteSet(Here) /\ Cardinality(Here) \in Nat
      BY <2>2, CoachesAssumption, FS_Subset, FS_CardinalityType
    <3>2. LastPlace = Cardinality(Here) + Missing
      BY <3>1, CoachesAssumption DEF Init, LastPlace
    <3> QED BY <2>2, <2>3, <3>2 DEF CouplingOrder, TrainOrdered
  <2>5. \A o \in Operators : operator[o].stage = "idle"
    BY DEF Init, Idle
  <2>6. Current
    BY <2>5 DEF Current
  <2> QED BY <2>4, <2>6 DEF InOrder
<1>2. TypeOK /\ InOrder /\ [Next]_vars => InOrder'
  <2>1. ASSUME InOrder, UNCHANGED vars PROVE InOrder'
    <3>1. SamePlaces /\ operator' = operator
      BY <2>1 DEF vars, SamePlaces, Here
    <3> QED BY <2>1, <3>1, SamePlacesInOrder
  <2> QED BY <2>1, StepInOrder
<1>3. InOrder => CouplingOrder
  BY DEF InOrder
<1> QED BY <1>1, <1>2, <1>3, SpecTypeOK, PTL DEF Spec
===============================================================================
