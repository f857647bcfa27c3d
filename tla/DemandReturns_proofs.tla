------------------------- MODULE DemandReturns_proofs -------------------------
(***************************************************************************)
(* Theorems of DemandReturns, for any route, tickets and amounts.          *)
(*                                                                         *)
(* What a sale pays depends on every other refund that waits for the same  *)
(* stretch: the inductive invariant says that at most one does (OneWaits), *)
(* that whoever has sold a segment has it (Seats), and that a sale's       *)
(* snapshot shows nothing settled that is not (Views).  How much is paid   *)
(* is a sum over a set of segments: it is the number of minor units in the *)
(* shares (SumIsCount), which cardinalities can be reasoned about.         *)
(***************************************************************************)
EXTENDS DemandReturns, FiniteSetTheorems, WellFoundedInduction, TLAPS

\* The segments a ticket keeps or has sold are its journey, and nobody else's.
Seats ==
  \A t \in Tickets, i \in Segments :
    owner[i] = t <=> (ticket[t].status \in {"held", "valid"} /\ i \in ticket[t].journey)

Sellers == \A t \in selling : ticket[t].status = "held"
Closers == \A r \in closing : ticket[r].status = "refunded"
Views == \A t \in Tickets : view[t] \subseteq Settled

\* A refund belongs to a returned ticket, and watches what can be settled.
Refunds ==
  \A r \in Tickets :
    /\ ticket[r].status # "refunded" => refund[r].status = "none" /\ refund[r].watched = {}
    /\ \A i \in Segments : resold[r][i] # Free => i \in refund[r].watched

\* Only a sale settles: whoever has settled a segment has been sold.
SettledBySale ==
  \A r \in Tickets, i \in Segments :
    resold[r][i] # Free => ticket[resold[r][i]].status \in {"valid", "refunded"}

Waits(r, i) == Open(r) /\ i \in refund[r].watched /\ resold[r][i] = Free
OneWaits == \A p, q \in Tickets, i \in Segments : Waits(p, i) /\ Waits(q, i) => p = q

IInv ==
  /\ TypeOK
  /\ Seats /\ Sellers /\ Closers /\ Views /\ Refunds /\ SettledBySale /\ OneWaits
  /\ ResaleAlwaysPays /\ OnePayoutPerSale /\ SettledIsPaidInFull
-----------------------------------------------------------------------------
\* A ticket is held, valid, returned or not there; Free is none of them.
LEMMA Basics ==
  ASSUME TypeOK
  PROVE  /\ Free \notin Tickets
         /\ \A t \in Tickets : ticket[t].status \in {"none", "held", "valid", "refunded"}
                               /\ ticket[t].journey \subseteq Segments
         /\ \A r \in Tickets, i \in Segments : resold[r][i] \in Tickets \union {Free}
         /\ \A i \in Segments : owner[i] \in Tickets \union {Free}
         /\ Settled \subseteq Tickets \X Segments
  BY ReturnsAssumption DEF TypeOK, Settled

\* A refund with another status is a refund.
LEMMA Closed ==
  ASSUME NEW f, f = [status |-> f.status, watched |-> f.watched, refunded |-> f.refunded], NEW x
  PROVE  [f EXCEPT !.status = x] = [status |-> x, watched |-> f.watched, refunded |-> f.refunded]
  OBVIOUS

LEMMA InitIInv == Init => IInv
  <1> SUFFICES ASSUME Init PROVE IInv
    OBVIOUS
  <1>1. TypeOK
    BY ReturnsAssumption DEF Init, TypeOK, RefundStatus
  <1>2. Seats /\ Sellers /\ Closers /\ Views /\ Refunds /\ SettledBySale /\ OneWaits
    BY ReturnsAssumption
    DEF Init, Seats, Sellers, Closers, Views, Refunds, SettledBySale, OneWaits, Waits, Open
  <1>3. ResaleAlwaysPays /\ OnePayoutPerSale /\ SettledIsPaidInFull
    BY DEF Init, ResaleAlwaysPays, OnePayoutPerSale, SettledIsPaidInFull, Open, Settled
  <1> QED
    BY <1>1, <1>2, <1>3 DEF IInv

-----------------------------------------------------------------------------
(* What a step leaves alone keeps what is said of it.                      *)

\* While refunds and settlements stay as they are, so does what they say of each other.
LEMMA RefundFrame ==
  ASSUME IInv, UNCHANGED <<refund, resold>>
  PROVE  OnePayoutPerSale' /\ SettledIsPaidInFull' /\ OneWaits' /\ Settled' = Settled
  BY DEF IInv, OnePayoutPerSale, SettledIsPaidInFull, OneWaits, Waits, Open, SettledOf,
         Watched, Settled

\* While the seat and its tickets stay as they are too, only the transactions and the
\* closing job are left.
LEMMA SeatFrame ==
  ASSUME IInv, UNCHANGED <<owner, ticket, refund, resold>>
  PROVE  /\ Seats' /\ Refunds' /\ SettledBySale' /\ ResaleAlwaysPays'
         /\ OnePayoutPerSale' /\ SettledIsPaidInFull' /\ OneWaits' /\ Settled' = Settled
  <1>1. OnePayoutPerSale' /\ SettledIsPaidInFull' /\ OneWaits' /\ Settled' = Settled
    BY RefundFrame
  <1>2. Seats' /\ Refunds' /\ SettledBySale' /\ ResaleAlwaysPays'
    BY DEF IInv, Seats, Refunds, SettledBySale, ResaleAlwaysPays, Open, SoldOn
  <1> QED
    BY <1>1, <1>2

LEMMA BeginIInv ==
  ASSUME IInv, NEW t \in Tickets, SaleBegin(t) PROVE IInv'
  <1>1. /\ Seats' /\ Refunds' /\ SettledBySale' /\ ResaleAlwaysPays'
        /\ OnePayoutPerSale' /\ SettledIsPaidInFull' /\ OneWaits' /\ Settled' = Settled
    BY SeatFrame DEF SaleBegin
  <1>2. TypeOK'
    BY Basics DEF IInv, TypeOK, SaleBegin
  <1>3. Sellers' /\ Closers' /\ Views'
    BY <1>1 DEF IInv, TypeOK, SaleBegin, Sellers, Closers, Views
  <1> QED
    BY <1>1, <1>2, <1>3 DEF IInv

LEMMA AbortIInv ==
  ASSUME IInv, NEW t \in Tickets, SaleAbort(t) PROVE IInv'
  <1>1. /\ Seats' /\ Refunds' /\ SettledBySale' /\ ResaleAlwaysPays'
        /\ OnePayoutPerSale' /\ SettledIsPaidInFull' /\ OneWaits' /\ Settled' = Settled
    BY SeatFrame DEF SaleAbort
  <1>2. TypeOK'
    BY DEF IInv, TypeOK, SaleAbort
  <1>3. Sellers' /\ Closers' /\ Views'
    BY <1>1 DEF IInv, TypeOK, SaleAbort, Sellers, Closers, Views
  <1> QED
    BY <1>1, <1>2, <1>3 DEF IInv

\* The train goes on, and the job reads its list or gives up.
LEMMA JobIInv ==
  ASSUME IInv, Depart \/ CloseRead \/ CloseAbort PROVE IInv'
  <1>1. /\ Seats' /\ Refunds' /\ SettledBySale' /\ ResaleAlwaysPays'
        /\ OnePayoutPerSale' /\ SettledIsPaidInFull' /\ OneWaits' /\ Settled' = Settled
    BY SeatFrame DEF Depart, CloseRead, CloseAbort
  <1>2. TypeOK'
    <2>1. CASE Depart
      BY <2>1, ReturnsAssumption DEF IInv, TypeOK, Depart
    <2>2. CASE CloseRead
      BY <2>2 DEF IInv, TypeOK, CloseRead
    <2>3. CASE CloseAbort
      BY <2>3 DEF IInv, TypeOK, CloseAbort
    <2> QED
      BY <2>1, <2>2, <2>3
  <1>3. Closers'
    <2>1. CASE Depart \/ CloseAbort
      BY <2>1 DEF IInv, Closers, Depart, CloseAbort
    <2>2. CASE CloseRead
      BY <2>2 DEF IInv, Closers, CloseRead, Refunds, Open
    <2> QED
      BY <2>1, <2>2
  <1>4. Sellers' /\ Views'
    BY <1>1 DEF IInv, Sellers, Views, Depart, CloseRead, CloseAbort
  <1> QED
    BY <1>1, <1>2, <1>3, <1>4 DEF IInv

-----------------------------------------------------------------------------
(* The seat changes hands.                                                 *)

LEMMA HoldIInv ==
  ASSUME IInv, NEW t \in Tickets, NEW journey \in Journeys, Hold(t, journey) PROVE IInv'
  <1> USE Basics
  <1>1. /\ journey \subseteq Segments
        /\ owner' = [i \in Segments |-> IF i \in journey THEN t ELSE owner[i]]
        /\ ticket' = [ticket EXCEPT ![t] = [status |-> "held", journey |-> journey]]
        /\ ticket[t].status = "none" /\ \A i \in journey : owner[i] = Free
    BY ReturnsAssumption DEF Hold, Journeys, Segments
  <1>2. UNCHANGED <<refund, resold, selling, view, closing, left>>
    BY DEF Hold
  <1>3. TypeOK'
    BY <1>1, <1>2 DEF IInv, TypeOK
  <1>4. \A u \in Tickets : ticket'[u] = IF u = t THEN [status |-> "held", journey |-> journey]
                                               ELSE ticket[u]
    BY <1>1 DEF IInv, TypeOK
  <1>5. Seats'
    BY <1>1, <1>4 DEF IInv, Seats
  <1>6. OnePayoutPerSale' /\ SettledIsPaidInFull' /\ OneWaits' /\ Settled' = Settled
    BY <1>2, RefundFrame
  <1>7. Sellers' /\ Closers' /\ Views'
    BY <1>1, <1>2, <1>4, <1>6 DEF IInv, TypeOK, Sellers, Closers, Views
  <1>9. Refunds' /\ SettledBySale'
    BY <1>1, <1>2, <1>4 DEF IInv, Refunds, SettledBySale
  <1>8. ResaleAlwaysPays'
    BY <1>1, <1>2, <1>4 DEF IInv, TypeOK, ResaleAlwaysPays, Open, SoldOn
  <1> QED
    BY <1>3, <1>5, <1>6, <1>7, <1>8, <1>9 DEF IInv

LEMMA ReleaseIInv ==
  ASSUME IInv, NEW t \in Tickets, Release(t) PROVE IInv'
  <1> USE Basics
  <1>1. /\ owner' = [i \in Segments |-> IF owner[i] = t THEN Free ELSE owner[i]]
        /\ ticket' = [ticket EXCEPT ![t] = [status |-> "none", journey |-> {}]]
        /\ ticket[t].status = "held" /\ t \notin selling
        /\ UNCHANGED <<refund, resold, selling, view, closing, left>>
    BY DEF Release
  <1>2. TypeOK'
    BY <1>1 DEF IInv, TypeOK
  <1>3. \A u \in Tickets : ticket'[u] = IF u = t THEN [status |-> "none", journey |-> {}]
                                               ELSE ticket[u]
    BY <1>1 DEF IInv, TypeOK
  <1>4. Seats'
    BY <1>1, <1>3 DEF IInv, Seats
  <1>5. OnePayoutPerSale' /\ SettledIsPaidInFull' /\ OneWaits' /\ Settled' = Settled
    BY <1>1, RefundFrame
  <1>6. Sellers' /\ Closers' /\ Views'
    BY <1>1, <1>3, <1>5 DEF IInv, TypeOK, Sellers, Closers, Views
  <1>8. Refunds' /\ SettledBySale'
    BY <1>1, <1>3 DEF IInv, Refunds, SettledBySale
  <1>7. ResaleAlwaysPays'
    BY <1>1, <1>3 DEF IInv, TypeOK, ResaleAlwaysPays, Open, SoldOn
  <1> QED
    BY <1>2, <1>4, <1>5, <1>6, <1>7, <1>8 DEF IInv

\* A return: whoever waits for a resale has the whole journey to wait for, and nobody
\* else waits for a segment of it, because it was sold until now.
LEMMA GiveBackIInv ==
  ASSUME IInv, NEW t \in Tickets, NEW status, NEW watched, GiveBack(t, status, watched),
         \/ status = "awaiting_resale" /\ watched = ticket[t].journey
         \/ status = "settled" /\ watched = {}
  PROVE  IInv'
  <1> USE Basics
  <1>1. /\ owner' = [i \in Segments |-> IF owner[i] = t THEN Free ELSE owner[i]]
        /\ ticket' = [ticket EXCEPT ![t].status = "refunded"]
        /\ refund' = [refund EXCEPT ![t] = [status |-> status, watched |-> watched,
                                            refunded |-> 0]]
        /\ ticket[t].status = "valid"
        /\ UNCHANGED <<resold, selling, view, closing, left>>
    BY DEF GiveBack
  <1>2. /\ \A u \in Tickets : /\ ticket'[u].journey = ticket[u].journey
                              /\ ticket'[u].status = IF u = t THEN "refunded" ELSE ticket[u].status
        /\ \A r \in Tickets \ {t} : refund'[r] = refund[r]
        /\ refund'[t].status = status /\ refund'[t].watched = watched
    BY <1>1 DEF IInv, TypeOK
  <1>3. watched \subseteq Segments /\ status \in RefundStatus
    BY DEF RefundStatus, IInv
  <1>4. TypeOK'
    <2>1. refund' = [r \in Tickets |-> [status |-> refund'[r].status,
                                        watched |-> refund'[r].watched,
                                        refunded |-> refund'[r].refunded]]
      BY <1>1 DEF IInv, TypeOK
    <2>2. \A r \in Tickets : refund'[r].status \in RefundStatus /\ refund'[r].watched \subseteq Segments
      BY <1>2, <1>3 DEF IInv, TypeOK
    <2>3. /\ owner' \in [Segments -> Tickets \union {Free}]
          /\ ticket' \in [Tickets -> [status : {"none", "held", "valid", "refunded"},
                                      journey : SUBSET Segments]]
      BY <1>1 DEF IInv, TypeOK
    <2> QED
      BY <1>1, <2>1, <2>2, <2>3 DEF IInv, TypeOK
  <1>5. Seats'
    BY <1>1, <1>2 DEF IInv, Seats
  <1>6. \A i \in Segments : resold[t][i] = Free
    BY <1>1 DEF IInv, Refunds
  <1>7. Settled' = Settled
    BY <1>1 DEF Settled
  <1>8. Sellers' /\ Closers' /\ Views' /\ Refunds' /\ SettledBySale'
    <2>1. Sellers' /\ Closers' /\ Views'
      BY <1>1, <1>2, <1>7 DEF IInv, TypeOK, Sellers, Closers, Views
    <2>2. Refunds'
      BY <1>1, <1>2, <1>6 DEF IInv, Refunds
    <2>3. SettledBySale'
      BY <1>1, <1>2 DEF IInv, SettledBySale
    <2> QED
      BY <2>1, <2>2, <2>3
  <1>9. \A i \in Segments : SoldOn(i)' => SoldOn(i) /\ owner[i] # t
    BY <1>1, <1>2 DEF IInv, SoldOn
  <1>10. ResaleAlwaysPays'
    <2> SUFFICES ASSUME NEW r \in Tickets, NEW i \in Segments, Open(r)', i \in refund'[r].watched,
                        resold[r][i] = Free, SoldOn(i)'
                 PROVE  FALSE
      BY <1>1, <1>4, <1>7 DEF ResaleAlwaysPays, TypeOK
    <2>1. CASE r = t
      <3>1. i \in ticket[t].journey
        BY <2>1, <1>2, <1>3
      <3>2. owner[i] = t
        BY <3>1, <1>1 DEF IInv, Seats
      <3> QED
        BY <3>2, <1>9
    <2>2. CASE r # t
      BY <2>2, <1>2, <1>9 DEF IInv, ResaleAlwaysPays, Open
    <2> QED
      BY <2>1, <2>2
  <1>11. OneWaits'
    <2>1. \A q \in Tickets \ {t}, i \in Segments : Waits(q, i)' <=> Waits(q, i)
      BY <1>1, <1>2 DEF Waits, Open
    <2>2. ASSUME NEW q \in Tickets \ {t}, NEW i \in Segments, Waits(t, i)', Waits(q, i)
          PROVE  FALSE
      <3>1. i \in ticket[t].journey
        BY <2>2, <1>2 DEF Waits
      <3>2. SoldOn(i)
        BY <3>1, <1>1 DEF IInv, Seats, SoldOn
      <3> QED
        BY <2>2, <3>2 DEF IInv, ResaleAlwaysPays, Waits
    <2> QED
      BY <2>1, <2>2 DEF IInv, OneWaits
  <1>12. OnePayoutPerSale'
    BY <1>1, <1>7 DEF IInv, OnePayoutPerSale
  <1>13. SettledIsPaidInFull'
    BY <1>2, <1>7 DEF IInv, SettledIsPaidInFull, SettledOf, Watched
  <1> QED
    BY <1>4, <1>5, <1>8, <1>10, <1>11, <1>12, <1>13 DEF IInv

\* Closing touches no settlement, and only refunds of returned tickets.
LEMMA CloseIInv ==
  ASSUME IInv, NEW r \in Tickets, CloseOne(r) PROVE IInv'
  <1> USE Basics
  <1>1. /\ r \in closing /\ closing' = closing \ {r}
        /\ refund' = [refund EXCEPT ![r].status = "closed"]
        /\ UNCHANGED <<owner, ticket, resold, selling, view, left>>
    BY DEF CloseOne, ClosedStatus
  <1>2. \A q \in Tickets : /\ refund'[q].watched = refund[q].watched
                           /\ refund'[q].status = IF q = r THEN "closed" ELSE refund[q].status
    BY <1>1 DEF IInv, TypeOK
  <1>3. TypeOK'
    <2>1. refund' = [q \in Tickets |-> [status |-> refund'[q].status,
                                        watched |-> refund'[q].watched,
                                        refunded |-> refund'[q].refunded]]
      <3>1. \A q \in Tickets : refund[q] = [status |-> refund[q].status,
                                            watched |-> refund[q].watched,
                                            refunded |-> refund[q].refunded]
        BY DEF IInv, TypeOK
      <3>2. [refund[r] EXCEPT !.status = "closed"]
              = [status |-> "closed", watched |-> refund[r].watched, refunded |-> refund[r].refunded]
        BY <3>1, Closed
      <3>3. refund' = [q \in Tickets |-> IF q = r THEN [refund[r] EXCEPT !.status = "closed"]
                                                 ELSE refund[q]]
        BY <1>1 DEF IInv, TypeOK
      <3> QED
        BY <3>1, <3>2, <3>3
    <2>2. \A q \in Tickets : refund'[q].status \in RefundStatus /\ refund'[q].watched \subseteq Segments
      BY <1>2 DEF IInv, TypeOK, RefundStatus
    <2> QED
      BY <1>1, <2>1, <2>2 DEF IInv, TypeOK
  <1>4. Settled' = Settled
    BY <1>1 DEF Settled
  <1>5. Seats' /\ Sellers' /\ Closers' /\ Views' /\ SettledBySale' /\ OnePayoutPerSale'
    BY <1>1, <1>4 DEF IInv, Seats, Sellers, Closers, Views, SettledBySale, OnePayoutPerSale
  <1>6. Refunds'
    BY <1>1, <1>2 DEF IInv, Closers, Refunds
  <1>7. \A q \in Tickets : Open(q)' => Open(q)
    BY <1>2 DEF Open
  <1>8. OneWaits'
    BY <1>1, <1>2, <1>7 DEF IInv, OneWaits, Waits
  <1>9. ResaleAlwaysPays'
    BY <1>1, <1>2, <1>7 DEF IInv, ResaleAlwaysPays, SoldOn
  <1>10. SettledIsPaidInFull'
    BY <1>2, <1>4 DEF IInv, SettledIsPaidInFull, SettledOf, Watched
  <1> QED
    BY <1>3, <1>5, <1>6, <1>8, <1>9, <1>10 DEF IInv

-----------------------------------------------------------------------------
(* A sale settles.                                                         *)

\* Every segment the sale takes and a refund waits for is paid, once, because only one
\* waits; and a refund said to be settled is, because the snapshot shows too little at most.
LEMMA CommitIInv ==
  ASSUME IInv, NEW t \in Tickets, SaleCommit(t) PROVE IInv'
  <1> USE Basics
  <1> DEFINE mine(r) == {p \in Pays(t) : p[1] = r}
             rest(r) == Watched(r) \ (view[t] \union Pays(t))
  <1>1. /\ t \in selling /\ selling' = selling \ {t} /\ view' = [view EXCEPT ![t] = {}]
        /\ ticket' = [ticket EXCEPT ![t].status = "valid"]
        /\ resold' = [r \in Tickets |-> [i \in Segments |->
                        IF <<r, i>> \in Pays(t) THEN t ELSE resold[r][i]]]
        /\ refund' = [r \in Tickets |->
                        IF mine(r) = {} THEN refund[r]
                        ELSE [status |-> StatusAfter(rest(r)), watched |-> refund[r].watched,
                              refunded |-> RefundedAfter(r, mine(r))]]
        /\ UNCHANGED <<owner, closing, left>>
    BY DEF SaleCommit
  <1>2. ticket[t].status = "held"
    BY <1>1 DEF IInv, Sellers
  <1>3. \A u \in Tickets : /\ ticket'[u].journey = ticket[u].journey
                           /\ ticket'[u].status = IF u = t THEN "valid" ELSE ticket[u].status
    BY <1>1 DEF IInv, TypeOK
  <1>4. \A r \in Tickets, i \in Segments :
          <<r, i>> \in Pays(t) <=> i \in ticket[t].journey /\ Waits(r, i)
    BY DEF Pays, Waits, IInv
  <1>5. \A r \in Tickets, i \in Segments :
          resold'[r][i] = IF i \in ticket[t].journey /\ Waits(r, i) THEN t ELSE resold[r][i]
    BY <1>1, <1>4
  <1>6. \A r \in Tickets : /\ refund'[r].watched = refund[r].watched
                           /\ mine(r) = {} => refund'[r] = refund[r]
                           /\ mine(r) # {} => refund'[r].status = StatusAfter(rest(r))
    <2> HIDE DEF mine, rest
    <2> QED
      BY <1>1
  <1>7. \A r \in Tickets : mine(r) # {} => Open(r)
    BY DEF Pays
  <1> HIDE DEF mine, rest
  <1>8. \A r \in Tickets : refund'[r].status \in {"settled", "partially_settled"}
                           \/ refund'[r] = refund[r]
    BY <1>6 DEF StatusAfter
  <1>9. \A r \in Tickets : Open(r)' => Open(r)
    BY <1>6, <1>7 DEF Open
  <1>10. \A p \in Tickets \X Segments :
           p \in Settled' <=> p \in Settled \/ (p[2] \in ticket[t].journey /\ Waits(p[1], p[2]))
    <2>1. t # Free
      BY DEF IInv
    <2> SUFFICES ASSUME NEW p \in Tickets \X Segments
                 PROVE  resold'[p[1]][p[2]] # Free
                          <=> resold[p[1]][p[2]] # Free
                              \/ (p[2] \in ticket[t].journey /\ Waits(p[1], p[2]))
      BY DEF Settled
    <2>2. \A r \in Tickets, i \in Segments :
            resold'[r][i] # Free <=> resold[r][i] # Free \/ (i \in ticket[t].journey /\ Waits(r, i))
      BY <1>5, <2>1
    <2> QED
      BY <2>2
  <1>11. Settled \subseteq Settled' /\ Pays(t) \subseteq Settled'
    <2>1. Settled \subseteq Tickets \X Segments /\ Pays(t) \subseteq Tickets \X Segments
      BY DEF Settled, Pays, IInv
    <2>2. ASSUME NEW p \in Pays(t)
          PROVE  p \in Settled'
      <3>1. p \in Tickets \X Segments /\ p[2] \in ticket[t].journey /\ Waits(p[1], p[2])
        BY <2>1 DEF Pays, Waits
      <3> QED
        BY <3>1, <1>10
    <2>3. ASSUME NEW p \in Settled
          PROVE  p \in Settled'
      BY <1>10, <2>1
    <2> QED
      BY <2>2, <2>3
  <1>12. TypeOK'
    <2>1. refund' = [r \in Tickets |-> [status |-> refund'[r].status,
                                        watched |-> refund'[r].watched,
                                        refunded |-> refund'[r].refunded]]
      <3>1. \A r \in Tickets : refund[r] = [status |-> refund[r].status,
                                            watched |-> refund[r].watched,
                                            refunded |-> refund[r].refunded]
        BY DEF IInv, TypeOK
      <3> QED
        BY <1>1, <3>1
    <2>2. \A r \in Tickets : refund'[r].status \in RefundStatus /\ refund'[r].watched \subseteq Segments
      BY <1>6, <1>8 DEF IInv, TypeOK, RefundStatus
    <2>3. ticket' \in [Tickets -> [status : {"none", "held", "valid", "refunded"},
                                   journey : SUBSET Segments]]
      <3>1. ticket \in [Tickets -> [status : {"none", "held", "valid", "refunded"},
                                    journey : SUBSET Segments]]
        BY DEF IInv, TypeOK
      <3>2. ticket' = [ticket EXCEPT ![t].status = "valid"]
        BY <1>1
      <3> QED
        BY <3>1, <3>2
    <2>4. resold' \in [Tickets -> [Segments -> Tickets \union {Free}]]
      BY <1>1 DEF IInv, TypeOK
    <2>5. view' \in [Tickets -> SUBSET (Tickets \X Segments)]
      BY <1>1 DEF IInv, TypeOK
    <2> QED
      BY <1>1, <2>1, <2>2, <2>3, <2>4, <2>5 DEF IInv, TypeOK
  <1>13. Seats'
    BY <1>1, <1>2, <1>3 DEF IInv, Seats
  <1>14. Sellers' /\ Closers'
    BY <1>1, <1>2, <1>3 DEF IInv, TypeOK, Sellers, Closers
  <1>15. Views'
    BY <1>1, <1>11 DEF IInv, TypeOK, Views
  <1>16. Refunds'
    <2> SUFFICES ASSUME NEW r \in Tickets
                 PROVE  /\ ticket'[r].status # "refunded"
                             => refund'[r].status = "none" /\ refund'[r].watched = {}
                        /\ \A i \in Segments : resold'[r][i] # Free => i \in refund'[r].watched
      BY DEF Refunds
    <2>1. ASSUME ticket'[r].status # "refunded"
          PROVE  refund'[r].status = "none" /\ refund'[r].watched = {}
      <3>1. refund[r].status = "none" /\ refund[r].watched = {}
        BY <2>1, <1>2, <1>3 DEF IInv, Refunds
      <3>2. refund'[r] = refund[r]
        BY <3>1, <1>6, <1>7 DEF Open
      <3> QED
        BY <3>1, <3>2
    <2>2. ASSUME NEW i \in Segments, resold'[r][i] # Free
          PROVE  i \in refund'[r].watched
      <3>1. resold[r][i] # Free \/ Waits(r, i)
        BY <2>2, <1>5
      <3>2. i \in refund[r].watched
        BY <3>1 DEF IInv, Refunds, Waits
      <3> QED
        BY <3>2, <1>6
    <2> QED
      BY <2>1, <2>2
  <1>17. SettledBySale'
    BY <1>2, <1>3, <1>5 DEF IInv, SettledBySale
  <1>18. \A r \in Tickets, i \in Segments : Waits(r, i)' => Waits(r, i) /\ i \notin ticket[t].journey
    <2> SUFFICES ASSUME NEW r \in Tickets, NEW i \in Segments, Waits(r, i)'
                 PROVE  Waits(r, i) /\ i \notin ticket[t].journey
      OBVIOUS
    <2>1. Open(r)' /\ i \in refund'[r].watched /\ resold'[r][i] = Free
      BY DEF Waits
    <2>2. Open(r) /\ i \in refund[r].watched
      BY <2>1, <1>6, <1>9
    <2>3. t # Free
      BY DEF IInv
    <2> QED
      BY <2>1, <2>2, <2>3, <1>5 DEF Waits
  <1>19. OneWaits'
    BY <1>18 DEF IInv, OneWaits
  <1>20. ResaleAlwaysPays'
    <2> SUFFICES ASSUME NEW r \in Tickets, NEW i \in Segments, Waits(r, i)', SoldOn(i)'
                 PROVE  FALSE
      BY <1>12 DEF ResaleAlwaysPays, TypeOK, Waits
    <2>1. Waits(r, i) /\ i \notin ticket[t].journey
      BY <1>18
    <2>2. owner[i] # t
      BY <2>1 DEF IInv, Seats
    <2>3. SoldOn(i)
      BY <1>1, <1>3, <2>2 DEF SoldOn, IInv
    <2> QED
      BY <2>1, <2>3 DEF IInv, ResaleAlwaysPays, Waits
  <1>21. OnePayoutPerSale'
    <2> SUFFICES ASSUME NEW p \in Settled', NEW q \in Settled', p[2] = q[2],
                        resold'[p[1]][p[2]] = resold'[q[1]][q[2]]
                 PROVE  p = q
      BY DEF OnePayoutPerSale
    <2>1. p \in Tickets \X Segments /\ q \in Tickets \X Segments
      BY DEF Settled
    <2>2. ASSUME NEW o \in Tickets \X Segments, resold'[o[1]][o[2]] = t
          PROVE  Waits(o[1], o[2])
      BY <2>2, <1>2, <1>5 DEF IInv, SettledBySale
    <2>3. CASE resold'[p[1]][p[2]] = t
      <3>1. Waits(p[1], p[2]) /\ Waits(q[1], q[2])
        BY <2>1, <2>2, <2>3
      <3>2. p[1] = q[1]
        BY <3>1, <2>1 DEF IInv, OneWaits
      <3> QED
        BY <3>2, <2>1
    <2>4. CASE resold'[p[1]][p[2]] # t
      <3>1. p \in Settled /\ q \in Settled /\ resold[p[1]][p[2]] = resold[q[1]][q[2]]
        BY <2>1, <2>4, <1>5 DEF Settled
      <3> QED
        BY <3>1 DEF IInv, OnePayoutPerSale
    <2> QED
      BY <2>3, <2>4
  <1>22. SettledIsPaidInFull'
    <2> SUFFICES ASSUME NEW r \in Tickets, refund'[r].status = "settled"
                 PROVE  Watched(r)' \subseteq Settled'
      BY DEF SettledIsPaidInFull, SettledOf
    <2>1. Watched(r)' = Watched(r)
      BY <1>6 DEF Watched
    <2>2. CASE mine(r) = {}
      BY <2>1, <2>2, <1>6, <1>11 DEF IInv, SettledIsPaidInFull, SettledOf
    <2>3. CASE mine(r) # {}
      <3>1. rest(r) = {}
        BY <2>3, <1>6 DEF StatusAfter
      <3>2. view[t] \subseteq Settled
        BY DEF IInv, Views
      <3> QED
        BY <3>1, <3>2, <2>1, <1>11 DEF rest
    <2> QED
      BY <2>2, <2>3
  <1> QED
    BY <1>12, <1>13, <1>14, <1>15, <1>16, <1>17, <1>19, <1>20, <1>21, <1>22 DEF IInv

-----------------------------------------------------------------------------
(* Theorems                                                                *)

LEMMA NextIInv == IInv /\ [Next]_vars => IInv'
  <1> SUFFICES ASSUME IInv, [Next]_vars PROVE IInv'
    OBVIOUS
  <1>1. ASSUME NEW t \in Tickets, NEW journey \in Journeys, Hold(t, journey) PROVE IInv'
    BY <1>1, HoldIInv
  <1>2. ASSUME NEW t \in Tickets, SaleBegin(t) PROVE IInv'
    BY <1>2, BeginIInv
  <1>3. ASSUME NEW t \in Tickets, SaleCommit(t) PROVE IInv'
    BY <1>3, CommitIInv
  <1>4. ASSUME NEW t \in Tickets, SaleAbort(t) PROVE IInv'
    BY <1>4, AbortIInv
  <1>5. ASSUME NEW t \in Tickets, Release(t) PROVE IInv'
    BY <1>5, ReleaseIInv
  <1>6. ASSUME NEW t \in Tickets, ReturnOnDemand(t) PROVE IInv'
    BY <1>6, GiveBackIInv DEF ReturnOnDemand
  <1>7. ASSUME NEW t \in Tickets, ReturnAtOnce(t) PROVE IInv'
    BY <1>7, GiveBackIInv DEF ReturnAtOnce
  <1>8. CASE Depart \/ CloseRead \/ CloseAbort
    BY <1>8, JobIInv
  <1>9. ASSUME NEW r \in Tickets, CloseOne(r) PROVE IInv'
    BY <1>9, CloseIInv
  <1>10. CASE UNCHANGED vars
    <2>1. /\ Seats' /\ Refunds' /\ SettledBySale' /\ ResaleAlwaysPays'
          /\ OnePayoutPerSale' /\ SettledIsPaidInFull' /\ OneWaits' /\ Settled' = Settled
      BY <1>10, SeatFrame DEF vars
    <2>2. TypeOK' /\ Sellers' /\ Closers' /\ Views'
      BY <1>10, <2>1 DEF vars, IInv, TypeOK, Sellers, Closers, Views
    <2> QED
      BY <2>1, <2>2 DEF IInv
  <1> QED
    BY <1>1, <1>2, <1>3, <1>4, <1>5, <1>6, <1>7, <1>8, <1>9, <1>10 DEF Next

\* The inductive invariant: it holds at first and every step of the code keeps it.
THEOREM SpecIInv == Spec => []IInv
  BY InitIInv, NextIInv, PTL DEF Spec

\* Rows, snapshots and lists keep their types.
THEOREM SpecTypeOK == Spec => []TypeOK
  <1>1. IInv => TypeOK
    BY DEF IInv
  <1> QED
    BY SpecIInv, <1>1, PTL

\* However sales, returns, closings and departures are interleaved, a segment an open
\* refund waits for is not on a sold ticket: a resale always pays.
THEOREM SpecResaleAlwaysPays == Spec => []ResaleAlwaysPays
  <1>1. IInv => ResaleAlwaysPays
    BY DEF IInv
  <1> QED
    BY SpecIInv, <1>1, PTL

\* A sale pays for one segment of one refund only, over any series of sales and returns.
THEOREM SpecOnePayoutPerSale == Spec => []OnePayoutPerSale
  <1>1. IInv => OnePayoutPerSale
    BY DEF IInv
  <1> QED
    BY SpecIInv, <1>1, PTL

\* Counting in an old snapshot never finishes a refund too early.
THEOREM SpecSettledIsPaidInFull == Spec => []SettledIsPaidInFull
  <1>1. IInv => SettledIsPaidInFull
    BY DEF IInv
  <1> QED
    BY SpecIInv, <1>1, PTL

\* A closed refund is touched by no sale, by no other return, and by the job only to
\* close it again.
LEMMA StepClosedIsFinal ==
  IInv /\ [Next]_vars => (\A r \in Tickets : refund[r].status = "closed" => refund'[r] = refund[r])
  <1> SUFFICES ASSUME IInv, [Next]_vars, NEW r \in Tickets, refund[r].status = "closed"
               PROVE  refund'[r] = refund[r]
    OBVIOUS
  <1>1. ASSUME NEW t \in Tickets, SaleCommit(t) PROVE refund'[r] = refund[r]
    <2>1. {p \in Pays(t) : p[1] = r} = {}
      BY DEF Pays, Open
    <2> QED
      BY <1>1, <2>1 DEF SaleCommit
  <1>2. ASSUME NEW t \in Tickets, NEW status, NEW watched, GiveBack(t, status, watched)
        PROVE  refund'[r] = refund[r]
    BY <1>2 DEF GiveBack, IInv, TypeOK, Refunds
  <1>3. ASSUME NEW q \in Tickets, CloseOne(q) PROVE refund'[r] = refund[r]
    <2>1. refund' = [refund EXCEPT ![q].status = "closed"]
      BY <1>3 DEF CloseOne, ClosedStatus
    <2>2. refund[r] = [status |-> refund[r].status, watched |-> refund[r].watched,
                       refunded |-> refund[r].refunded]
      BY DEF IInv, TypeOK
    <2>3. [refund[r] EXCEPT !.status = "closed"] = refund[r]
      BY <2>2, Closed
    <2> QED
      BY <2>1, <2>3 DEF IInv, TypeOK
  <1>4. CASE UNCHANGED refund
    BY <1>4
  <1> QED
    BY <1>1, <1>2, <1>3, <1>4
    DEF Next, vars, Hold, SaleBegin, SaleAbort, Release, ReturnOnDemand, ReturnAtOnce,
        Depart, CloseRead, CloseAbort

\* Once a refund is closed, nothing is paid on it and it stays closed.
THEOREM SpecClosedIsFinal == Spec => ClosedIsFinal
  BY SpecIInv, StepClosedIsFinal, PTL DEF Spec, ClosedIsFinal
-----------------------------------------------------------------------------
(* Sums, counted unit by unit                                              *)

\* Bad subsets of a finite set have a smallest: it is not bad any more with any element less.
LEMMA SmallestSubset ==
  ASSUME NEW S, IsFiniteSet(S), NEW Bad, Bad \subseteq SUBSET S, Bad # {}
  PROVE  \E s \in Bad : \A x \in s : s \ {x} \notin Bad
<1>1. Bad \subseteq FiniteSubsetsOf(S)
  BY FS_Subset DEF FiniteSubsetsOf
<1>2. IsWellFoundedOn(StrictSubsetOrdering(S), FiniteSubsetsOf(S))
  BY FS_StrictSubsetOrderingWellFounded
<1>3. PICK s \in Bad : \A u \in Bad : ~(<<u, s>> \in StrictSubsetOrdering(S))
  BY <1>1, <1>2, WFMin
<1>4. ASSUME NEW x \in s PROVE s \ {x} \notin Bad
  <2>1. <<s \ {x}, s>> \in StrictSubsetOrdering(S)
    BY <1>4 DEF StrictSubsetOrdering
  <2> QED BY <1>3, <2>1
<1> QED BY <1>4

\* Each unit of each part, paired with the one it belongs to.
Counted(part, S) == {u \in S \X (Nat \ {0}) : u[2] <= part[u[1]]}

\* One more adds the units of its part.
LEMMA CountOneMore ==
  ASSUME NEW S, NEW part, NEW x, x \notin S, part[x] \in Nat, IsFiniteSet(Counted(part, S))
  PROVE  /\ IsFiniteSet(Counted(part, S \union {x}))
         /\ Cardinality(Counted(part, S \union {x})) = part[x] + Cardinality(Counted(part, S))
<1> DEFINE U == Counted(part, S)
           n == part[x]
           V == {x} \X (1 .. n)
<1>1. Counted(part, S \union {x}) = U \union V
  <2>1. ASSUME NEW u \in Counted(part, S \union {x}) PROVE u \in U \union V
    BY DEF Counted
  <2>2. U \subseteq Counted(part, S \union {x})
    BY DEF Counted
  <2>3. ASSUME NEW u \in V PROVE u \in Counted(part, S \union {x})
    BY DEF Counted
  <2> QED BY <2>1, <2>2, <2>3
<1>2. U \intersect V = {}
  BY DEF Counted
<1>3. IsFiniteSet(V) /\ Cardinality(V) = n
  <2>1. IsFiniteSet({x}) /\ Cardinality({x}) = 1
    BY FS_Singleton
  <2>2. IsFiniteSet(1 .. n) /\ Cardinality(1 .. n) = n
    <3> HIDE DEF n
    <3>1. n \in Nat
      BY DEF n
    <3>2. IsFiniteSet(1 .. n) /\ Cardinality(1 .. n) = IF 1 > n THEN 0 ELSE n - 1 + 1
      BY <3>1, FS_Interval
    <3> QED BY <3>1, <3>2
  <2>3. IsFiniteSet(V) /\ Cardinality(V) = Cardinality({x}) * Cardinality(1 .. n)
    BY <2>1, <2>2, FS_Product
  <2> QED BY <2>1, <2>2, <2>3
<1>4. IsFiniteSet(U) /\ Cardinality(U) \in Nat
  BY FS_CardinalityType
<1> HIDE DEF U, V
<1>5. /\ IsFiniteSet(U \union V)
      /\ Cardinality(U \union V) = Cardinality(U) + Cardinality(V) - Cardinality(U \intersect V)
  BY <1>3, <1>4, FS_Union
<1>6. Cardinality(U \intersect V) = 0
  BY <1>2, FS_EmptySet
<1>7. Cardinality(U \union V) = part[x] + Cardinality(U)
  BY <1>3, <1>4, <1>5, <1>6
<1> QED BY <1>1, <1>5, <1>7 DEF U

\* So finitely many parts have finitely many units.
LEMMA CountFinite ==
  ASSUME NEW S, IsFiniteSet(S), NEW part, \A x \in S : part[x] \in Nat
  PROVE  \A s \in SUBSET S : IsFiniteSet(Counted(part, s))
<1> DEFINE Bad == {s \in SUBSET S : ~IsFiniteSet(Counted(part, s))}
<1> SUFFICES ASSUME Bad # {} PROVE FALSE
  OBVIOUS
<1>1. PICK s \in Bad : \A x \in s : s \ {x} \notin Bad
  BY SmallestSubset
<1>2. CASE s = {}
  <2>1. Counted(part, s) = {}
    BY <1>2 DEF Counted
  <2> QED BY <2>1, FS_EmptySet
<1>3. CASE s # {}
  <2>1. PICK x : x \in s
    BY <1>3
  <2>2. IsFiniteSet(Counted(part, s \ {x})) /\ part[x] \in Nat /\ x \notin s \ {x}
    BY <1>1, <2>1
  <2>3. IsFiniteSet(Counted(part, (s \ {x}) \union {x}))
    BY <2>2, CountOneMore
  <2>4. (s \ {x}) \union {x} = s
    BY <2>1
  <2> QED BY <2>3, <2>4
<1> QED BY <1>2, <1>3

\* The sum over finitely many parts is the number of their units.
SumOfShares(watched, mine) == MapThenSumSet(LAMBDA p : Share(watched, p[2]), mine)

LEMMA SumIsCount ==
  ASSUME NEW watched, NEW mine, IsFiniteSet(mine), NEW part,
         \A p \in mine : part[p] = Share(watched, p[2]) /\ part[p] \in Nat
  PROVE  SumOfShares(watched, mine) = Cardinality(Counted(part, mine))
<1> DEFINE any(s) == CHOOSE p \in s : TRUE
           Rec(h) == [s \in SUBSET mine |->
                        IF s = {} THEN 0 ELSE Share(watched, any(s)[2]) + h[s \ {any(s)}]]
           sum == CHOOSE h : h = Rec(h)
           count == [s \in SUBSET mine |-> Cardinality(Counted(part, s))]
<1>1. SumOfShares(watched, mine) = sum[mine]
  BY DEF SumOfShares, MapThenSumSet, MapThenFoldSet
<1>2. \A s : s # {} => any(s) \in s
  OBVIOUS
<1> HIDE DEF any
<1>3. ASSUME NEW s \in SUBSET mine, s # {}
      PROVE  count[s] = Share(watched, any(s)[2]) + count[s \ {any(s)}]
  <2>1. any(s) \in s /\ s \ {any(s)} \in SUBSET mine /\ (s \ {any(s)}) \union {any(s)} = s
    BY <1>2, <1>3
  <2>2. part[any(s)] \in Nat /\ part[any(s)] = Share(watched, any(s)[2])
    BY <2>1
  <2>3. IsFiniteSet(Counted(part, s \ {any(s)}))
    BY <2>1, CountFinite
  <2>4. Cardinality(Counted(part, s)) =
          part[any(s)] + Cardinality(Counted(part, s \ {any(s)}))
    BY <2>1, <2>2, <2>3, CountOneMore
  <2> QED BY <2>1, <2>2, <2>4
<1>4. count[{}] = 0
  <2>1. Counted(part, {}) = {}
    BY DEF Counted
  <2> QED BY <2>1, FS_EmptySet
<1>5. count = Rec(count)
  <2>1. count = [s \in SUBSET mine |-> count[s]]
    OBVIOUS
  <2> HIDE DEF count
  <2>2. \A s \in SUBSET mine : count[s] = Rec(count)[s]
    BY <1>3, <1>4
  <2> QED BY <2>1, <2>2
<1>6. sum = Rec(sum)
  <2> HIDE DEF Rec, count
  <2> QED BY <1>5
<1> DEFINE Bad == {s \in SUBSET mine : sum[s] # count[s]}
<1>7. Bad = {}
  <2> SUFFICES ASSUME Bad # {} PROVE FALSE
    OBVIOUS
  <2>1. PICK s \in Bad : \A x \in s : s \ {x} \notin Bad
    BY SmallestSubset
  <2> HIDE DEF sum, count
  <2>2. s \in SUBSET mine /\ sum[s] # count[s]
    OBVIOUS
  <2>3. sum[s] = IF s = {} THEN 0 ELSE Share(watched, any(s)[2]) + sum[s \ {any(s)}]
    BY <1>6, <2>2
  <2>4. CASE s = {}
    BY <1>4, <2>2, <2>3, <2>4
  <2>5. CASE s # {}
    <3>1. any(s) \in s
      BY <1>2, <2>5
    <3>2. sum[s \ {any(s)}] = count[s \ {any(s)}]
      BY <2>1, <2>2, <3>1
    <3> QED BY <1>3, <2>2, <2>3, <2>5, <3>2
  <2> QED BY <2>4, <2>5
<1>8. sum[mine] = count[mine]
  <2> HIDE DEF sum, count
  <2> QED BY <1>7
<1> QED BY <1>1, <1>8

\* What is split over some segments is a number of whole units on each.
LEMMA ShareType ==
  ASSUME NEW watched, IsFiniteSet(watched), NEW i \in watched
  PROVE  /\ Cardinality(watched) \in Nat \ {0} /\ Share(watched, i) \in Nat
         /\ Maximum \div Cardinality(watched) \in Nat
         /\ Maximum % Cardinality(watched) \in Nat
         /\ Maximum % Cardinality(watched) < Cardinality(watched)
         /\ Maximum = Cardinality(watched) * (Maximum \div Cardinality(watched))
                        + (Maximum % Cardinality(watched))
<1> DEFINE n == Cardinality(watched)
<1>1. n \in Nat \ {0}
  BY FS_CardinalityType, FS_EmptySet
<1>2. Share(watched, i) = (Maximum \div n) + 1 \/ Share(watched, i) = (Maximum \div n) + 0
  BY DEF Share
<1> HIDE DEF n
<1>3. /\ Maximum \div n \in Nat /\ Maximum % n \in Nat /\ Maximum % n < n
      /\ Maximum = n * (Maximum \div n) + (Maximum % n)
  BY <1>1, ReturnsAssumption
<1>4. Share(watched, i) \in Nat
  BY <1>2, <1>3
<1> QED BY <1>1, <1>3, <1>4 DEF n

\* The parts of two sets of segments add up.
LEMMA SumsAdd ==
  ASSUME NEW watched, NEW all, IsFiniteSet(all), \A p \in all : Share(watched, p[2]) \in Nat,
         NEW A \in SUBSET all, NEW B \in SUBSET all, A \intersect B = {}
  PROVE  SumOfShares(watched, A \union B) = SumOfShares(watched, A) + SumOfShares(watched, B)
<1> DEFINE part == [p \in all |-> Share(watched, p[2])]
<1>2. \A p \in all : part[p] = Share(watched, p[2]) /\ part[p] \in Nat
  OBVIOUS
<1> HIDE DEF part
<1>3. \A s \in SUBSET all : /\ IsFiniteSet(s) /\ IsFiniteSet(Counted(part, s))
                            /\ SumOfShares(watched, s) = Cardinality(Counted(part, s))
  <2> TAKE s \in SUBSET all
  <2>1. IsFiniteSet(s) /\ \A p \in s : part[p] = Share(watched, p[2]) /\ part[p] \in Nat
    BY <1>2, FS_Subset
  <2>2. IsFiniteSet(Counted(part, s))
    BY <1>2, CountFinite
  <2> QED BY <2>1, <2>2, SumIsCount
<1> DEFINE U == Counted(part, A)
           V == Counted(part, B)
<1>4. Counted(part, A \union B) = U \union V /\ U \intersect V = {}
  BY DEF Counted
<1>5. /\ IsFiniteSet(U) /\ Cardinality(U) \in Nat /\ IsFiniteSet(V) /\ Cardinality(V) \in Nat
      /\ SumOfShares(watched, A) = Cardinality(U) /\ SumOfShares(watched, B) = Cardinality(V)
      /\ SumOfShares(watched, A \union B) = Cardinality(Counted(part, A \union B))
  BY <1>3, FS_CardinalityType
<1> HIDE DEF U, V
<1>6. /\ Cardinality(U \union V) = Cardinality(U) + Cardinality(V) - Cardinality(U \intersect V)
      /\ Cardinality(U \intersect V) = 0
  BY <1>4, <1>5, FS_Union, FS_EmptySet
<1>7. Cardinality(U \union V) = Cardinality(U) + Cardinality(V)
  BY <1>5, <1>6
<1> QED BY <1>4, <1>5, <1>7

LEMMA SumOfNone ==
  ASSUME NEW watched
  PROVE  SumOfShares(watched, {}) = 0
<1> DEFINE part == [p \in {} |-> 0]
<1>1. SumOfShares(watched, {}) = Cardinality(Counted(part, {}))
  BY FS_EmptySet, SumIsCount
<1>2. Counted(part, {}) = {}
  BY DEF Counted
<1> QED BY <1>1, <1>2, FS_EmptySet

\* As many segments have fewer than k before them as k says.
LEMMA EarlierOnes ==
  ASSUME NEW watched, watched \subseteq Nat, IsFiniteSet(watched), NEW k \in Nat,
         k <= Cardinality(watched)
  PROVE  LET first == {i \in watched : Cardinality({j \in watched : j < i}) < k}
         IN  IsFiniteSet(first) /\ Cardinality(first) = k
<1> DEFINE n == Cardinality(watched)
           Before(i) == {j \in watched : j < i}
           rank == [i \in watched |-> Cardinality(Before(i))]
           first == {i \in watched : Cardinality(Before(i)) < k}
<1>0. n \in Nat /\ \A i \in watched : i \in Nat
  BY FS_CardinalityType
<1>1. ASSUME NEW i \in watched
      PROVE  /\ Before(i) \in SUBSET watched /\ IsFiniteSet(Before(i))
             /\ Cardinality(Before(i)) \in Nat /\ Cardinality(Before(i)) < n
  <2>1. ~(i < i)
    BY <1>0
  <2>2. Before(i) \in SUBSET watched /\ i \notin Before(i)
    BY <2>1
  <2> HIDE DEF Before
  <2>3. /\ IsFiniteSet(Before(i)) /\ Cardinality(Before(i)) <= n
        /\ n = Cardinality(Before(i)) => watched = Before(i)
    BY <2>2, FS_Subset
  <2>4. Cardinality(Before(i)) \in Nat
    BY <2>3, FS_CardinalityType
  <2> QED BY <1>0, <2>2, <2>3, <2>4
<1>2. ASSUME NEW i \in watched, NEW j \in watched, i < j
      PROVE  Cardinality(Before(i)) # Cardinality(Before(j))
  <2>1. (\A s \in watched : s < i => s < j) /\ ~(i < i)
    BY <1>0, <1>2
  <2>2. Before(i) \subseteq Before(j) /\ i \in Before(j) /\ i \notin Before(i)
    BY <1>2, <2>1
  <2> HIDE DEF Before
  <2> QED BY <1>1, <2>2, FS_Subset
<1>3. \A i \in watched : rank[i] = Cardinality(Before(i))
  OBVIOUS
<1> HIDE DEF Before
<1>4. rank \in Injection(watched, 0 .. n - 1)
  <2>1. \A i \in watched : rank[i] \in 0 .. n - 1
    BY <1>0, <1>1, <1>3
  <2>2. \A i \in watched : \A j \in watched : rank[i] = rank[j] => i = j
    <3>1. \A i \in watched : \A j \in watched : i < j \/ i = j \/ j < i
      BY <1>0
    <3> QED BY <1>2, <1>3, <3>1
  <2> QED BY <2>1, <2>2 DEF Injection, IsInjective
<1>5. IsFiniteSet(0 .. n - 1) /\ Cardinality(0 .. n - 1) = n
  <2> HIDE DEF n
  <2>1. /\ IsFiniteSet(0 .. n - 1)
        /\ Cardinality(0 .. n - 1) = IF 0 > n - 1 THEN 0 ELSE (n - 1) - 0 + 1
    BY <1>0, FS_Interval
  <2> QED BY <1>0, <2>1
<1>6. rank \in Surjection(watched, 0 .. n - 1)
  <2> HIDE DEF rank
  <2> QED BY <1>4, <1>5, FS_Injection
<1> DEFINE low == [i \in first |-> rank[i]]
<1>7. low \in Injection(first, 0 .. k - 1)
  <2>1. \A i \in first : low[i] \in 0 .. k - 1
    BY <1>1, <1>3
  <2>2. \A i \in first : \A j \in first : low[i] = low[j] => i = j
    BY <1>4 DEF Injection, IsInjective
  <2> QED BY <2>1, <2>2 DEF Injection, IsInjective
<1>8. \A m \in 0 .. k - 1 : \E i \in first : low[i] = m
  <2> TAKE m \in 0 .. k - 1
  <2>1. m \in 0 .. n - 1
    BY <1>0
  <2>2. PICK i \in watched : rank[i] = m
    BY <1>6, <2>1 DEF Surjection
  <2>3. i \in first
    BY <1>3, <2>2
  <2> QED BY <2>2, <2>3
<1>9. low \in Surjection(first, 0 .. k - 1)
  BY <1>7, <1>8 DEF Surjection, Injection
<1>10. IsFiniteSet(0 .. k - 1) /\ Cardinality(0 .. k - 1) = k
  <2>1. /\ IsFiniteSet(0 .. k - 1)
        /\ Cardinality(0 .. k - 1) = IF 0 > k - 1 THEN 0 ELSE (k - 1) - 0 + 1
    BY FS_Interval
  <2> QED BY <2>1
<1> HIDE DEF low, first
<1>11. IsFiniteSet(first) /\ Cardinality(first) = k
  BY <1>7, <1>9, <1>10, FS_Injection
<1> QED BY <1>11 DEF first, Before

\* Split over any segments, the parts are the whole again: no minor unit is lost or made
\* (splitAcross).
THEOREM SplitIsWhole ==
  ASSUME NEW watched, watched \subseteq Nat, IsFiniteSet(watched), watched # {}, NEW r
  PROVE  SumOfShares(watched, {r} \X watched) = Maximum
<1> DEFINE n == Cardinality(watched)
           q == Maximum \div n
           k == Maximum % n
           all == {r} \X watched
           Before(i) == {j \in watched : j < i}
           first == {i \in watched : Cardinality(Before(i)) < k}
           part == [p \in all |-> Share(watched, p[2])]
           U == all \X (1 .. q)
           V == ({r} \X first) \X {q + 1}
<1>1. /\ n \in Nat \ {0} /\ q \in Nat /\ k \in Nat /\ k < n /\ Maximum = n * q + k
      /\ \A i \in watched : Share(watched, i) \in Nat
  BY ShareType
<1>a. k <= n
  BY <1>1
<1>2. \A i \in watched : Share(watched, i) = IF i \in first THEN q + 1 ELSE q
  <2>1. \A i \in watched :
          Share(watched, i) = q + (IF Cardinality(Before(i)) < k THEN 1 ELSE 0)
    BY DEF Share
  <2> HIDE DEF q, k, Before
  <2> QED BY <1>1, <2>1
<1>3. IsFiniteSet(first) /\ Cardinality(first) = k /\ first \subseteq watched
  <2> HIDE DEF k
  <2> QED BY <1>1, <1>a, EarlierOnes
<1> HIDE DEF n, q, k, first
<1>4. IsFiniteSet(all) /\ Cardinality(all) = n
  <2>1. IsFiniteSet({r}) /\ Cardinality({r}) = 1
    BY FS_Singleton
  <2>2. IsFiniteSet(all) /\ Cardinality(all) = Cardinality({r}) * Cardinality(watched)
    BY <2>1, FS_Product
  <2> QED BY <1>1, <2>1, <2>2 DEF n
<1>5. IsFiniteSet({r} \X first) /\ Cardinality({r} \X first) = k
  <2>1. IsFiniteSet({r}) /\ Cardinality({r}) = 1
    BY FS_Singleton
  <2>2. /\ IsFiniteSet({r} \X first)
        /\ Cardinality({r} \X first) = Cardinality({r}) * Cardinality(first)
    BY <1>3, <2>1, FS_Product
  <2> QED BY <1>1, <1>3, <2>1, <2>2
<1>6. \A p \in all : /\ part[p] = Share(watched, p[2]) /\ part[p] \in Nat
                     /\ part[p] = IF p[2] \in first THEN q + 1 ELSE q
  BY <1>1, <1>2
<1>7. SumOfShares(watched, all) = Cardinality(Counted(part, all))
  <2> HIDE DEF all, part
  <2> QED BY <1>4, <1>6, SumIsCount
<1> HIDE DEF part
<1>8. Counted(part, all) = U \union V
  <2>1. ASSUME NEW p \in all, NEW m \in Nat \ {0}
        PROVE  m <= part[p] <=> m \in 1 .. q \/ (p[2] \in first /\ m = q + 1)
    BY <1>1, <1>6
  <2>2. ASSUME NEW u \in Counted(part, all) PROVE u \in U \union V
    <3>1. /\ u = <<u[1], u[2]>> /\ u[1] \in all /\ u[2] \in Nat \ {0} /\ u[2] <= part[u[1]]
      BY DEF Counted
    <3>2. u[2] \in 1 .. q \/ (u[1][2] \in first /\ u[2] = q + 1)
      BY <2>1, <3>1
    <3>3. u[1] = <<r, u[1][2]>>
      BY <3>1
    <3> QED BY <3>1, <3>2, <3>3
  <2>3. ASSUME NEW u \in U PROVE u \in Counted(part, all)
    <3>1. u = <<u[1], u[2]>> /\ u[1] \in all /\ u[2] \in 1 .. q /\ u[2] \in Nat \ {0}
      BY <1>1
    <3> QED BY <2>1, <3>1 DEF Counted
  <2>4. ASSUME NEW u \in V PROVE u \in Counted(part, all)
    <3>1. /\ u = <<u[1], u[2]>> /\ u[1] \in all /\ u[1][2] \in first /\ u[2] = q + 1
          /\ u[2] \in Nat \ {0}
      <4>1. u = <<u[1], u[2]>> /\ u[1] \in {r} \X first /\ u[2] = q + 1
        OBVIOUS
      <4>2. u[1] \in all /\ u[1][2] \in first
        BY <1>3, <4>1
      <4>3. q + 1 \in Nat \ {0}
        BY <1>1
      <4> QED BY <4>1, <4>2, <4>3
    <3> QED BY <2>1, <3>1 DEF Counted
  <2> QED BY <2>2, <2>3, <2>4
<1>9. U \intersect V = {}
  <2>1. q + 1 \notin 1 .. q
    BY <1>1
  <2> QED BY <2>1
<1>10. IsFiniteSet(U) /\ Cardinality(U) = n * q
  <2>1. IsFiniteSet(1 .. q) /\ Cardinality(1 .. q) = q
    <3>1. IsFiniteSet(1 .. q) /\ Cardinality(1 .. q) = IF 1 > q THEN 0 ELSE q - 1 + 1
      BY <1>1, FS_Interval
    <3> QED BY <1>1, <3>1
  <2> HIDE DEF all
  <2> QED BY <1>4, <2>1, FS_Product
<1>11. IsFiniteSet(V) /\ Cardinality(V) = k
  <2>1. IsFiniteSet({q + 1}) /\ Cardinality({q + 1}) = 1
    BY FS_Singleton
  <2>2. IsFiniteSet(V) /\ Cardinality(V) = k * 1
    BY <1>5, <2>1, FS_Product
  <2> QED BY <1>1, <2>2
<1> HIDE DEF U, V
<1>12. /\ Cardinality(U \union V) = n * q + k - Cardinality(U \intersect V)
       /\ Cardinality(U \intersect V) = 0
  BY <1>9, <1>10, <1>11, FS_Union, FS_EmptySet
<1>13. n * q + k - 0 = Maximum
  <2>1. n * q \in Nat
    BY <1>1
  <2> QED BY <1>1, <2>1
<1>14. Cardinality(U \union V) = Maximum
  BY <1>12, <1>13
<1> HIDE DEF all
<1>15. SumOfShares(watched, all) = Maximum
  BY <1>7, <1>8, <1>14
<1> QED BY <1>15 DEF all

-----------------------------------------------------------------------------
(* What a refund has paid                                                  *)

Amounts == \A r \in Tickets : refund[r].refunded = SumOfShares(refund[r].watched, SettledOf(r))

LEMMA SharesAreSums ==
  ASSUME NEW r, NEW mine
  PROVE  Shares(r, mine) = SumOfShares(refund[r].watched, mine)
BY DEF Shares, SumOfShares

\* A step that settles nothing, and leaves what is watched and paid, leaves the amounts.
LEMMA AmountsFrame ==
  ASSUME Amounts, resold' = resold,
         \A r \in Tickets : /\ refund'[r].watched = refund[r].watched
                            /\ refund'[r].refunded = refund[r].refunded
  PROVE  Amounts'
<1>1. ASSUME NEW r \in Tickets PROVE SettledOf(r)' = SettledOf(r)
  BY DEF SettledOf, Settled, Watched
<1>2. ASSUME NEW r \in Tickets
      PROVE  refund'[r].refunded = SumOfShares(refund'[r].watched, SettledOf(r)')
  BY <1>1 DEF Amounts
<1> QED BY <1>2 DEF Amounts

\* A return starts from nothing: no segment of a ticket that was valid has settled.
LEMMA GiveBackAmounts ==
  ASSUME IInv, Amounts, NEW t \in Tickets, NEW status, NEW watched, GiveBack(t, status, watched)
  PROVE  Amounts'
<1>1. /\ resold' = resold /\ ticket[t].status = "valid"
      /\ refund' = [refund EXCEPT ![t] = [status |-> status, watched |-> watched,
                                          refunded |-> 0]]
  BY DEF GiveBack
<1>2. /\ refund'[t].watched = watched /\ refund'[t].refunded = 0
      /\ \A r \in Tickets : r # t => refund'[r] = refund[r]
  BY <1>1 DEF IInv, TypeOK
<1>3. \A i \in Segments : resold[t][i] = Free
  BY <1>1 DEF IInv, Refunds
<1>4. SettledOf(t)' = {}
  BY <1>1, <1>3 DEF SettledOf, Settled, Watched
<1>5. refund'[t].refunded = SumOfShares(refund'[t].watched, SettledOf(t)')
  BY <1>2, <1>4, SumOfNone
<1>6. ASSUME NEW r \in Tickets, r # t
      PROVE  refund'[r].refunded = SumOfShares(refund'[r].watched, SettledOf(r)')
  <2>1. SettledOf(r)' = SettledOf(r)
    BY <1>1, <1>2, <1>6 DEF SettledOf, Settled, Watched
  <2> QED BY <1>2, <1>6, <2>1 DEF Amounts
<1> QED BY <1>5, <1>6 DEF Amounts

\* A sale adds the shares of what it settles, and settles nothing that was settled before.
LEMMA CommitAmounts ==
  ASSUME IInv, Amounts, NEW t \in Tickets, SaleCommit(t)
  PROVE  Amounts'
<1> DEFINE mine(r) == {p \in Pays(t) : p[1] = r}
<1>1. /\ resold' = [r \in Tickets |-> [i \in Segments |->
                      IF <<r, i>> \in Pays(t) THEN t ELSE resold[r][i]]]
      /\ \A r \in Tickets :
           \/ mine(r) = {} /\ refund'[r] = refund[r]
           \/ /\ refund'[r].watched = refund[r].watched
              /\ refund'[r].refunded = refund[r].refunded + Shares(r, mine(r))
  <2> DEFINE rest(r) == Watched(r) \ (view[t] \union Pays(t))
  <2>1. /\ resold' = [r \in Tickets |-> [i \in Segments |->
                        IF <<r, i>> \in Pays(t) THEN t ELSE resold[r][i]]]
        /\ refund' = [r \in Tickets |->
                        IF mine(r) = {} THEN refund[r]
                        ELSE [status |-> StatusAfter(rest(r)), watched |-> refund[r].watched,
                              refunded |-> RefundedAfter(r, mine(r))]]
    BY DEF SaleCommit
  <2> HIDE DEF mine, rest
  <2> QED BY <2>1 DEF RefundedAfter
<1>2. t \in Tickets /\ t # Free
  BY Basics DEF IInv
<1>3. Pays(t) \subseteq Tickets \X Segments
  BY Basics DEF Pays, IInv
<1>4. Settled' = Settled \union Pays(t) /\ Settled \intersect Pays(t) = {}
  <2>1. \A p \in Tickets \X Segments :
          resold'[p[1]][p[2]] = IF p \in Pays(t) THEN t ELSE resold[p[1]][p[2]]
    <3>1. \A r \in Tickets : \A i \in Segments :
            resold'[r][i] = IF <<r, i>> \in Pays(t) THEN t ELSE resold[r][i]
      BY <1>1
    <3> HIDE DEF Pays
    <3> QED BY <3>1
  <2>2. Settled \intersect Pays(t) = {}
    BY DEF Settled, Pays
  <2> QED BY <1>2, <1>3, <2>1, <2>2 DEF Settled
<1>5. SUFFICES ASSUME NEW r \in Tickets
               PROVE  refund'[r].refunded = SumOfShares(refund'[r].watched, SettledOf(r)')
  BY DEF Amounts
<1> DEFINE watched == refund[r].watched
           settled == SettledOf(r)
<1>6. refund'[r].watched = watched
  BY <1>1
<1>7. mine(r) \subseteq {r} \X watched /\ settled \subseteq {r} \X watched
  BY <1>3 DEF Pays, SettledOf, Watched
<1>8. settled \intersect mine(r) = {} /\ SettledOf(r)' = settled \union mine(r)
  <2>1. SettledOf(r)' = (Settled \union Pays(t)) \intersect ({r} \X watched)
    BY <1>4, <1>6 DEF SettledOf, Watched
  <2>2. Pays(t) \intersect ({r} \X watched) = mine(r)
    BY <1>7
  <2> QED BY <1>4, <2>1, <2>2 DEF SettledOf, Watched
<1>9. IsFiniteSet(watched)
  <2>1. IsFiniteSet(Segments)
    BY ReturnsAssumption, FS_Interval DEF Segments
  <2>2. watched \in SUBSET Segments
    BY DEF IInv, TypeOK
  <2> QED BY <2>1, <2>2, FS_Subset
<1> HIDE DEF mine, watched, settled
<1>10. SumOfShares(watched, settled \union mine(r)) =
         SumOfShares(watched, settled) + SumOfShares(watched, mine(r))
  <2> DEFINE M == mine(r)
             all == {r} \X watched
  <2>1. IsFiniteSet(all) /\ \A p \in all : Share(watched, p[2]) \in Nat
    BY <1>9, FS_Singleton, FS_Product, ShareType
  <2>2. M \in SUBSET all /\ settled \in SUBSET all /\ settled \intersect M = {}
    BY <1>7, <1>8
  <2> HIDE DEF M, all
  <2>3. SumOfShares(watched, settled \union M) =
          SumOfShares(watched, settled) + SumOfShares(watched, M)
    BY <2>1, <2>2, SumsAdd
  <2> QED BY <2>3 DEF M
<1>11. refund[r].refunded = SumOfShares(watched, settled)
  BY DEF Amounts, watched, settled
<1>12. CASE mine(r) = {} /\ refund'[r] = refund[r]
  BY <1>6, <1>8, <1>11, <1>12
<1>13. CASE refund'[r].refunded = refund[r].refunded + Shares(r, mine(r))
  BY <1>6, <1>8, <1>10, <1>11, <1>13, SharesAreSums DEF watched
<1> QED BY <1>1, <1>12, <1>13

LEMMA StepAmounts == IInv /\ Amounts /\ [Next]_vars => Amounts'
<1> SUFFICES ASSUME IInv, Amounts, [Next]_vars PROVE Amounts'
  OBVIOUS
<1>1. ASSUME UNCHANGED <<refund, resold>> PROVE Amounts'
  BY <1>1, AmountsFrame
<1>2. ASSUME NEW t \in Tickets, NEW journey \in Journeys, Hold(t, journey) PROVE Amounts'
  BY <1>1, <1>2 DEF Hold
<1>3. ASSUME NEW t \in Tickets, SaleBegin(t) \/ SaleAbort(t) \/ Release(t) PROVE Amounts'
  BY <1>1, <1>3 DEF SaleBegin, SaleAbort, Release
<1>4. ASSUME NEW t \in Tickets, SaleCommit(t) PROVE Amounts'
  BY <1>4, CommitAmounts
<1>5. ASSUME NEW t \in Tickets, ReturnOnDemand(t) \/ ReturnAtOnce(t) PROVE Amounts'
  BY <1>5, GiveBackAmounts DEF ReturnOnDemand, ReturnAtOnce
<1>6. CASE Depart \/ CloseRead \/ CloseAbort
  BY <1>1, <1>6 DEF Depart, CloseRead, CloseAbort
<1>7. ASSUME NEW r \in Tickets, CloseOne(r) PROVE Amounts'
  <2>1. resold' = resold /\ refund' = [refund EXCEPT ![r].status = ClosedStatus(r)]
    BY <1>7 DEF CloseOne
  <2>2. \A q \in Tickets : refund[q] = [status |-> refund[q].status,
                                        watched |-> refund[q].watched,
                                        refunded |-> refund[q].refunded]
    BY DEF IInv, TypeOK
  <2>3. refund'[r] = [refund[r] EXCEPT !.status = ClosedStatus(r)]
        /\ \A q \in Tickets : q # r => refund'[q] = refund[q]
    BY <2>1 DEF IInv, TypeOK
  <2>4. refund'[r].watched = refund[r].watched /\ refund'[r].refunded = refund[r].refunded
    BY <2>2, <2>3, Closed
  <2> QED BY <2>1, <2>3, <2>4, AmountsFrame
<1>8. CASE UNCHANGED vars
  BY <1>1, <1>8 DEF vars
<1> QED BY <1>2, <1>3, <1>4, <1>5, <1>6, <1>7, <1>8 DEF Next

\* For any route, fare and series of sales and returns: what a refund has paid is exactly the
\* shares of its segments that resold, and all of its maximum once all have (settleResold,
\* splitAcross).
THEOREM SpecRefundedIsSumOfShares == Spec => []RefundedIsSumOfShares
<1>1. Init => Amounts
  <2> SUFFICES ASSUME Init, NEW r \in Tickets
               PROVE  refund[r].refunded = SumOfShares(refund[r].watched, SettledOf(r))
    BY DEF Amounts
  <2>1. refund[r].refunded = 0 /\ SettledOf(r) = {}
    BY DEF Init, SettledOf, Watched
  <2> QED BY <2>1, SumOfNone
<1>2. IInv /\ Amounts => RefundedIsSumOfShares
  <2> SUFFICES ASSUME IInv, Amounts, NEW r \in Tickets
               PROVE  /\ refund[r].refunded = Shares(r, SettledOf(r))
                      /\ refund[r].watched # {} /\ SettledOf(r) = Watched(r) =>
                           refund[r].refunded = Maximum
    BY DEF RefundedIsSumOfShares
  <2>1. refund[r].refunded = Shares(r, SettledOf(r))
    BY SharesAreSums DEF Amounts
  <2>2. refund[r].watched \subseteq Nat /\ IsFiniteSet(refund[r].watched)
    <3>1. IsFiniteSet(Segments) /\ Segments \subseteq Nat
      BY ReturnsAssumption, FS_Interval DEF Segments
    <3>2. refund[r].watched \in SUBSET Segments
      BY DEF IInv, TypeOK
    <3> QED BY <3>1, <3>2, FS_Subset
  <2>3. ASSUME refund[r].watched # {}, SettledOf(r) = Watched(r)
        PROVE  refund[r].refunded = Maximum
    <3>1. SumOfShares(refund[r].watched, Watched(r)) = Maximum
      BY <2>2, <2>3, SplitIsWhole DEF Watched
    <3> QED BY <2>3, <3>1 DEF Amounts
  <2> QED BY <2>1, <2>3
<1> QED BY <1>1, <1>2, StepAmounts, SpecIInv, PTL DEF Spec

=============================================================================
