-------------------------- MODULE SeatSales_proofs --------------------------
(***************************************************************************)
(* Proofs about SeatSales for every set of seats, checkouts and tickets.   *)
(*                                                                         *)
(* RowsMatchRecords is inductive once it is known which calls can be under *)
(* way (UnderWay).  NoOversell then follows because a cell has one row.    *)
(***************************************************************************)
EXTENDS SeatSales, FiniteSetTheorems, TLAPS

\* A release or sweep under way read an active checkout, so one that exists; a
\* sale's lock keeps the checkout it found live active until the sale ends.
UnderWay ==
  /\ \A h \in releasing \union sweeping : hold[h].status # "none"
  /\ \A h \in buying : hold[h].status = "active"

IInv == TypeOK /\ HoldRows /\ TicketRows /\ UnderWay

LEMMA InitIInv == Init => IInv
<1> SUFFICES ASSUME Init PROVE IInv
  OBVIOUS
<1> USE SalesAssumption
<1>1. TypeOK
  <2>1. Cardinality({}) <= MaxSeats
    BY FS_EmptySet
  <2>2. \A h \in Holds : hold[h] = [status |-> "none", seats |-> {}, journey |-> {}]
    BY DEF Init
  <2>3. \A h \in Holds : /\ hold[h].status = "none" <=> hold[h].seats = {}
                         /\ Cardinality(hold[h].seats) <= MaxSeats
    BY <2>1, <2>2
  <2>4. hold \in [Holds -> HoldRecords]
    BY DEF Init, HoldRecords, HoldStatus
  <2> QED BY <2>3, <2>4 DEF Init, TypeOK, TicketRecords, TicketStatus, BookingStatus
<1>2. HoldRows
  BY DEF Init, HoldRows, RowsOf
<1>3. TicketRows
  BY DEF Init, TicketRows, RowsOf, Travels
<1>4. UnderWay
  BY DEF Init, UnderWay
<1> QED BY <1>1, <1>2, <1>3, <1>4 DEF IInv

\* Freeing the rows of a set of owners leaves every other owner's rows alone.
LEMMA WithoutRows ==
  ASSUME NEW O, NEW o, o # Free, rows' = Without(O)
  PROVE  RowsOf(o)' = IF o \in O THEN {} ELSE RowsOf(o)
BY SalesAssumption DEF RowsOf, Without

LEMMA CreateHoldStep ==
  ASSUME IInv, NEW h \in Holds, NEW S \in SUBSET Seats, NEW j \in Journeys,
         CreateHold(h, S, j)
  PROVE  IInv'
<1> USE SalesAssumption DEF returnVars, IInv, CreateHold
<1>0. CellsOf(S, j) \subseteq Cells /\ j \in SUBSET Segments
  BY DEF CellsOf, Cells, Journeys, Segments
<1>1. TypeOK'
  BY <1>0 DEF TypeOK, HoldRecords, HoldStatus, SeatCountOK
<1>2. \A o : o # h /\ o # Free => RowsOf(o)' = RowsOf(o)
  BY <1>0 DEF RowsOf, Inserts
<1>3. RowsOf(h) = {} /\ RowsOf(h)' = CellsOf(S, j)
  <2>1. RowsOf(h) = {}
    BY DEF HoldRows
  <2> QED BY <2>1, <1>0 DEF RowsOf
<1>4. HoldRows'
  <2> SUFFICES ASSUME NEW g \in Holds
               PROVE  RowsOf(g)' = IF hold'[g].status = "active"
                                   THEN CellsOf(hold'[g].seats, hold'[g].journey) ELSE {}
    BY DEF HoldRows, CellsOf, RowsOf
  <2>1. CASE g = h
    BY <2>1, <1>3 DEF TypeOK
  <2>2. CASE g # h
    BY <2>2, <1>2 DEF HoldRows, TypeOK
  <2> QED BY <2>1, <2>2
<1>5. TicketRows'
  <2> SUFFICES ASSUME NEW t \in Tickets
               PROVE  RowsOf(t)' = IF Travels(t)
                                   THEN CellsOf({ticket[t].seat}, ticket[t].journey) ELSE {}
    BY DEF TicketRows, Travels, CellsOf
  <2>1. t # h /\ t # Free
    OBVIOUS
  <2> QED BY <2>1, <1>2 DEF TicketRows
<1>6. UnderWay'
  BY DEF UnderWay, TypeOK
<1> QED BY <1>1, <1>4, <1>5, <1>6

\* Freeing checkouts' rows and giving them a status that is not active: what a
\* release and a sweep both do.
LEMMA FreeHoldsStep ==
  ASSUME IInv, NEW H \in SUBSET Holds, NEW end \in {"expired", "released"},
         \A h \in H : hold[h].status # "none",
         rows' = Without(H),
         hold' = [h \in Holds |->
           IF h \in H THEN [hold[h] EXCEPT !.status = end] ELSE hold[h]],
         releasing' \subseteq releasing, sweeping' \subseteq sweeping,
         H \intersect buying = {},
         UNCHANGED <<due, buying, ticket, booking, returning, seen>>
  PROVE  IInv'
<1> USE SalesAssumption DEF IInv
<1>1. \A o : o # Free => RowsOf(o)' = IF o \in H THEN {} ELSE RowsOf(o)
  BY WithoutRows
<1>2. TypeOK'
  <2>1. rows' \in [Cells -> Holds \union Tickets \union {Free, Blocked}]
    BY DEF Without, TypeOK
  <2>2. hold' \in [Holds -> HoldRecords]
    BY DEF TypeOK, HoldRecords, HoldStatus
  <2>3. \A h \in Holds : /\ hold'[h].status = "none" <=> hold'[h].seats = {}
                         /\ Cardinality(hold'[h].seats) <= MaxSeats
    BY DEF TypeOK
  <2> QED BY <2>1, <2>2, <2>3 DEF TypeOK
<1>3. HoldRows'
  <2> SUFFICES ASSUME NEW g \in Holds
               PROVE  RowsOf(g)' = IF hold'[g].status = "active"
                                   THEN CellsOf(hold'[g].seats, hold'[g].journey) ELSE {}
    BY DEF HoldRows, CellsOf
  <2>1. CASE g \in H
    BY <2>1, <1>1 DEF TypeOK, HoldRecords
  <2>2. CASE g \notin H
    BY <2>2, <1>1 DEF HoldRows
  <2> QED BY <2>1, <2>2
<1>4. TicketRows'
  <2> SUFFICES ASSUME NEW t \in Tickets
               PROVE  RowsOf(t)' = IF Travels(t)
                                   THEN CellsOf({ticket[t].seat}, ticket[t].journey) ELSE {}
    BY DEF TicketRows, Travels, CellsOf
  <2> QED BY <1>1 DEF TicketRows
<1>5. UnderWay'
  BY DEF UnderWay, TypeOK
<1> QED BY <1>2, <1>3, <1>4, <1>5

LEMMA ReleaseCommitStep ==
  ASSUME IInv, NEW h \in Holds, ReleaseCommit(h)
  PROVE  IInv'
<1>1. hold' = [g \in Holds |->
         IF g \in {h} THEN [hold[g] EXCEPT !.status = "released"] ELSE hold[g]]
  BY DEF returnVars, ReleaseCommit, IInv, TypeOK
<1>2. hold[h].status # "none"
  BY DEF returnVars, ReleaseCommit, IInv, UnderWay
<1> QED BY <1>1, <1>2, FreeHoldsStep DEF returnVars, ReleaseCommit

LEMMA ExpireCommitStep ==
  ASSUME IInv, ExpireCommit
  PROVE  IInv'
<1>1. sweeping \in SUBSET Holds /\ \A h \in sweeping : hold[h].status # "none"
  BY DEF IInv, TypeOK, UnderWay
<1> QED BY <1>1, FreeHoldsStep DEF returnVars, ExpireCommit

LEMMA BookStep ==
  ASSUME IInv, NEW h \in Holds, NEW issue \in Issues(h), BookCommit(h, issue)
  PROVE  IInv'
<1> USE SalesAssumption DEF returnVars, IInv, BookCommit
<1> DEFINE S == hold[h].seats
           j == hold[h].journey
<1>1. /\ hold[h].status = "active" /\ S \subseteq Seats /\ j \subseteq Segments
      /\ RowsOf(h) = S \X j
  BY DEF UnderWay, TypeOK, HoldRecords, HoldRows, CellsOf
<1>2. \A s \in S : /\ issue[s] \in Tickets /\ ticket[issue[s]].status = "none"
                    /\ \A r \in S : issue[s] = issue[r] => s = r
  BY DEF Issues
<1>3. \A s \in S : Converts(h, s) = {s} \X j
  BY <1>1 DEF Converts, RowsOf, Cells
<1>4. \A c \in Cells : rows'[c] = IF c \in S \X j THEN issue[c[1]] ELSE rows[c]
  <2> SUFFICES ASSUME NEW c \in Cells
               PROVE  rows'[c] = IF c \in S \X j THEN issue[c[1]] ELSE rows[c]
    OBVIOUS
  <2>1. CASE c \in S \X j
    <3>1. c[1] \in S /\ \A s \in S : c \in Converts(h, s) <=> s = c[1]
      BY <2>1, <1>3
    <3> QED BY <2>1, <3>1
  <2>2. CASE c \notin S \X j
    BY <2>2, <1>3
  <2> QED BY <2>1, <2>2
<1>5. \A t \in Tickets : ticket'[t] =
        IF \E s \in S : issue[s] = t
        THEN [status |-> "valid", seat |-> CHOOSE s \in S : issue[s] = t,
              journey |-> j, hold |-> h]
        ELSE ticket[t]
  OBVIOUS
<1>6. \A s \in S : ticket'[issue[s]] = [status |-> "valid", seat |-> s, journey |-> j, hold |-> h]
  <2> TAKE s \in S
  <2>1. s = CHOOSE r \in S : issue[r] = issue[s]
    BY <1>2
  <2> QED BY <2>1, <1>2, <1>5
<1>7. TypeOK'
  <2>1. rows' \in [Cells -> Holds \union Tickets \union {Free, Blocked}]
    <3>1. DOMAIN rows' = Cells /\ rows' = [c \in Cells |-> rows'[c]]
      OBVIOUS
    <3>2. \A c \in Cells : rows'[c] \in Holds \union Tickets \union {Free, Blocked}
      BY <1>4, <1>2 DEF TypeOK
    <3> QED BY <3>1, <3>2
  <2>2. ticket' \in [Tickets -> TicketRecords]
    <3>1. ticket' = [t \in Tickets |-> ticket'[t]]
      OBVIOUS
    <3>2. \A t \in Tickets : ticket'[t] \in
            TicketRecords
      BY <1>1, <1>5, <1>6 DEF TypeOK, TicketRecords, TicketStatus
    <3> QED BY <3>1, <3>2
  <2>3. hold' \in [Holds -> HoldRecords]
    BY DEF TypeOK, HoldRecords, HoldStatus
  <2>4. \A g \in Holds : /\ hold'[g].status = "none" <=> hold'[g].seats = {}
                         /\ Cardinality(hold'[g].seats) <= MaxSeats
    BY <1>1 DEF TypeOK
  <2>5. booking' \in [Holds -> BookingStatus]
    BY DEF TypeOK, BookingStatus
  <2> QED BY <2>1, <2>2, <2>3, <2>4, <2>5 DEF TypeOK
<1>8. HoldRows'
  <2> SUFFICES ASSUME NEW g \in Holds
               PROVE  RowsOf(g)' = IF hold'[g].status = "active"
                                   THEN CellsOf(hold'[g].seats, hold'[g].journey) ELSE {}
    BY DEF HoldRows, CellsOf
  <2>1. CASE g = h
    <3>1. RowsOf(h)' = {}
      BY <1>1, <1>2, <1>4 DEF RowsOf
    <3> QED BY <2>1, <3>1 DEF TypeOK
  <2>2. CASE g # h
    <3>1. RowsOf(g)' = RowsOf(g)
      BY <2>2, <1>1, <1>2, <1>4 DEF RowsOf
    <3> QED BY <2>2, <3>1 DEF HoldRows, TypeOK
  <2> QED BY <2>1, <2>2
<1>9. TicketRows'
  <2> SUFFICES ASSUME NEW t \in Tickets
               PROVE  RowsOf(t)' = IF ticket'[t].status \in {"valid", "used"}
                                   THEN {ticket'[t].seat} \X ticket'[t].journey ELSE {}
    BY DEF TicketRows, Travels, CellsOf
  <2>1. ASSUME NEW s \in S, t = issue[s]
        PROVE  RowsOf(t)' = {s} \X j
    <3>1. RowsOf(t) = {}
      BY <2>1, <1>2 DEF TicketRows, Travels
    <3>2. \A c \in S \X j : issue[c[1]] = t <=> c[1] = s
      BY <2>1, <1>2
    <3>3. S \X j \subseteq Cells
      BY <1>1 DEF Cells
    <3> QED BY <3>1, <3>2, <3>3, <1>4 DEF RowsOf
  <2>2. CASE \E s \in S : t = issue[s]
    BY <2>1, <2>2, <1>6
  <2>3. CASE ~ \E s \in S : t = issue[s]
    <3>1. RowsOf(t)' = RowsOf(t)
      BY <2>3, <1>1, <1>4 DEF RowsOf
    <3> QED BY <2>3, <3>1, <1>5 DEF TicketRows, Travels, CellsOf
  <2> QED BY <2>2, <2>3
<1>10. UnderWay'
  BY DEF UnderWay, TypeOK
<1> QED BY <1>7, <1>8, <1>9, <1>10

\* Changing the status of one ticket changes nothing else about any ticket.
LEMMA MarkedTicket ==
  ASSUME ticket \in [Tickets -> TicketRecords], NEW t \in Tickets,
         NEW end \in TicketStatus, ticket' = [ticket EXCEPT ![t].status = end]
  PROVE  /\ ticket' \in [Tickets -> TicketRecords]
         /\ \A u \in Tickets :
              ticket'[u] = IF u = t THEN [ticket[t] EXCEPT !.status = end] ELSE ticket[u]
<1>1. \A u \in Tickets :
        ticket'[u] = IF u = t THEN [ticket[t] EXCEPT !.status = end] ELSE ticket[u]
  OBVIOUS
<1>2. \A u \in Tickets : ticket'[u] \in TicketRecords
  BY <1>1 DEF TicketRecords
<1> QED BY <1>1, <1>2

\* A ticket is returned: its rows go and it is no longer one to travel on.
LEMMA ReturnCommitStep ==
  ASSUME IInv, NEW t \in Tickets, ReturnCommit(t)
  PROVE  IInv'
<1> USE SalesAssumption DEF IInv, ReturnCommit
<1>1. \A o : o # Free => RowsOf(o)' = IF o \in {t} THEN {} ELSE RowsOf(o)
  BY WithoutRows
<1>2. TypeOK'
  <2>1. rows' \in [Cells -> Holds \union Tickets \union {Free, Blocked}]
    BY DEF Without, TypeOK
  <2>2. ticket' \in [Tickets -> TicketRecords]
    BY MarkedTicket DEF TypeOK, TicketStatus
  <2>3. booking' \in [Holds -> BookingStatus]
    BY DEF TypeOK, BookingStatus
  <2> QED BY <2>1, <2>2, <2>3 DEF TypeOK
<1>3. HoldRows'
  <2> SUFFICES ASSUME NEW g \in Holds
               PROVE  RowsOf(g)' = IF hold[g].status = "active"
                                   THEN CellsOf(hold[g].seats, hold[g].journey) ELSE {}
    BY DEF HoldRows, CellsOf
  <2> QED BY <1>1 DEF HoldRows
<1>4. TicketRows'
  <2> SUFFICES ASSUME NEW u \in Tickets
               PROVE  RowsOf(u)' = IF ticket'[u].status \in {"valid", "used"}
                                   THEN CellsOf({ticket'[u].seat}, ticket'[u].journey) ELSE {}
    BY DEF TicketRows, Travels, CellsOf
  <2>1. CASE u = t
    BY <2>1, <1>1 DEF TypeOK
  <2>2. CASE u # t
    BY <2>2, <1>1 DEF TicketRows, Travels, TypeOK
  <2> QED BY <2>1, <2>2
<1>5. UnderWay'
  BY DEF UnderWay
<1> QED BY <1>2, <1>3, <1>4, <1>5

LEMMA UseStep ==
  ASSUME IInv, NEW t \in Tickets, Use(t)
  PROVE  IInv'
<1> USE SalesAssumption DEF returnVars, IInv, Use
<1>0. /\ ticket' \in [Tickets -> TicketRecords]
      /\ \A u \in Tickets :
           ticket'[u] = IF u = t THEN [ticket[t] EXCEPT !.status = "used"] ELSE ticket[u]
  BY MarkedTicket DEF TypeOK, TicketStatus
<1>1. TypeOK'
  BY <1>0 DEF TypeOK
<1>2. HoldRows'
  BY DEF HoldRows, RowsOf, CellsOf
<1>3. TicketRows'
  <2> SUFFICES ASSUME NEW u \in Tickets
               PROVE  RowsOf(u) = IF ticket'[u].status \in {"valid", "used"}
                                  THEN CellsOf({ticket'[u].seat}, ticket'[u].journey) ELSE {}
    BY DEF TicketRows, Travels, CellsOf, RowsOf
  <2>1. RowsOf(u) = IF Travels(u) THEN CellsOf({ticket[u].seat}, ticket[u].journey) ELSE {}
    BY DEF TicketRows
  <2>2. /\ ticket'[u].seat = ticket[u].seat /\ ticket'[u].journey = ticket[u].journey
        /\ ticket'[u].status \in {"valid", "used"} <=> Travels(u)
    BY <1>0 DEF Travels, TypeOK, TicketRecords
  <2> QED BY <2>1, <2>2
<1>4. UnderWay'
  BY DEF UnderWay
<1> QED BY <1>1, <1>2, <1>3, <1>4

\* Blocking and unblocking move only cells that are free or blocked.
LEMMA BlocksStep ==
  ASSUME IInv,
         \A o \in Holds \union Tickets : RowsOf(o)' = RowsOf(o),
         rows' \in [Cells -> Holds \union Tickets \union {Free, Blocked}],
         UNCHANGED <<hold, due, buying, ticket, booking, releasing, sweeping, returning, seen>>
  PROVE  IInv'
<1>1. TypeOK'
  BY DEF IInv, TypeOK
<1>2. HoldRows'
  <2> SUFFICES ASSUME NEW h \in Holds
               PROVE  RowsOf(h)' = IF hold[h].status = "active"
                                   THEN CellsOf(hold[h].seats, hold[h].journey) ELSE {}
    BY DEF HoldRows, CellsOf
  <2> QED BY DEF IInv, HoldRows
<1>3. TicketRows'
  <2> SUFFICES ASSUME NEW t \in Tickets
               PROVE  RowsOf(t)' = IF Travels(t)
                                   THEN CellsOf({ticket[t].seat}, ticket[t].journey) ELSE {}
    BY DEF TicketRows, Travels, CellsOf
  <2> QED BY DEF IInv, TicketRows
<1>4. UnderWay'
  BY DEF IInv, UnderWay
<1> QED BY <1>1, <1>2, <1>3, <1>4 DEF IInv

LEMMA BlockStep ==
  ASSUME IInv, NEW s \in Seats, NEW j \in Journeys, Block(s, j)
  PROVE  IInv'
<1>1. \A o \in Holds \union Tickets : RowsOf(o)' = RowsOf(o)
  BY SalesAssumption DEF returnVars, Block, Inserts, RowsOf, CellsOf, Cells, Journeys, Segments
<1>2. rows' \in [Cells -> Holds \union Tickets \union {Free, Blocked}]
  BY DEF returnVars, Block, IInv, TypeOK
<1> QED BY <1>1, <1>2, BlocksStep DEF returnVars, Block

LEMMA UnblockStep ==
  ASSUME IInv, NEW s \in Seats, Unblock(s)
  PROVE  IInv'
<1>1. \A o \in Holds \union Tickets : RowsOf(o)' = RowsOf(o)
  BY SalesAssumption DEF returnVars, Unblock, Lifted, RowsOf
<1>2. rows' \in [Cells -> Holds \union Tickets \union {Free, Blocked}]
  BY DEF returnVars, Unblock, IInv, TypeOK
<1> QED BY <1>1, <1>2, BlocksStep DEF returnVars, Unblock

\* A call that only reads, gives up or notes the time leaves the tables alone.
LEMMA QuietStep ==
  ASSUME IInv, UNCHANGED <<rows, hold, ticket, booking>>,
         due' \subseteq Holds, releasing' \subseteq Holds, sweeping' \subseteq Holds,
         \A h \in releasing' \union sweeping' : hold[h].status # "none",
         buying' \subseteq Holds, \A h \in buying' : hold[h].status = "active",
         returning' \subseteq Tickets, seen' \in [Tickets -> SUBSET Tickets]
  PROVE  IInv'
<1>1. TypeOK'
  BY DEF IInv, TypeOK
<1>2. HoldRows' /\ TicketRows'
  BY DEF IInv, HoldRows, TicketRows, RowsOf, CellsOf, Travels
<1>3. UnderWay'
  BY DEF UnderWay
<1> QED BY <1>1, <1>2, <1>3 DEF IInv

LEMMA NextIInv == IInv /\ [Next]_vars => IInv'
<1> SUFFICES ASSUME IInv, [Next]_vars PROVE IInv'
  OBVIOUS
<1>0. IInv /\ UNCHANGED vars => IInv'
  BY QuietStep DEF vars, returnVars, IInv, TypeOK, UnderWay
<1>1. ASSUME NEW h \in Holds, NEW S \in SUBSET Seats, NEW j \in Journeys, CreateHold(h, S, j)
      PROVE  IInv'
  BY <1>1, CreateHoldStep
<1>2. ASSUME NEW h \in Holds, PassExpiry(h) PROVE IInv'
  BY <1>2, QuietStep DEF returnVars, PassExpiry, IInv, TypeOK, UnderWay
<1>3. ASSUME NEW h \in Holds, ReleaseRead(h) PROVE IInv'
  BY <1>3, QuietStep DEF returnVars, ReleaseRead, IInv, TypeOK, UnderWay
<1>4. ASSUME NEW h \in Holds, ReleaseCommit(h) PROVE IInv'
  BY <1>4, ReleaseCommitStep
<1>5. ASSUME NEW h \in Holds, ReleaseAbort(h) PROVE IInv'
  BY <1>5, QuietStep DEF returnVars, ReleaseAbort, IInv, TypeOK, UnderWay
<1>6. CASE ExpireRead
  BY <1>6, QuietStep DEF returnVars, ExpireRead, IInv, TypeOK, UnderWay
<1>7. CASE ExpireCommit
  BY <1>7, ExpireCommitStep
<1>8. CASE ExpireAbort
  BY <1>8, QuietStep DEF returnVars, ExpireAbort, IInv, TypeOK, UnderWay
<1>9. ASSUME NEW h \in Holds, NEW issue \in Issues(h), BookCommit(h, issue) PROVE IInv'
  BY <1>9, BookStep
<1>10. ASSUME NEW h \in Holds, BookBegin(h) PROVE IInv'
  BY <1>10, QuietStep DEF returnVars, BookBegin, IInv, TypeOK, UnderWay
<1>11. ASSUME NEW h \in Holds, BookAbort(h) PROVE IInv'
  BY <1>11, QuietStep DEF returnVars, BookAbort, IInv, TypeOK, UnderWay
<1>12. ASSUME NEW t \in Tickets, ReturnBegin(t) PROVE IInv'
  <2>1. seen' \in [Tickets -> SUBSET Tickets]
    BY <1>12 DEF ReturnBegin, IInv, TypeOK, ValidTicketsOf, TicketsOf
  <2> QED BY <1>12, <2>1, QuietStep DEF ReturnBegin, IInv, TypeOK, UnderWay
<1>13. ASSUME NEW t \in Tickets, ReturnCommit(t) PROVE IInv'
  BY <1>13, ReturnCommitStep
<1>14. ASSUME NEW t \in Tickets, ReturnAbort(t) PROVE IInv'
  BY <1>14, QuietStep DEF ReturnAbort, IInv, TypeOK, UnderWay
<1>15. ASSUME NEW t \in Tickets, Use(t) PROVE IInv'
  BY <1>15, UseStep
<1>16. ASSUME NEW s \in Seats, NEW j \in Journeys, Block(s, j) PROVE IInv'
  BY <1>16, BlockStep
<1>17. ASSUME NEW s \in Seats, Unblock(s) PROVE IInv'
  BY <1>17, UnblockStep
<1> QED
  BY <1>0, <1>1, <1>2, <1>3, <1>4, <1>5, <1>6, <1>7, <1>8, <1>9, <1>10,
     <1>11, <1>12, <1>13, <1>14, <1>15, <1>16, <1>17 DEF Next

\* The strengthening holds in every reachable state.
THEOREM SpecIInv == Spec => []IInv
BY InitIInv, NextIInv, PTL DEF Spec

\* Every row keeps its type, whatever calls overlap (all of the services).
THEOREM SpecTypeOK == Spec => []TypeOK
<1>1. IInv => TypeOK
  BY DEF IInv
<1> QED BY <1>1, SpecIInv, PTL

\* Inventory and records agree in every reachable state, however releases,
\* sweeps, sales, returns and blocks overlap.
THEOREM SpecRowsMatchRecords == Spec => []RowsMatchRecords
<1>1. IInv => RowsMatchRecords
  BY DEF IInv, RowsMatchRecords
<1> QED BY <1>1, SpecIInv, PTL

\* No seat is ever sold twice over the same segment of the route.
THEOREM SpecNoOversell == Spec => []NoOversell
<1>1. IInv => NoOversell
  <2> SUFFICES ASSUME IInv, NEW t \in Tickets, NEW u \in Tickets, t # u,
                      Travels(t), Travels(u), ticket[t].seat = ticket[u].seat
               PROVE  ticket[t].journey \intersect ticket[u].journey = {}
    BY DEF NoOversell
  <2>1. /\ RowsOf(t) = CellsOf({ticket[t].seat}, ticket[t].journey)
        /\ RowsOf(u) = CellsOf({ticket[t].seat}, ticket[u].journey)
    BY DEF IInv, TicketRows
  <2>2. RowsOf(t) \intersect RowsOf(u) = {}
    BY DEF RowsOf
  <2>3. ASSUME NEW i \in ticket[t].journey \intersect ticket[u].journey PROVE FALSE
    <3>1. <<ticket[t].seat, i>> \in RowsOf(t) \intersect RowsOf(u)
      BY <2>1, <2>3 DEF CellsOf
    <3> QED BY <3>1, <2>2
  <2> QED BY <2>3
<1> QED BY <1>1, SpecIInv, PTL

-----------------------------------------------------------------------------
(* A refunded booking is empty, although its tickets are counted in a      *)
(* snapshot: the snapshot can only show too many.  No ticket of a booking  *)
(* is issued after the booking was made (Unsold), so what a return has     *)
(* seen still covers every valid ticket of its booking (SeenCovers).       *)

Unsold ==
  \A h \in Holds : hold[h].status \in {"none", "active"} =>
    TicketsOf(h) = {} /\ booking[h] # "refunded"
SeenCovers ==
  \A t \in returning : /\ ticket[t].status = "valid"
                       /\ ValidTicketsOf(ticket[t].hold) \subseteq seen[t] \union {t}
RInv == Unsold /\ SeenCovers /\ RefundedBookingIsEmpty

\* Every step that issues, returns and refunds nothing.
LEMMA NoTicketStep ==
  ASSUME RInv, UNCHANGED <<ticket, booking>>, returning' \subseteq returning,
         \A t \in returning' : seen'[t] = seen[t],
         \A h \in Holds : hold'[h].status \in {"none", "active"}
                            => hold[h].status \in {"none", "active"}
  PROVE  RInv'
BY DEF RInv, Unsold, SeenCovers, RefundedBookingIsEmpty, TicketsOf, ValidTicketsOf

LEMMA BookKeepsRInv ==
  ASSUME IInv, RInv, NEW h \in Holds, NEW issue \in Issues(h), BookCommit(h, issue)
  PROVE  RInv'
<1> USE DEF returnVars, IInv, RInv, BookCommit, TypeOK
<1>1. hold[h].status = "active" /\ TicketsOf(h) = {}
  BY DEF UnderWay, Unsold
<1>2. \A t \in Tickets : \/ /\ ticket[t].status = "none" 
                            /\ ticket'[t].hold = h /\ ticket'[t].status = "valid"
                         \/ ticket'[t] = ticket[t]
  BY DEF Issues
<1>3. \A g \in Holds \ {h} : /\ TicketsOf(g)' = TicketsOf(g)
                             /\ ValidTicketsOf(g)' = ValidTicketsOf(g)
                             /\ hold'[g] = hold[g] /\ booking'[g] = booking[g]
  BY <1>2 DEF TicketsOf, ValidTicketsOf
<1>4. hold'[h].status = "converted" /\ booking'[h] = "confirmed"
  OBVIOUS
<1>5. Unsold'
  BY <1>3, <1>4 DEF Unsold
<1>6. RefundedBookingIsEmpty'
  BY <1>3, <1>4 DEF RefundedBookingIsEmpty
<1>7. SeenCovers'
  <2> SUFFICES ASSUME NEW t \in returning
               PROVE  /\ ticket'[t].status = "valid"
                      /\ ValidTicketsOf(ticket[t].hold)' \subseteq seen[t] \union {t}
    BY DEF SeenCovers
  <2>1. /\ ticket[t].status = "valid" /\ ticket'[t] = ticket[t] /\ ticket[t].hold # h
        /\ ValidTicketsOf(ticket[t].hold) \subseteq seen[t] \union {t}
    BY <1>1, <1>2 DEF SeenCovers, TicketsOf
  <2>2. ValidTicketsOf(ticket[t].hold)' \subseteq ValidTicketsOf(ticket[t].hold)
    BY <2>1, <1>2 DEF ValidTicketsOf, TicketsOf
  <2> QED BY <2>1, <2>2
<1> QED BY <1>5, <1>6, <1>7

LEMMA ReturnBeginKeepsRInv ==
  ASSUME IInv, RInv, NEW t \in Tickets, ReturnBegin(t)
  PROVE  RInv'
BY DEF IInv, RInv, ReturnBegin, TypeOK, Unsold, SeenCovers, RefundedBookingIsEmpty,
       TicketsOf, ValidTicketsOf

\* A ticket leaves the valid ones of its booking, and no other ticket changes.
LEMMA MarkedKeepsRInv ==
  ASSUME IInv, RInv, NEW t \in Tickets, ticket[t].status = "valid",
         NEW end \in {"used", "refunded"}, ticket' = [ticket EXCEPT ![t].status = end],
         returning' = returning \ {t}, UNCHANGED hold,
         \A u \in returning' : seen'[u] = seen[u],
         \/ booking' = booking
         \/ /\ booking' = [booking EXCEPT ![ticket[t].hold] = "refunded"]
            /\ ValidTicketsOf(ticket[t].hold) \subseteq {t}
  PROVE  RInv'
<1> USE DEF IInv, RInv, TypeOK
<1>1. \A u \in Tickets : ticket'[u] = IF u = t THEN [ticket[t] EXCEPT !.status = end] ELSE ticket[u]
  BY MarkedTicket DEF TicketStatus
<1>2. \A h : TicketsOf(h)' = TicketsOf(h) /\ ValidTicketsOf(h)' = ValidTicketsOf(h) \ {t}
  BY <1>1 DEF TicketsOf, ValidTicketsOf, TicketRecords
<1>3. \A h \in Holds : booking'[h] # booking[h] => h = ticket[t].hold
  OBVIOUS
<1>4. Unsold'
  BY <1>2, <1>3 DEF Unsold, TicketsOf
<1>5. SeenCovers'
  BY <1>1, <1>2 DEF SeenCovers
<1>6. RefundedBookingIsEmpty'
  BY <1>2, <1>3 DEF RefundedBookingIsEmpty
<1> QED BY <1>4, <1>5, <1>6

LEMMA NextRInv == IInv /\ RInv /\ [Next]_vars => RInv'
<1> SUFFICES ASSUME IInv, RInv, [Next]_vars PROVE RInv'
  OBVIOUS
<1>0. CASE UNCHANGED vars
  BY <1>0, NoTicketStep DEF vars, returnVars
<1>1. ASSUME NEW h \in Holds, NEW S \in SUBSET Seats, NEW j \in Journeys, CreateHold(h, S, j)
      PROVE  RInv'
  BY <1>1, NoTicketStep DEF returnVars, CreateHold, IInv, TypeOK
<1>2. ASSUME NEW h \in Holds,
             PassExpiry(h) \/ ReleaseRead(h) \/ ReleaseAbort(h) \/ BookBegin(h) \/ BookAbort(h)
      PROVE  RInv'
  BY <1>2, NoTicketStep DEF returnVars, PassExpiry, ReleaseRead, ReleaseAbort, BookBegin, BookAbort
<1>3. ASSUME NEW h \in Holds, ReleaseCommit(h) PROVE RInv'
  BY <1>3, NoTicketStep DEF returnVars, ReleaseCommit, IInv, TypeOK
<1>4. CASE ExpireCommit
  BY <1>4, NoTicketStep DEF returnVars, ExpireCommit
<1>5. ASSUME NEW h \in Holds, NEW issue \in Issues(h), BookCommit(h, issue) PROVE RInv'
  BY <1>5, BookKeepsRInv
<1>6. ASSUME NEW t \in Tickets, ReturnBegin(t) PROVE RInv'
  BY <1>6, ReturnBeginKeepsRInv
<1>7. ASSUME NEW t \in Tickets, ReturnCommit(t) PROVE RInv'
  <2>1. ticket[t].status = "valid" /\ ValidTicketsOf(ticket[t].hold) \subseteq seen[t] \union {t}
    BY <1>7 DEF ReturnCommit, RInv, SeenCovers
  <2>2. \A u \in returning' : seen'[u] = seen[u]
    BY <1>7 DEF ReturnCommit, IInv, TypeOK
  <2> QED BY <1>7, <2>1, <2>2, MarkedKeepsRInv DEF ReturnCommit, ClosesBooking
<1>8. ASSUME NEW t \in Tickets, Use(t) PROVE RInv'
  <2>1. returning' = returning \ {t} /\ booking' = booking
    BY <1>8 DEF returnVars, Use
  <2> QED BY <1>8, <2>1, MarkedKeepsRInv DEF returnVars, Use
<1>9. ASSUME NEW t \in Tickets, ReturnAbort(t) PROVE RInv'
  BY <1>9, NoTicketStep DEF ReturnAbort
<1>10. ASSUME NEW s \in Seats, NEW j \in Journeys, Block(s, j) PROVE RInv'
  BY <1>10, NoTicketStep DEF returnVars, Block
<1>11. ASSUME NEW s \in Seats, Unblock(s) PROVE RInv'
  BY <1>11, NoTicketStep DEF returnVars, Unblock
<1>12. CASE ExpireRead \/ ExpireAbort
  BY <1>12, NoTicketStep DEF returnVars, ExpireRead, ExpireAbort
<1> QED
  BY <1>0, <1>1, <1>2, <1>3, <1>4, <1>5, <1>6, <1>7, <1>8, <1>9, <1>10, <1>11, <1>12 DEF Next

\* A booking marked refunded has no valid ticket left, although the return
\* that marked it counted the others in a snapshot (closeBookingIfEmpty).
THEOREM SpecRefundedBookingIsEmpty == Spec => []RefundedBookingIsEmpty
<1>1. Init => RInv
  BY DEF Init, RInv, Unsold, SeenCovers, RefundedBookingIsEmpty, TicketsOf, ValidTicketsOf
<1>2. RInv => RefundedBookingIsEmpty
  BY DEF RInv
<1> QED BY <1>1, <1>2, NextRInv, SpecIInv, PTL DEF Spec

-----------------------------------------------------------------------------
(* The seat table implements the ledger.                                   *)

LEMMA BookSells ==
  ASSUME IInv, NEW h \in Holds, NEW issue \in Issues(h), BookCommit(h, issue)
  PROVE  Ledger!Sell(h)
<1> USE SalesAssumption DEF IInv
<1> DEFINE S == hold[h].seats
           j == hold[h].journey
<1>1. /\ S \subseteq Seats /\ j \subseteq Segments /\ S # {}
      /\ RowsOf(h) = S \X j
  BY DEF BookCommit, UnderWay, TypeOK, HoldRecords, HoldRows, CellsOf
<1>2. \A s \in S : Converts(h, s) = {s} \X j
  BY <1>1 DEF Converts, RowsOf, Cells
<1>3. RowsOf(h) # {}
  BY <1>1, <1>2 DEF BookCommit
<1>4. \A c \in Cells : IF c \in RowsOf(h) THEN rows'[c] \in Tickets /\ RowsOf(rows'[c]) = {}
                                          ELSE rows'[c] = rows[c]
  <2> SUFFICES ASSUME NEW c \in Cells
               PROVE  IF c \in RowsOf(h) THEN rows'[c] \in Tickets /\ RowsOf(rows'[c]) = {}
                                         ELSE rows'[c] = rows[c]
    OBVIOUS
  <2>1. CASE c \in RowsOf(h)
    <3>1. c[1] \in S /\ \A s \in S : c \in Converts(h, s) <=> s = c[1]
      BY <2>1, <1>1, <1>2
    <3>2. rows'[c] = issue[c[1]]
      BY <3>1 DEF BookCommit
    <3>3. issue[c[1]] \in Tickets /\ ticket[issue[c[1]]].status = "none"
      BY <3>1 DEF Issues
    <3> QED BY <2>1, <3>2, <3>3 DEF TicketRows, Travels
  <2>2. CASE c \notin RowsOf(h)
    BY <2>2, <1>1, <1>2 DEF BookCommit
  <2> QED BY <2>1, <2>2
<1>5. rows' = [c \in Cells |-> IF c \in RowsOf(h) THEN rows'[c] ELSE rows[c]]
  BY <1>4 DEF BookCommit
<1> QED BY <1>3, <1>4, <1>5 DEF Ledger!Sell, Ledger!OwnedBy, RowsOf

LEMMA NonEmptyCells ==
  ASSUME NEW S, NEW j, S # {}, j # {}
  PROVE  CellsOf(S, j) # {}
<1>1. PICK s \in S, i \in j : TRUE
  OBVIOUS
<1>2. <<s, i>> \in CellsOf(S, j)
  BY DEF CellsOf
<1> QED BY <1>2

\* Whatever overlaps, the table only ever takes free cells, hands a checkout's
\* cells straight to new tickets, and frees an owner's cells all at once.
THEOREM SpecImplementsLedger == Spec => ImplementsLedger
<1>1. Init => Ledger!Init
  BY DEF Init, Ledger!Init
<1>2. IInv /\ [Next]_vars => [Ledger!Next]_rows
  <2> SUFFICES ASSUME IInv, Next, rows' # rows PROVE Ledger!Next
    BY DEF vars
  <2>1. ASSUME NEW h \in Holds, NEW S \in SUBSET Seats, NEW j \in Journeys, CreateHold(h, S, j)
        PROVE  Ledger!Next
    <3>1. CellsOf(S, j) \in SUBSET Cells /\ j # {}
      BY SalesAssumption DEF CellsOf, Cells, Journeys, Segments
    <3>2. CellsOf(S, j) # {}
      BY <2>1, <3>1, NonEmptyCells DEF CreateHold, SeatCountOK
    <3>3. Ledger!Take(h, CellsOf(S, j))
      BY <2>1, <3>2 DEF CreateHold, Inserts, Ledger!Take
    <3> QED BY <3>1, <3>3 DEF Ledger!Next
  <2>2. ASSUME NEW h \in Holds, ReleaseCommit(h) PROVE Ledger!Next
    <3>1. Ledger!GiveBack({h})
      BY <2>2 DEF ReleaseCommit, Without, Ledger!GiveBack
    <3> QED BY <3>1 DEF Ledger!Next
  <2>3. CASE ExpireCommit
    <3>1. Ledger!GiveBack(sweeping) /\ sweeping \in SUBSET (Holds \union Tickets)
      BY <2>3 DEF ExpireCommit, Without, Ledger!GiveBack, IInv, TypeOK
    <3> QED BY <3>1 DEF Ledger!Next
  <2>4. ASSUME NEW h \in Holds, NEW issue \in Issues(h), BookCommit(h, issue) PROVE Ledger!Next
    BY <2>4, BookSells DEF Ledger!Next
  <2>5. ASSUME NEW t \in Tickets, ReturnCommit(t) PROVE Ledger!Next
    <3>1. Ledger!GiveBack({t})
      BY <2>5 DEF ReturnCommit, Without, Ledger!GiveBack
    <3> QED BY <3>1 DEF Ledger!Next
  <2>6. ASSUME NEW s \in Seats, NEW j \in Journeys, Block(s, j) PROVE Ledger!Next
    <3>1. CellsOf({s}, j) \in SUBSET Cells /\ j # {}
      BY SalesAssumption DEF CellsOf, Cells, Journeys, Segments
    <3>2. CellsOf({s}, j) # {}
      BY <3>1, NonEmptyCells
    <3>3. Ledger!Take(Blocked, CellsOf({s}, j))
      BY <2>6, <3>2 DEF Block, Inserts, Ledger!Take
    <3> QED BY <3>1, <3>3 DEF Ledger!Next
  <2>7. ASSUME NEW s \in Seats, Unblock(s) PROVE Ledger!Next
    <3>1. Ledger!Unblock(Lifted(s)) /\ Lifted(s) \in SUBSET Cells
      BY <2>7 DEF Unblock, Lifted, CellsOf, Cells, Ledger!Unblock
    <3> QED BY <3>1 DEF Ledger!Next
  <2>8. CASE \/ ExpireRead \/ ExpireAbort
             \/ \E h \in Holds : \/ PassExpiry(h) \/ ReleaseRead(h) \/ ReleaseAbort(h)
                                 \/ BookBegin(h) \/ BookAbort(h)
             \/ \E t \in Tickets : ReturnBegin(t) \/ ReturnAbort(t) \/ Use(t)
    BY <2>8 DEF ExpireRead, ExpireAbort, PassExpiry, ReleaseRead, ReleaseAbort,
                BookBegin, BookAbort, ReturnBegin, ReturnAbort, Use
  <2> QED BY <2>1, <2>2, <2>3, <2>4, <2>5, <2>6, <2>7, <2>8 DEF Next
<1> QED BY <1>1, <1>2, SpecIInv, PTL DEF Spec, ImplementsLedger, Ledger!Spec
=============================================================================
