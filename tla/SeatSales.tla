------------------------------ MODULE SeatSales ------------------------------
(***************************************************************************)
(* Selling the seats of one departure: checkouts that hold seats, bookings *)
(* that turn a checkout into tickets, returns that give a ticket's seat    *)
(* back, checkouts that are released or expire, and operational blocks     *)
(* (holdService, bookingService, refundService and inventoryService over   *)
(* the table seat_segment_bookings).                                       *)
(*                                                                         *)
(* The table has UNIQUE(trip_seat_id, segment_index), so it is a function  *)
(* from (seat, segment) to the row's owner, or Free where there is no row. *)
(* A row's source (hold, ticket, block) is the kind of its owner.          *)
(*                                                                         *)
(* A transaction is one step when every row it decides on is locked before *)
(* it is read.  What the code reads before its transaction, or in it       *)
(* without a lock, is a step of its own, kept in a variable until the      *)
(* transaction commits: releasing, sweeping and seen; so is a decision the *)
(* clock can overtake (buying).  A row lock another transaction asks for is *)
(* a guard.  A transaction that is declined, loses a deadlock or dies with *)
(* its process leaves no trace but the end of the call (the Abort actions). *)
(***************************************************************************)
EXTENDS Integers, FiniteSets

CONSTANTS
  Seats,        \* trip_seats of the departure
  LastSegment,  \* segments are 0 .. LastSegment
  Holds,        \* ids of checkouts (seat_holds) that may be created
  Tickets,      \* ids of tickets that may be issued
  MaxSeats,     \* the setting booking.max_tickets_per_booking
  Free,         \* no row for this seat and segment
  Blocked       \* the owner of a row with source = block

ASSUME SalesAssumption ==
  /\ LastSegment \in Nat
  /\ MaxSeats \in Nat
  /\ Free # Blocked
  /\ {Free, Blocked} \intersect (Holds \union Tickets) = {}
  /\ Holds \intersect Tickets = {}

Segments == 0 .. LastSegment
Cells == Seats \X Segments

\* The segments of a journey are an unbroken, non-empty stretch of the route.
Journeys == {a .. b : a, b \in Segments} \ {{}}

HoldStatus == {"none", "active", "converted", "expired", "released"}
TicketStatus == {"none", "valid", "used", "refunded"}
BookingStatus == {"none", "confirmed", "refunded"}
HoldRecords == [status : HoldStatus, seats : SUBSET Seats, journey : SUBSET Segments]
TicketRecords == [status : TicketStatus, seat : Seats \union {Free},
                  journey : SUBSET Segments, hold : Holds \union {Free}]

VARIABLES
  rows,       \* the table seat_segment_bookings: cell -> owner
  hold,       \* the table seat_holds
  due,        \* the holds whose expires_at has passed
  buying,     \* checkouts a sale has locked and found live
  ticket,     \* the table tickets; ticket[t].hold is the checkout it came from
  booking,    \* the status of the booking a checkout became
  releasing,  \* calls of holdService.release that have read an active hold
  sweeping,   \* the list of due holds holdService.expireDue has read
  returning,  \* tickets some return has locked
  seen        \* per locked ticket: what its return's snapshot shows still valid

vars == <<rows, hold, due, buying, ticket, booking, releasing, sweeping, returning, seen>>
returnVars == <<returning, seen>>

CellsOf(S, journey) == S \X journey
RowsOf(o) == {c \in Cells : rows[c] = o}
Without(O) == [c \in Cells |-> IF rows[c] \in O THEN Free ELSE rows[c]]
TicketsOf(h) == {t \in Tickets : ticket[t].status # "none" /\ ticket[t].hold = h}
ValidTicketsOf(h) == {t \in TicketsOf(h) : ticket[t].status = "valid"}

Init ==
  /\ rows = [c \in Cells |-> Free]
  /\ hold = [h \in Holds |-> [status |-> "none", seats |-> {}, journey |-> {}]]
  /\ due = {}
  /\ buying = {}
  /\ ticket = [t \in Tickets |->
       [status |-> "none", seat |-> Free, journey |-> {}, hold |-> Free]]
  /\ booking = [h \in Holds |-> "none"]
  /\ releasing = {}
  /\ sweeping = {}
  /\ returning = {}
  /\ seen = [t \in Tickets |-> {}]

-----------------------------------------------------------------------------
(* Checkouts: holdService                                                  *)

\* Mistake: a checkout does not count as an occupation.
InsertsOverHolds(C) == \A c \in C : rows[c] \notin Tickets \union {Blocked}
\* The unique constraint: inserting a row fails where there is one already.
Inserts(C) == \A c \in C : rows[c] = Free

\* At least one seat and at most booking.max_tickets_per_booking of them.
SeatCountOK(S) == S # {} /\ Cardinality(S) <= MaxSeats

\* create: one transaction writes the hold and a row for each of its cells, or,
\* where one of them is taken, nothing.
CreateHold(h, S, journey) ==
  /\ hold[h].status = "none"
  /\ SeatCountOK(S)
  /\ Inserts(CellsOf(S, journey))
  /\ rows' = [c \in Cells |-> IF c \in CellsOf(S, journey) THEN h ELSE rows[c]]
  /\ hold' = [hold EXCEPT ![h] = [status |-> "active", seats |-> S, journey |-> journey]]
  /\ UNCHANGED <<due, buying, ticket, booking, releasing, sweeping, returnVars>>

\* The clock passes the hold's expires_at.
PassExpiry(h) ==
  /\ hold[h].status = "active" /\ h \notin due
  /\ due' = due \union {h}
  /\ UNCHANGED <<rows, hold, buying, ticket, booking, releasing, sweeping, returnVars>>

\* release reads the hold without a lock and goes on only if it is active.
ReleaseRead(h) ==
  /\ hold[h].status = "active" /\ h \notin releasing
  /\ releasing' = releasing \union {h}
  /\ UNCHANGED <<rows, hold, due, buying, ticket, booking, sweeping, returnVars>>

\* Its transaction deletes the rows the hold still has and writes the status,
\* whatever the status has become since.  It waits for a sale's row lock.
ReleaseCommit(h) ==
  /\ h \in releasing /\ h \notin buying
  /\ rows' = Without({h})
  /\ hold' = [hold EXCEPT ![h].status = "released"]
  /\ releasing' = releasing \ {h}
  /\ UNCHANGED <<due, buying, ticket, booking, sweeping, returnVars>>

ReleaseAbort(h) ==
  /\ h \in releasing
  /\ releasing' = releasing \ {h}
  /\ UNCHANGED <<rows, hold, due, buying, ticket, booking, sweeping, returnVars>>

\* expireDue, the job of every minute, reads the active holds that are due.
ExpireRead ==
  LET found == {h \in due : hold[h].status = "active"}
  IN /\ sweeping = {} /\ found # {}
     /\ sweeping' = found
     /\ UNCHANGED <<rows, hold, due, buying, ticket, booking, releasing, returnVars>>

\* Mistake: the rows stay.
ExpireCommitFlagOnly ==
  /\ sweeping # {} /\ sweeping \intersect buying = {}
  /\ hold' = [h \in Holds |->
       IF h \in sweeping THEN [hold[h] EXCEPT !.status = "expired"] ELSE hold[h]]
  /\ sweeping' = {}
  /\ UNCHANGED <<rows, due, buying, ticket, booking, releasing, returnVars>>

\* Its transaction deletes their rows and marks every one of them expired.
ExpireCommit ==
  /\ sweeping # {} /\ sweeping \intersect buying = {}
  /\ rows' = Without(sweeping)
  /\ hold' = [h \in Holds |->
       IF h \in sweeping THEN [hold[h] EXCEPT !.status = "expired"] ELSE hold[h]]
  /\ sweeping' = {}
  /\ UNCHANGED <<due, buying, ticket, booking, releasing, returnVars>>

ExpireAbort ==
  /\ sweeping # {}
  /\ sweeping' = {}
  /\ UNCHANGED <<rows, hold, due, buying, ticket, booking, releasing, returnVars>>

-----------------------------------------------------------------------------
(* Bookings: bookingService.create                                         *)

\* create locks the hold and reads it again: it may have lapsed or been
\* released between pricing and paying.
BookBegin(h) ==
  /\ hold[h].status = "active" /\ h \notin due /\ h \notin buying
  /\ buying' = buying \union {h}
  /\ UNCHANGED <<rows, hold, due, ticket, booking, releasing, sweeping, returnVars>>

\* Mistake: every row of the seat.
ConvertsWholeSeat(h, s) == {c \in Cells : c[1] = s}
\* The rows one ticket takes over: those the hold has on the ticket's seat.
Converts(h, s) == {c \in Cells : rows[c] = h /\ c[1] = s}

\* One ticket for each seat of the hold, each with its own number.
Issues(h) == {issue \in [hold[h].seats -> {t \in Tickets : ticket[t].status = "none"}] :
                \A s, r \in hold[h].seats : issue[s] = issue[r] => s = r}

\* Once the payment has gone through, however long that took.  The rows are
\* converted, never freed and taken again; a seat whose rows are gone stops the
\* sale.
BookCommit(h, issue) ==
  /\ h \in buying
  /\ \A s \in hold[h].seats : Converts(h, s) # {}
  /\ rows' = [c \in Cells |->
       IF \E s \in hold[h].seats : c \in Converts(h, s)
       THEN issue[CHOOSE s \in hold[h].seats : c \in Converts(h, s)] ELSE rows[c]]
  /\ ticket' = [t \in Tickets |->
       IF \E s \in hold[h].seats : issue[s] = t
       THEN [status |-> "valid", seat |-> CHOOSE s \in hold[h].seats : issue[s] = t,
             journey |-> hold[h].journey, hold |-> h]
       ELSE ticket[t]]
  /\ booking' = [booking EXCEPT ![h] = "confirmed"]
  /\ hold' = [hold EXCEPT ![h].status = "converted"]
  /\ buying' = buying \ {h}
  /\ UNCHANGED <<due, releasing, sweeping, returnVars>>

\* The payment is declined, or the transaction is lost.
BookAbort(h) ==
  /\ h \in buying
  /\ buying' = buying \ {h}
  /\ UNCHANGED <<rows, hold, due, ticket, booking, releasing, sweeping, returnVars>>

-----------------------------------------------------------------------------
(* Returns: refundService.request and issueForCancellation                 *)

\* Both lock the ticket, require it to be valid, and read the booking's other
\* tickets without locking them, from the snapshot the transaction took.
ReturnBegin(t) ==
  /\ ticket[t].status = "valid" /\ t \notin returning
  /\ returning' = returning \union {t}
  /\ seen' = [seen EXCEPT ![t] = ValidTicketsOf(ticket[t].hold) \ {t}]
  /\ UNCHANGED <<rows, hold, due, buying, ticket, booking, releasing, sweeping>>

\* Mistake: any return closes the booking.
ClosesBookingEagerly(t) == TRUE
\* closeBookingIfEmpty: the booking is refunded with its last valid ticket.
ClosesBooking(t) == seen[t] = {}

\* The ticket's rows go, the ticket is refunded, and the booking perhaps too.
ReturnCommit(t) ==
  LET h == ticket[t].hold
  IN /\ t \in returning
     /\ rows' = Without({t})
     /\ ticket' = [ticket EXCEPT ![t].status = "refunded"]
     /\ booking' = IF ClosesBooking(t) THEN [booking EXCEPT ![h] = "refunded"] ELSE booking
     /\ returning' = returning \ {t}
     /\ seen' = [seen EXCEPT ![t] = {}]
     /\ UNCHANGED <<hold, due, buying, releasing, sweeping>>

ReturnAbort(t) ==
  /\ t \in returning
  /\ returning' = returning \ {t}
  /\ seen' = [seen EXCEPT ![t] = {}]
  /\ UNCHANGED <<rows, hold, due, buying, ticket, booking, releasing, sweeping>>

\* verificationService.verify: a checker marks the ticket used, under the same
\* row lock a return takes.
Use(t) ==
  /\ ticket[t].status = "valid" /\ t \notin returning
  /\ ticket' = [ticket EXCEPT ![t].status = "used"]
  /\ UNCHANGED <<rows, hold, due, buying, booking, releasing, sweeping, returnVars>>

-----------------------------------------------------------------------------
(* Operational blocks: inventoryService.blockSeat and unblockSeat          *)

Block(s, journey) ==
  /\ Inserts(CellsOf({s}, journey))
  /\ rows' = [c \in Cells |-> IF c \in CellsOf({s}, journey) THEN Blocked ELSE rows[c]]
  /\ UNCHANGED <<hold, due, buying, ticket, booking, releasing, sweeping, returnVars>>

\* Mistake: rows of any source go.
LiftedWhateverItsSource(s) == {c \in CellsOf({s}, Segments) : rows[c] # Free}
\* Only the rows with source = block go: a sold seat is never freed here.
Lifted(s) == {c \in CellsOf({s}, Segments) : rows[c] = Blocked}

Unblock(s) ==
  /\ Lifted(s) # {}
  /\ rows' = [c \in Cells |-> IF c \in Lifted(s) THEN Free ELSE rows[c]]
  /\ UNCHANGED <<hold, due, buying, ticket, booking, releasing, sweeping, returnVars>>

-----------------------------------------------------------------------------
Next ==
  \/ \E h \in Holds, S \in SUBSET Seats, journey \in Journeys : CreateHold(h, S, journey)
  \/ \E h \in Holds : PassExpiry(h)
  \/ \E h \in Holds : ReleaseRead(h)
  \/ \E h \in Holds : ReleaseCommit(h)
  \/ \E h \in Holds : ReleaseAbort(h)
  \/ ExpireRead
  \/ ExpireCommit
  \/ ExpireAbort
  \/ \E h \in Holds : BookBegin(h)
  \/ \E h \in Holds : \E issue \in Issues(h) : BookCommit(h, issue)
  \/ \E h \in Holds : BookAbort(h)
  \/ \E t \in Tickets : ReturnBegin(t)
  \/ \E t \in Tickets : ReturnCommit(t)
  \/ \E t \in Tickets : ReturnAbort(t)
  \/ \E t \in Tickets : Use(t)
  \/ \E s \in Seats, journey \in Journeys : Block(s, journey)
  \/ \E s \in Seats : Unblock(s)

Spec == Init /\ [][Next]_vars

\* hold.expire runs every minute, so a due checkout is read by some pass; a
\* pass that fails is followed by others, and one of them commits.  A sale ends:
\* the gateway answers or the call times out.
BookEnd(h) == (\E issue \in Issues(h) : BookCommit(h, issue)) \/ BookAbort(h)
Fairness ==
  /\ WF_vars(ExpireRead)
  /\ SF_vars(ExpireCommit)
  /\ \A h \in Holds : WF_vars(BookEnd(h))
FairSpec == Spec /\ Fairness

-----------------------------------------------------------------------------
(* Properties                                                              *)

\* Every table row has its type, and a checkout that exists has at least one
\* seat and at most as many as the setting allows (holdService.create).
TypeOK ==
  /\ rows \in [Cells -> Holds \union Tickets \union {Free, Blocked}]
  /\ hold \in [Holds -> HoldRecords]
  /\ \A h \in Holds : /\ hold[h].status = "none" <=> hold[h].seats = {}
                      /\ Cardinality(hold[h].seats) <= MaxSeats
  /\ ticket \in [Tickets -> TicketRecords]
  /\ booking \in [Holds -> BookingStatus]
  /\ due \subseteq Holds /\ buying \subseteq Holds
  /\ releasing \subseteq Holds /\ sweeping \subseteq Holds
  /\ returning \subseteq Tickets
  /\ seen \in [Tickets -> SUBSET Tickets]

Travels(t) == ticket[t].status \in {"valid", "used"}

\* The inventory and the records agree: an active checkout has exactly the rows
\* of its seats over its journey, a ticket that can be or was travelled on has
\* exactly those of its seat, and nothing else has any.  Stale releases and
\* sweeps, conversions and returns all keep it so.
HoldRows ==
  \A h \in Holds : RowsOf(h) =
    IF hold[h].status = "active" THEN CellsOf(hold[h].seats, hold[h].journey) ELSE {}
TicketRows ==
  \A t \in Tickets : RowsOf(t) =
    IF Travels(t) THEN CellsOf({ticket[t].seat}, ticket[t].journey) ELSE {}
RowsMatchRecords == HoldRows /\ TicketRows

\* Two passengers never share a seat over any segment, whatever raced with the
\* sale (the unique constraint and the conversion in bookingService.create).
NoOversell ==
  \A t, u \in Tickets :
    t # u /\ Travels(t) /\ Travels(u) /\ ticket[t].seat = ticket[u].seat
      => ticket[t].journey \intersect ticket[u].journey = {}

\* closeBookingIfEmpty errs on one side only: although it counts tickets in a
\* snapshot that may be out of date, a booking marked refunded has no ticket
\* left that someone can travel on.
RefundedBookingIsEmpty ==
  \A h \in Holds : booking[h] = "refunded" => ValidTicketsOf(h) = {}

\* The seat table implements the ledger: seats are taken free, sold by direct
\* handover from the checkout that holds them, and given back whole.
Ledger == INSTANCE SeatLedger WITH Checkouts <- Holds, owner <- rows
ImplementsLedger == Ledger!Spec

\* An abandoned checkout does not take its seats out of sale for ever: once it
\* is past its expiry, holdService.expireDue (or a release) frees its rows.
AbandonedSeatsReturn ==
  \A h \in Holds : h \in due /\ hold[h].status = "active" ~> RowsOf(h) = {}

\* What the code's tests say and concurrent calls refute.
\*
\* phase5.js:282, "the hold is marked converted": once its seats are sold a
\* checkout stays converted.  A release or a sweep that read it as active before
\* the sale committed overwrites the status.
ConvertedStays ==
  [][\A h \in Holds : hold[h].status = "converted" => hold'[h].status = "converted"]_vars

\* phase6.js:177, "a booking with no tickets left is itself refunded".  Two
\* tickets of one booking returned at once each see the other as still valid.
EmptyBookingIsRefunded ==
  \A h \in Holds :
    /\ TicketsOf(h) # {}
    /\ \A t \in TicketsOf(h) : ticket[t].status = "refunded" /\ t \notin returning
    => booking[h] = "refunded"
=============================================================================
