----------------------------- MODULE SeatLedger -----------------------------
(***************************************************************************)
(* What the seat inventory promises, and nothing about how.                *)
(*                                                                         *)
(* A cell is one seat over one segment of route.  Each cell is free, or    *)
(* out of sale, or has one owner: a checkout or a ticket.  A checkout may  *)
(* only take free cells, a ticket may only take over the cells a checkout  *)
(* holds (so a seat being paid for is never up for grabs in between), and  *)
(* an owner gives its cells back all at once.                              *)
(***************************************************************************)
CONSTANTS Cells, Checkouts, Tickets, Free, Blocked

VARIABLE owner

OwnedBy(o) == {c \in Cells : owner[c] = o}

Init == owner = [c \in Cells |-> Free]

\* A checkout or an operational block takes cells, all of them free.
Take(o, C) ==
  /\ C # {}
  /\ \A c \in C : owner[c] = Free
  /\ owner' = [c \in Cells |-> IF c \in C THEN o ELSE owner[c]]

\* A checkout's cells go straight to tickets, with no other cell touched.
Sell(h) ==
  /\ OwnedBy(h) # {}
  /\ \A c \in OwnedBy(h) : owner'[c] \in Tickets /\ OwnedBy(owner'[c]) = {}
  /\ owner' = [c \in Cells |-> IF c \in OwnedBy(h) THEN owner'[c] ELSE owner[c]]

\* Some owners give back everything they have: a set, because the expiry
\* sweep frees many checkouts in one transaction.
GiveBack(O) ==
  owner' = [c \in Cells |-> IF owner[c] \in O THEN Free ELSE owner[c]]

\* An operator lifts the blocks of some cells; nobody else's cell moves.
Unblock(C) ==
  /\ \A c \in C : owner[c] = Blocked
  /\ owner' = [c \in Cells |-> IF c \in C THEN Free ELSE owner[c]]

Next ==
  \/ \E o \in Checkouts \union {Blocked}, C \in SUBSET Cells : Take(o, C)
  \/ \E h \in Checkouts : Sell(h)
  \/ \E O \in SUBSET (Checkouts \union Tickets) : GiveBack(O)
  \/ \E C \in SUBSET Cells : Unblock(C)

Spec == Init /\ [][Next]_owner
=============================================================================
