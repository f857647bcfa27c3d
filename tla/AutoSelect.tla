------------------------------ MODULE AutoSelect ------------------------------
(***************************************************************************)
(* Choosing seats near one another (utils/autoSelect.js): pure functions   *)
(* of a set of seats.  Seats are numbered in the order bySeatOrder sorts   *)
(* them into.  Which of several equally close blocks comes first is left   *)
(* open.                                                                   *)
(***************************************************************************)
EXTENDS Integers, FiniteSets, FiniteSetsExt

CONSTANTS
  Seats,                  \* trip_seats
  CoachOf, RowOf, CellOf  \* where each one is; a cell is a seat, an aisle or a table

Before(s, S) == Cardinality({t \in S : t < s})
First(S, n) == {s \in S : Before(s, S) < n}

CoachGroups(S) == {{t \in S : CoachOf[t] = CoachOf[s]} : s \in S}
RowGroups(S) == {{t \in S : CoachOf[t] = CoachOf[s] /\ RowOf[t] = RowOf[s]} : s \in S}
\* The groups large enough give their first n.
FirstOfEach(groups, n) == {First(g, n) : g \in {h \in groups : Cardinality(h) >= n}}

\* Mistake: the last window is not looked at.
WindowsShort(S, n) ==
  {{s \in S : Before(s, S) \in i .. i + n - 1} : i \in 0 .. Cardinality(S) - n - 1}
\* n seats one after the other, from each seat that has enough behind it.
Windows(S, n) ==
  {{s \in S : Before(s, S) \in i .. i + n - 1} : i \in 0 .. Cardinality(S) - n}

\* The distance from the first to the last, in whatever where counts.
Span(where, S) == Max({where[t] - where[s] : s, t \in S})

\* No aisle or table between them: the seats of one row have different cells.
Consecutive(S) == Span(CellOf, S) = Cardinality(S) - 1

FindSideBySide(S, n) ==
  {w \in UNION {Windows(g, n) : g \in RowGroups(S)} : Consecutive(w)}

FindSameRow(S, n) == FirstOfEach(RowGroups(S), n)

\* The windows over the fewest rows, if those are few enough.
FindNearby(S, n, maxRowSpread) ==
  LET windows == UNION {Windows(g, n) : g \in CoachGroups(S)} IN
  {w \in windows : /\ Span(RowOf, w) <= maxRowSpread
                   /\ \A v \in windows : Span(RowOf, w) <= Span(RowOf, v)}

FindSameCoach(S, n) == FirstOfEach(CoachGroups(S), n)

(* RANK: 1 side by side, 2 in the same row, 3 within a row of each other,  *)
(* 4 in the same coach, 5 spread across the train.                         *)
Togetherness == 1 .. 5
SameRow == 2

\* Tried in this order; the first that finds a block wins.
Attempts(S, n) ==
  <<FindSideBySide(S, n), FindSameRow(S, n), FindNearby(S, n, 1), FindSameCoach(S, n),
    FirstOfEach({S}, n)>>

\* The best blocks, each with the togetherness it was found at.
BestBlocks(S, n) ==
  LET a == Attempts(S, n) IN
  UNION {{[seats |-> b, togetherness |-> k] : b \in a[k]} :
           k \in {j \in Togetherness : \A i \in 1 .. j - 1 : a[i] = {}}}

\* How close a set of seats happens to be, after the fact.
Describe(S) ==
  IF Cardinality(S) <= 1 THEN 1
  ELSE IF \E s, t \in S : CoachOf[s] # CoachOf[t] THEN 5
  ELSE IF \A s, t \in S : RowOf[s] = RowOf[t] THEN IF Consecutive(S) THEN 1 ELSE SameRow
  ELSE IF Span(RowOf, S) <= 1 THEN 3 ELSE 4
===============================================================================
