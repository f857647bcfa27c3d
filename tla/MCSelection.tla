----------------------------- MODULE MCSelection ------------------------------
(* Five seats in one coach and one in the next: three in row 1, the third  *)
(* across the aisle from the other two, one in row 3, one in row 4.        *)
EXTENDS Selection

Coach == [s \in Seats |-> IF s = 6 THEN 2 ELSE 1]
Row == [s \in Seats |-> CASE s \in {1, 2, 3, 6} -> 1 [] s = 4 -> 3 [] s = 5 -> 4]
Cell == [s \in Seats |-> CASE s = 2 -> 2 [] s = 3 -> 4 [] OTHER -> 1]
TwoRules == <<[pair |-> <<1, 3>>, quantity |-> 2], [pair |-> <<2, 3>>, quantity |-> 1]>>

Rows == [Seats -> {{}, Segments}] \union [Seats -> {{}, {0}}]
Asked(counts, wishes) ==
  {[from |-> p[1], to |-> p[2], count |-> n, wish |-> w, together |-> t, strict |-> s] :
     p \in Pairs, n \in counts, w \in wishes, t \in BOOLEAN, s \in BOOLEAN}
\* Any inventory and request with nobody else about, and an empty train with others about.
Calm == [row : Rows, moves : {0}, request : Asked(1 .. 3, {Seats, {1, 3, 6}, {4, 5}})]
Busy == [row : {[s \in Seats |-> {}]}, moves : {MaxMoves},
         request : {[from |-> 1, to |-> 2, count |-> 2, wish |-> Seats,
                     together |-> TRUE, strict |-> FALSE],
                    [from |-> 1, to |-> 3, count |-> 2, wish |-> {1, 3, 6},
                     together |-> FALSE, strict |-> TRUE]}]
AllScenes == Calm \union Busy
===============================================================================
