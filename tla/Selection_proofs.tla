--------------------------- MODULE Selection_proofs ---------------------------
(***************************************************************************)
(* Proofs about Selection, and Quotas in it, for any seats, route, rules,  *)
(* operators, bounds and scenes: the types hold; no reservation is left of *)
(* a rule that is gone; the rules never take what was placed by hand; what *)
(* is proposed is on offer, which rests on journeys overlapping when, and  *)
(* only when, they share the way from one stop to the next; and it is as   *)
(* close together as can be, and no less than was asked for unless that is *)
(* said.  The last two rest on the search itself: windows of n in the      *)
(* order of the seats miss no n seats that are closer (BestBlocksAre-      *)
(* Closest), by counting how many come before each seat.                   *)
(***************************************************************************)
EXTENDS Selection, FiniteSetTheorems, TLAPS

LEMMA ForgetType ==
  ASSUME NEW call \in Calls, NEW gone
  PROVE  Forget(call, gone) \in Calls
<1>1. CASE call.stage = "releasing"
  <2>1. call.seats \ gone \in SUBSET Seats
    BY DEF Calls
  <2>2. [call EXCEPT !.seats = call.seats \ gone] \in Calls
    BY <2>1 DEF Calls
  <2> QED BY <1>1, <2>2 DEF Forget
<1>2. CASE call.stage # "releasing"
  BY <1>2 DEF Forget
<1> QED BY <1>1, <1>2

LEMMA IdleType == Idle \in Calls
<1>1. {} \in SUBSET Seats /\ {} \in SUBSET RuleIds
  OBVIOUS
<1> QED BY <1>1 DEF Idle, Calls

LEMMA DoneType ==
  ASSUME operator \in [Operators -> Calls], NEW o, NEW gone
  PROVE  Done(o, gone) \in [Operators -> Calls]
<1>1. \A p \in Operators : Forget(operator[p], gone) \in Calls
  BY ForgetType
<1> QED BY <1>1, IdleType DEF Done

LEMMA ForgottenType ==
  ASSUME operator \in [Operators -> Calls], NEW gone
  PROVE  [o \in Operators |-> Forget(operator[o], gone)] \in [Operators -> Calls]
BY ForgetType

LEMMA ReleasedType ==
  ASSUME quota \in [Seats -> QuotaRows], NEW seats
  PROVE  Released(seats) \in [Seats -> QuotaRows]
<1>1. \A s \in Seats : [quota[s] EXCEPT !.state = "released"] \in QuotaRows
  BY DEF QuotaRows
<1> QED BY <1>1 DEF Released

LEMMA NoQuotaType == NoQuota \in QuotaRows
BY DEF NoQuota, QuotaRows

\* A claim is by one of the rules that were read.
LEMMA ClaimsType ==
  ASSUME NEW seats, NEW ids
  PROVE  Claims(seats, ids) \in [Seats -> ids \union {0}]
<1>1. \A s \in Seats : Claimants(s, seats, ids) \subseteq ids
  BY DEF Claimants
<1>2. \A s \in Seats : Claimants(s, seats, ids) # {} =>
        (CHOOSE k \in Claimants(s, seats, ids) : TRUE) \in Claimants(s, seats, ids)
  OBVIOUS
<1> QED BY <1>1, <1>2 DEF Claims

LEMMA RuleType ==
  ASSUME NEW r \in RuleIds
  PROVE  Rules[r].pair \in Pairs
<1> DEFINE R == [pair : Pairs, quantity : Nat]
<1>1. Rules \in Seq(R)
  BY QuotasAssumption
<1> HIDE DEF R
<1>2. Rules[r] \in R
  BY <1>1 DEF RuleIds
<1> QED BY <1>2 DEF R

LEMMA BeginType ==
  ASSUME QuotaTypeOK, NEW o, NEW call \in Calls, Begin(o, call)
  PROVE  QuotaTypeOK'
<1>1. moves' \in 0 .. MaxMoves
  BY QuotasAssumption DEF Begin, Move, QuotaTypeOK
<1> QED BY <1>1 DEF Begin, QuotaTypeOK

-----------------------------------------------------------------------------
LEMMA QuotaStep == QuotaTypeOK /\ QuotaNext => QuotaTypeOK'
<1> SUFFICES ASSUME QuotaTypeOK, QuotaNext PROVE QuotaTypeOK'
  OBVIOUS
<1> USE DEF QuotaTypeOK
<1>m. Move => moves' \in 0 .. MaxMoves
  BY QuotasAssumption DEF Move
<1>s. \A pair \in Pairs : SegmentsBetween(pair[1], pair[2]) \in SUBSET Segments
  BY QuotasAssumption DEF SegmentsBetween, Segments, Pairs, Stops
<1>1. ASSUME NEW s \in Seats, NEW pair \in Pairs, Take(s, pair) PROVE QuotaTypeOK'
  <2>1. row[s] \union SegmentsBetween(pair[1], pair[2]) \in SUBSET Segments
    BY <1>s
  <2>2. row' \in [Seats -> SUBSET Segments]
    BY <1>1, <2>1 DEF Take
  <2> QED BY <1>1, <1>m, <2>2 DEF Take
<1>2. ASSUME NEW s \in Seats, GiveBack(s) PROVE QuotaTypeOK'
  <2>1. {} \in SUBSET Segments
    OBVIOUS
  <2>2. row' \in [Seats -> SUBSET Segments]
    BY <1>2, <2>1 DEF GiveBack
  <2> QED BY <1>2, <1>m, <2>2 DEF GiveBack
<1>3. ASSUME NEW c \in CoachIds, CoachTurns(c) PROVE QuotaTypeOK'
  BY <1>3, <1>m DEF CoachTurns
<1>4. ASSUME NEW o \in Operators, NEW s \in Seats, NEW pair \in Pairs, SetRead(o, s, pair)
      PROVE  QuotaTypeOK'
  <2>1. {s} \in SUBSET Seats
    OBVIOUS
  <2>2. [Idle EXCEPT !.stage = "setting", !.seats = {s}, !.pair = pair] \in Calls
    BY IdleType, <2>1 DEF Calls
  <2> QED BY <1>4, <2>2, BeginType DEF SetRead
<1>5. ASSUME NEW o \in Operators, SetWrite(o) PROVE QuotaTypeOK'
  <2>1. [pair |-> operator[o].pair, state |-> "held", rule |-> 0] \in QuotaRows
    BY DEF QuotaRows, Calls
  <2>2. quota' \in [Seats -> QuotaRows]
    BY <1>5, <2>1 DEF SetWrite
  <2>3. operator' \in [Operators -> Calls]
    BY <1>5, DoneType DEF SetWrite
  <2> QED BY <1>5, <2>2, <2>3 DEF SetWrite
<1>6. ASSUME NEW s \in Seats, ClearSeatQuota(s) PROVE QuotaTypeOK'
  <2>1. quota' \in [Seats -> QuotaRows]
    BY <1>6, NoQuotaType DEF ClearSeatQuota
  <2>2. operator' \in [Operators -> Calls]
    BY <1>6, ForgottenType DEF ClearSeatQuota
  <2> QED BY <1>6, <1>m, <2>1, <2>2 DEF ClearSeatQuota
<1>7. ASSUME NEW o \in Operators, NEW replace \in BOOLEAN, MaterialiseRead(o, replace)
      PROVE  QuotaTypeOK'
  <2> DEFINE dropped == IF replace THEN RuleMade ELSE {}
             call == [Idle EXCEPT !.stage = "materialising", !.rules = rules,
                                  !.dropped = dropped,
                                  !.seats = SellableSeats \ (Reserved \ dropped)]
  <2>1. dropped \in SUBSET Seats
    BY DEF RuleMade
  <2>2. SellableSeats \ (Reserved \ dropped) \in SUBSET Seats
    BY DEF SellableSeats
  <2>3. call \in Calls
    BY IdleType, <2>1, <2>2 DEF Calls
  <2>4. Begin(o, call)
    BY <1>7 DEF MaterialiseRead
  <2> QED BY <2>3, <2>4, BeginType
<1>8. ASSUME NEW o \in Operators, MaterialiseWrite(o) PROVE QuotaTypeOK'
  <2> DEFINE claim == Claims(operator[o].seats, operator[o].rules)
  <2>1. operator[o].rules \subseteq RuleIds
    BY DEF Calls
  <2>2. claim \in [Seats -> operator[o].rules \union {0}]
    BY ClaimsType
  <2>3. quota' = [s \in Seats |->
                    IF claim[s] # 0
                    THEN [pair |-> Rules[claim[s]].pair, state |-> "held", rule |-> claim[s]]
                    ELSE IF s \in operator[o].dropped THEN NoQuota ELSE quota[s]]
    BY <1>8 DEF MaterialiseWrite
  <2> HIDE DEF claim
  <2>4. \A s \in Seats : claim[s] # 0 =>
          [pair |-> Rules[claim[s]].pair, state |-> "held", rule |-> claim[s]] \in QuotaRows
    BY <2>1, <2>2, RuleType DEF QuotaRows
  <2>5. quota' \in [Seats -> QuotaRows]
    BY <2>3, <2>4, NoQuotaType
  <2>6. operator' \in [Operators -> Calls]
    BY <1>8, DoneType DEF MaterialiseWrite
  <2> QED BY <1>8, <2>5, <2>6 DEF MaterialiseWrite
<1>9. ASSUME NEW r \in RuleIds, DeleteRule(r) PROVE QuotaTypeOK'
  <2>1. quota' \in [Seats -> QuotaRows]
    BY <1>9, NoQuotaType DEF DeleteRule
  <2>2. operator' \in [Operators -> Calls]
    BY <1>9, ForgottenType DEF DeleteRule
  <2> QED BY <1>9, <1>m, <2>1, <2>2 DEF DeleteRule
<1>10. ASSUME NEW s \in Seats, Lapse(s) PROVE QuotaTypeOK'
  <2>1. [quota[s] EXCEPT !.state = "due"] \in QuotaRows
    BY DEF QuotaRows
  <2>2. quota' \in [Seats -> QuotaRows]
    BY <1>10, <2>1 DEF Lapse
  <2> QED BY <1>10, <1>m, <2>2 DEF Lapse
<1>11. ASSUME NEW o \in Operators, ReleaseRead(o) PROVE QuotaTypeOK'
  <2>1. {s \in Seats : quota[s].state = "due"} \in SUBSET Seats
    OBVIOUS
  <2>2. [Idle EXCEPT !.stage = "releasing", !.seats = {s \in Seats : quota[s].state = "due"}]
          \in Calls
    BY IdleType, <2>1 DEF Calls
  <2> QED BY <1>11, <2>2, BeginType DEF ReleaseRead
<1>12. ASSUME NEW o \in Operators, ReleaseWrite(o) PROVE QuotaTypeOK'
  BY <1>12, ReleasedType, DoneType DEF ReleaseWrite
<1>13. CASE ReleaseTrip
  BY <1>13, <1>m, ReleasedType DEF ReleaseTrip
<1>14. ASSUME NEW o \in Operators, CallLost(o) PROVE QuotaTypeOK'
  BY <1>14, DoneType DEF CallLost
<1> QED BY <1>1, <1>2, <1>3, <1>4, <1>5, <1>6, <1>7, <1>8, <1>9, <1>10, <1>11, <1>12, <1>13,
           <1>14 DEF QuotaNext, Sales, Reserving

-----------------------------------------------------------------------------
(* What the chooser returns                                                *)

LEMMA FirstType ==
  ASSUME NEW S, NEW n
  PROVE  First(S, n) \subseteq S
BY DEF First

LEMMA GroupTypes ==
  ASSUME NEW S
  PROVE  /\ \A g \in CoachGroups(S) : g \subseteq S
         /\ \A g \in RowGroups(S) : g \subseteq S
BY DEF CoachGroups, RowGroups

LEMMA FirstOfEachType ==
  ASSUME NEW S, NEW groups, \A g \in groups : g \subseteq S, NEW n,
         NEW b \in FirstOfEach(groups, n)
  PROVE  b \subseteq S
<1>1. PICK g \in groups : b = First(g, n)
  BY DEF FirstOfEach
<1> QED BY <1>1, FirstType

LEMMA WindowType ==
  ASSUME NEW S, NEW groups, \A g \in groups : g \subseteq S, NEW n,
         NEW b \in UNION {Windows(g, n) : g \in groups}
  PROVE  b \subseteq S
<1>1. PICK g \in groups : b \in Windows(g, n)
  OBVIOUS
<1>2. b \subseteq g
  BY <1>1 DEF Windows
<1> QED BY <1>1, <1>2

-----------------------------------------------------------------------------
(* Places in order: the rank of a seat among a set of seats, and windows.  *)

\* The ranks are 0 to one less than the number of the elements, in their order.
Ranked(S) ==
  /\ Cardinality(S) \in Nat
  /\ \A s \in S : Before(s, S) \in Nat /\ Before(s, S) < Cardinality(S)
  /\ \A s \in S : \A t \in S : s < t <=> Before(s, S) < Before(t, S)
  /\ \A s \in S : \A t \in S : Before(s, S) = Before(t, S) => s = t
  /\ \A k \in 0 .. Cardinality(S) - 1 : \E s \in S : Before(s, S) = k

\* Any finite set of numbers is ranked.
LEMMA Ranks ==
  ASSUME NEW S, S \subseteq Nat, IsFiniteSet(S)
  PROVE  Ranked(S)
<1> DEFINE Below(s) == {t \in S : t < s}
<1>0. Cardinality(S) \in Nat
  BY FS_CardinalityType
<1>1. ASSUME NEW s \in S
      PROVE  /\ Below(s) \in SUBSET S /\ IsFiniteSet(Below(s))
             /\ Cardinality(Below(s)) \in Nat /\ Cardinality(Below(s)) < Cardinality(S)
  <2>1. Below(s) \in SUBSET S /\ s \notin Below(s)
    BY <1>1
  <2> HIDE DEF Below
  <2>2. /\ IsFiniteSet(Below(s)) /\ Cardinality(Below(s)) <= Cardinality(S)
        /\ Cardinality(S) = Cardinality(Below(s)) => S = Below(s)
    BY <2>1, FS_Subset
  <2>3. Cardinality(Below(s)) \in Nat
    BY <2>2, FS_CardinalityType
  <2> QED BY <1>0, <2>1, <2>2, <2>3
<1>2. ASSUME NEW s \in S, NEW t \in S, s < t
      PROVE  Cardinality(Below(s)) < Cardinality(Below(t))
  <2>0. s \in Nat /\ t \in Nat /\ \A r \in S : r \in Nat
    OBVIOUS
  <2>a. (\A r \in S : r < s => r < t) /\ ~(s < s)
    BY <1>2, <2>0
  <2>1. Below(s) \subseteq Below(t) /\ s \in Below(t) /\ s \notin Below(s)
    BY <1>2, <2>a
  <2> HIDE DEF Below
  <2>2. /\ Cardinality(Below(s)) <= Cardinality(Below(t))
        /\ Cardinality(Below(t)) = Cardinality(Below(s)) => Below(t) = Below(s)
    BY <1>1, <2>1, FS_Subset
  <2>3. Cardinality(Below(s)) \in Nat /\ Cardinality(Below(t)) \in Nat
    BY <1>1
  <2> QED BY <2>1, <2>2, <2>3
<1>3. \A s : Before(s, S) = Cardinality(Below(s))
  BY DEF Before
<1>4. \A s \in S : Before(s, S) \in Nat /\ Before(s, S) < Cardinality(S)
  <2> HIDE DEF Below
  <2> QED BY <1>1, <1>3
<1>5. \A s \in S : \A t \in S : s < t => Before(s, S) < Before(t, S)
  <2> HIDE DEF Below
  <2> QED BY <1>2, <1>3
<1> HIDE DEF Below
<1>6. \A s \in S : \A t \in S : s < t \/ s = t \/ t < s
  OBVIOUS
<1>7. /\ \A s \in S : \A t \in S : s < t <=> Before(s, S) < Before(t, S)
      /\ \A s \in S : \A t \in S : Before(s, S) = Before(t, S) => s = t
  BY <1>4, <1>5, <1>6
<1>8. \A k \in 0 .. Cardinality(S) - 1 : \E s \in S : Before(s, S) = k
  <2> DEFINE f == [s \in S |-> Before(s, S)]
             R == 0 .. Cardinality(S) - 1
  <2>1. \A s \in S : Before(s, S) \in R
    BY <1>0, <1>4
  <2>2. f \in Injection(S, R)
    BY <1>7, <2>1 DEF Injection, IsInjective
  <2>3. IsFiniteSet(R) /\ Cardinality(R) = Cardinality(S)
    <3> DEFINE c == Cardinality(S)
    <3>1. c - 1 \in Int /\ (IF 0 > c - 1 THEN 0 ELSE (c - 1) - 0 + 1) = c
      BY <1>0
    <3> HIDE DEF c
    <3>2. /\ IsFiniteSet(0 .. c - 1)
          /\ Cardinality(0 .. c - 1) = IF 0 > c - 1 THEN 0 ELSE (c - 1) - 0 + 1
      BY <3>1, FS_Interval
    <3> QED BY <3>1, <3>2 DEF c
  <2>4. f \in Surjection(S, R)
    <3> HIDE DEF f, R
    <3> QED BY <2>2, <2>3, FS_Injection
  <2> QED BY <2>4 DEF Surjection
<1> QED BY <1>0, <1>4, <1>7, <1>8 DEF Ranked

\* The places of rank i to j are as many as there are ranks from i to j.
LEMMA WindowSize ==
  ASSUME NEW S, S \subseteq Nat, IsFiniteSet(S), NEW i \in Nat, NEW j \in Int,
         i <= j + 1, j < Cardinality(S)
  PROVE  LET w == {s \in S : Before(s, S) \in i .. j}
         IN  IsFiniteSet(w) /\ Cardinality(w) = j - i + 1
<1> DEFINE w == {s \in S : Before(s, S) \in i .. j}
           f == [s \in w |-> Before(s, S)]
<1>1. /\ Cardinality(S) \in Nat
      /\ \A s \in S : \A t \in S : Before(s, S) = Before(t, S) => s = t
      /\ \A k \in 0 .. Cardinality(S) - 1 : \E s \in S : Before(s, S) = k
  BY Ranks DEF Ranked
<1>2. f \in Injection(w, i .. j)
  BY <1>1 DEF Injection, IsInjective
<1>3. \A k \in i .. j : \E s \in w : f[s] = k
  <2> SUFFICES ASSUME NEW k \in i .. j PROVE \E s \in w : f[s] = k
    OBVIOUS
  <2>1. k \in 0 .. Cardinality(S) - 1
    BY <1>1
  <2>2. PICK s \in S : Before(s, S) = k
    BY <1>1, <2>1
  <2> QED BY <2>2
<1>4. f \in Surjection(w, i .. j)
  BY <1>2, <1>3 DEF Surjection, Injection
<1>5. IsFiniteSet(i .. j) /\ Cardinality(i .. j) = j - i + 1
  <2>1. IsFiniteSet(i .. j) /\ Cardinality(i .. j) = IF i > j THEN 0 ELSE j - i + 1
    BY FS_Interval
  <2> QED BY <2>1
<1> HIDE DEF f, w
<1>6. IsFiniteSet(w) /\ Cardinality(w) = Cardinality(i .. j)
  BY <1>2, <1>4, <1>5, FS_Injection
<1> QED BY <1>5, <1>6 DEF w

\* A finite set of numbers that is not empty has a least and a greatest element.
LEMMA Ends ==
  ASSUME NEW S, S \subseteq Nat, IsFiniteSet(S), S # {}
  PROVE  \E lo \in S : \E hi \in S : \A s \in S : lo <= s /\ s <= hi
<1>0. Ranked(S)
  BY Ranks
<1>1. Cardinality(S) \in Nat /\ Cardinality(S) # 0
  BY FS_CardinalityType, FS_EmptySet
<1>2. PICK lo \in S : Before(lo, S) = 0
  BY <1>0, <1>1 DEF Ranked
<1>3. PICK hi \in S : Before(hi, S) = Cardinality(S) - 1
  BY <1>0, <1>1 DEF Ranked
<1>4. \A s \in S : ~(s < lo) /\ ~(hi < s)
  BY <1>0, <1>1, <1>2, <1>3 DEF Ranked
<1>5. \A s \in S : lo <= s /\ s <= hi
  BY <1>4
<1> QED BY <1>5

\* A part of S that leaves out nothing between its elements is a window of S; any part
\* reaches over the window that begins with its least.
LEMMA PartsAndWindows ==
  ASSUME NEW S, S \subseteq Nat, IsFiniteSet(S), NEW B, B \subseteq S, B # {},
         NEW n, n = Cardinality(B)
  PROVE  /\ (\A s \in S : \A a \in B : \A b \in B : a <= s /\ s <= b => s \in B)
              => B \in Windows(S, n)
         /\ \E w \in Windows(S, n) : \E a \in B : \E b \in B : \A s \in w : a <= s /\ s <= b
<1>r. Ranked(S)
  BY Ranks
<1>1. /\ IsFiniteSet(B) /\ Cardinality(S) \in Nat /\ n \in Nat /\ n # 0
  BY FS_Subset, FS_CardinalityType, FS_EmptySet
<1>2. PICK lo \in B : \E h \in B : \A s \in B : lo <= s /\ s <= h
  BY <1>1, Ends
<1>3. PICK hi \in B : \A s \in B : lo <= s /\ s <= hi
  BY <1>2
<1> DEFINE i == Before(lo, S)
           j == Before(hi, S)
           reach == {s \in S : Before(s, S) \in i .. j}
<1>4. i \in Nat /\ j \in Nat /\ i <= j /\ j < Cardinality(S)
  <2>1. ~(hi < lo)
    BY <1>3
  <2> QED BY <1>r, <2>1 DEF Ranked
<1>5. \A s \in S : Before(s, S) \in Nat /\ (Before(s, S) >= i <=> lo <= s)
                                        /\ (Before(s, S) <= j <=> s <= hi)
  <2> SUFFICES ASSUME NEW s \in S
               PROVE  Before(s, S) \in Nat /\ (Before(s, S) >= i <=> lo <= s)
                                           /\ (Before(s, S) <= j <=> s <= hi)
    OBVIOUS
  <2>1. /\ Before(s, S) \in Nat
        /\ s < lo <=> Before(s, S) < i
        /\ hi < s <=> j < Before(s, S)
    BY <1>r DEF Ranked
  <2>2. (s < lo <=> ~(lo <= s)) /\ (hi < s <=> ~(s <= hi))
    OBVIOUS
  <2> HIDE DEF i, j
  <2> QED BY <1>4, <2>1, <2>2
<1>6. IsFiniteSet(reach) /\ Cardinality(reach) = j - i + 1
  <2>1. j \in Int /\ i <= j + 1
    BY <1>4
  <2> HIDE DEF i, j
  <2> QED BY <1>4, <2>1, WindowSize
<1>7. \A s \in S : s \in reach <=> lo <= s /\ s <= hi
  <2> HIDE DEF i, j
  <2> QED BY <1>4, <1>5
<1>8. B \in SUBSET reach
  BY <1>3, <1>7
<1> HIDE DEF i, j, reach
<1>9. n <= j - i + 1
  BY <1>6, <1>8, FS_Subset
<1> DEFINE w == {s \in S : Before(s, S) \in i .. i + n - 1}
<1>10. w \in Windows(S, n)
  <2>1. i \in 0 .. Cardinality(S) - n
    BY <1>1, <1>4, <1>9
  <2> QED BY <2>1 DEF Windows
<1>11. \A s \in w : lo <= s /\ s <= hi
  <2> SUFFICES ASSUME NEW s \in w PROVE lo <= s /\ s <= hi
    OBVIOUS
  <2>1. s \in S /\ Before(s, S) \in Nat /\ Before(s, S) >= i /\ Before(s, S) <= i + n - 1
    BY <1>5
  <2>2. Before(s, S) <= j
    BY <1>1, <1>4, <1>9, <2>1
  <2> QED BY <1>5, <2>1, <2>2
<1>12. ASSUME \A s \in S : \A a \in B : \A b \in B : a <= s /\ s <= b => s \in B
       PROVE  B = w
  <2>1. B = reach
    BY <1>7, <1>8, <1>12 DEF reach
  <2>2. n = j - i + 1
    BY <1>6, <2>1
  <2>3. i + n - 1 = j
    BY <1>1, <1>4, <2>2
  <2> QED BY <2>1, <2>3 DEF reach
<1> HIDE DEF w
<1> QED BY <1>10, <1>11, <1>12

-----------------------------------------------------------------------------
(* How far a block of seats reaches                                        *)

\* The span of a block is the distance between two of its seats, the first and the last.
LEMMA Spans ==
  ASSUME NEW B, B \subseteq Seats, IsFiniteSet(B), B # {}, NEW where \in [Seats -> Nat]
  PROVE  \E a \in B : \E b \in B :
           /\ Span(where, B) = where[b] - where[a]
           /\ \A s \in B : where[a] <= where[s] /\ where[s] <= where[b]
<1> DEFINE T == {where[s] : s \in B}
           f == [s \in B |-> where[s]]
           D == {where[t] - where[s] : s, t \in B}
<1>1. T \subseteq Nat /\ T # {}
  OBVIOUS
<1>2. f \in Surjection(B, T)
  BY DEF Surjection
<1>3. IsFiniteSet(T)
  <2> HIDE DEF f, T
  <2> QED BY <1>2, FS_Surjection
<1>4. PICK lo \in T : \E hi \in T : \A k \in T : lo <= k /\ k <= hi
  <2> HIDE DEF T
  <2> QED BY <1>1, <1>3, Ends
<1>5. PICK hi \in T : \A k \in T : lo <= k /\ k <= hi
  BY <1>4
<1>6. PICK a \in B : where[a] = lo
  OBVIOUS
<1>7. PICK b \in B : where[b] = hi
  OBVIOUS
<1>8. \A s \in B : where[a] <= where[s] /\ where[s] <= where[b]
  BY <1>5, <1>6, <1>7
<1>9. where[b] - where[a] \in D /\ \A d \in D : d \in Int /\ where[b] - where[a] >= d
  <2>1. \A s \in B : where[s] \in Nat
    OBVIOUS
  <2>2. \A s \in B : \A t \in B : where[t] - where[s] \in Int
                                  /\ where[b] - where[a] >= where[t] - where[s]
    BY <1>8, <2>1
  <2> QED BY <2>2
<1>10. Span(where, B) = CHOOSE x \in D : \A y \in D : x >= y
  BY DEF Span, Max
<1> HIDE DEF D
<1>11. \A x \in D : (\A y \in D : x >= y) => x = where[b] - where[a]
  BY <1>9
<1>12. Span(where, B) = where[b] - where[a]
  BY <1>9, <1>10, <1>11
<1> QED BY <1>8, <1>12

\* No two seats are further apart than the span, which is a natural number.
LEMMA SpanBounds ==
  ASSUME NEW B, B \subseteq Seats, IsFiniteSet(B), B # {}, NEW where \in [Seats -> Nat]
  PROVE  /\ Span(where, B) \in Nat
         /\ \A s \in B : \A t \in B : where[t] - where[s] <= Span(where, B)
<1>1. PICK a \in B : \E b \in B :
        /\ Span(where, B) = where[b] - where[a]
        /\ \A s \in B : where[a] <= where[s] /\ where[s] <= where[b]
  BY Spans
<1>2. PICK b \in B : /\ Span(where, B) = where[b] - where[a]
                     /\ \A s \in B : where[a] <= where[s] /\ where[s] <= where[b]
  BY <1>1
<1>3. \A s \in B : where[s] \in Nat
  OBVIOUS
<1>4. where[a] \in Nat /\ where[b] \in Nat /\ where[a] <= where[b]
  BY <1>2, <1>3
<1>5. ASSUME NEW s \in B, NEW t \in B PROVE where[t] - where[s] <= where[b] - where[a]
  <2>1. where[a] <= where[s] /\ where[t] <= where[b]
    BY <1>2
  <2> QED BY <1>3, <1>4, <2>1
<1> QED BY <1>2, <1>4, <1>5

InOneCoach(B) == \A s \in B : \A t \in B : CoachOf[s] = CoachOf[t]
InOneRow(B) == InOneCoach(B) /\ \A s \in B : \A t \in B : RowOf[s] = RowOf[t]

\* What is said of a block, one closeness at a time (describe).
LEMMA DescribeCases ==
  ASSUME NEW B, B \subseteq Seats, IsFiniteSet(B), B # {}
  PROVE  /\ Describe(B) \in Togetherness
         /\ Describe(B) <= 1 <=> InOneRow(B) /\ Consecutive(B)
         /\ Describe(B) <= 2 <=> InOneRow(B)
         /\ Describe(B) <= 3 <=> InOneCoach(B) /\ Span(RowOf, B) <= 1
         /\ Describe(B) <= 4 <=> InOneCoach(B)
<1>1. Cardinality(B) \in Nat /\ Cardinality(B) # 0
  BY FS_CardinalityType, FS_EmptySet
<1>2. Span(RowOf, B) \in Nat /\ Span(CellOf, B) \in Nat
  BY SpanBounds, LayoutAssumption
<1>3. InOneRow(B) => Span(RowOf, B) = 0
  <2> SUFFICES ASSUME InOneRow(B) PROVE Span(RowOf, B) = 0
    OBVIOUS
  <2>1. PICK a \in B : \E b \in B : Span(RowOf, B) = RowOf[b] - RowOf[a]
    BY Spans, LayoutAssumption
  <2>2. RowOf[a] \in Nat /\ \A b \in B : RowOf[b] = RowOf[a]
    BY LayoutAssumption DEF InOneRow
  <2> QED BY <2>1, <2>2
<1>4. CASE Cardinality(B) <= 1
  <2>1. Cardinality(B) = 1
    BY <1>1, <1>4
  <2>2. PICK x : B = {x}
    BY <2>1, FS_Singleton
  <2>3. InOneRow(B)
    BY <2>2 DEF InOneRow, InOneCoach
  <2>4. Span(CellOf, B) = 0
    <3>1. PICK a \in B : \E b \in B : Span(CellOf, B) = CellOf[b] - CellOf[a]
      BY Spans, LayoutAssumption
    <3>2. CellOf[a] \in Nat /\ \A b \in B : b = a
      BY <2>2, LayoutAssumption
    <3> QED BY <3>1, <3>2
  <2>5. Consecutive(B) /\ InOneCoach(B)
    BY <2>1, <2>3, <2>4 DEF Consecutive, InOneRow
  <2>6. Describe(B) = 1
    BY <1>4, <2>3, <2>5 DEF Describe, InOneRow, InOneCoach
  <2> QED BY <1>3, <2>3, <2>5, <2>6 DEF Togetherness
<1>5. CASE ~(Cardinality(B) <= 1) /\ ~InOneCoach(B)
  <2>1. Describe(B) = 5
    BY <1>5 DEF Describe, InOneCoach
  <2> QED BY <1>5, <2>1 DEF Togetherness, InOneRow
<1>6. CASE ~(Cardinality(B) <= 1) /\ InOneRow(B)
  <2>1. Describe(B) = IF Consecutive(B) THEN 1 ELSE 2
    BY <1>6 DEF Describe, InOneRow, InOneCoach, SameRow
  <2> QED BY <1>3, <1>6, <2>1 DEF Togetherness, InOneRow
<1>7. CASE ~(Cardinality(B) <= 1) /\ InOneCoach(B) /\ ~InOneRow(B)
  <2>1. Describe(B) = IF Span(RowOf, B) <= 1 THEN 3 ELSE 4
    BY <1>7 DEF Describe, InOneRow, InOneCoach
  <2> QED BY <1>2, <1>7, <2>1 DEF Togetherness
<1> QED BY <1>4, <1>5, <1>6, <1>7 DEF InOneRow

-----------------------------------------------------------------------------
(* The seats of one coach, and of one row                                  *)

\* Any seats to choose from are numbers, finitely many.
LEMMA Choosable ==
  ASSUME NEW S, S \subseteq Seats
  PROVE  S \subseteq Nat /\ IsFiniteSet(S)
BY FS_Subset, QuotasAssumption, LayoutAssumption

\* The seats of a coach are numbered row by row.
LEMMA RowsInOrder ==
  ASSUME NEW s \in Seats, NEW t \in Seats, CoachOf[s] = CoachOf[t], s <= t
  PROVE  RowOf[s] <= RowOf[t]
<1>1. /\ s \in Nat /\ t \in Nat /\ CoachOf[s] \in Nat /\ CoachOf[t] \in Nat
      /\ RowOf[s] \in Nat /\ RowOf[t] \in Nat
  BY QuotasAssumption, LayoutAssumption
<1>2. s < t => RowOf[s] <= RowOf[t]
  BY <1>1, LayoutAssumption
<1> QED BY <1>1, <1>2

\* The seats of a row are numbered cell by cell, each in a cell of its own.
LEMMA CellsInOrder ==
  ASSUME NEW s \in Seats, NEW t \in Seats, CoachOf[s] = CoachOf[t], RowOf[s] = RowOf[t], s < t
  PROVE  CellOf[s] < CellOf[t]
<1>1. /\ CoachOf[s] \in Nat /\ CoachOf[t] \in Nat /\ RowOf[s] \in Nat /\ RowOf[t] \in Nat
  BY QuotasAssumption, LayoutAssumption
<1> QED BY <1>1, LayoutAssumption

\* Seats of one coach, or of one row, are in a group of those there are to choose from.
LEMMA Grouped ==
  ASSUME NEW S, NEW B, B \subseteq S, B # {}
  PROVE  /\ InOneCoach(B) => \E g \in CoachGroups(S) : B \subseteq g
         /\ InOneRow(B) => \E g \in RowGroups(S) : B \subseteq g
<1>1. PICK b \in B : TRUE
  OBVIOUS
<1>2. ASSUME InOneCoach(B) PROVE \E g \in CoachGroups(S) : B \subseteq g
  <2>1. B \subseteq {t \in S : CoachOf[t] = CoachOf[b]}
    BY <1>2 DEF InOneCoach
  <2>2. {t \in S : CoachOf[t] = CoachOf[b]} \in CoachGroups(S)
    BY DEF CoachGroups
  <2> QED BY <2>1, <2>2
<1>3. ASSUME InOneRow(B) PROVE \E g \in RowGroups(S) : B \subseteq g
  <2>1. B \subseteq {t \in S : CoachOf[t] = CoachOf[b] /\ RowOf[t] = RowOf[b]}
    BY <1>3 DEF InOneRow, InOneCoach
  <2>2. {t \in S : CoachOf[t] = CoachOf[b] /\ RowOf[t] = RowOf[b]} \in RowGroups(S)
    BY DEF RowGroups
  <2> QED BY <2>1, <2>2
<1> QED BY <1>2, <1>3

\* The seats of a group are in one coach, or in one row.
LEMMA Groups ==
  ASSUME NEW S
  PROVE  /\ \A g \in CoachGroups(S) : g \subseteq S /\ InOneCoach(g)
         /\ \A g \in RowGroups(S) : g \subseteq S /\ InOneRow(g)
BY DEF CoachGroups, RowGroups, InOneCoach, InOneRow

\* The first n of at least n seats are n.
LEMMA FirstSize ==
  ASSUME NEW S, S \subseteq Seats, NEW n \in Nat, n <= Cardinality(S)
  PROVE  IsFiniteSet(First(S, n)) /\ Cardinality(First(S, n)) = n
<1>1. S \subseteq Nat /\ IsFiniteSet(S)
  BY Choosable
<1>2. Ranked(S)
  BY <1>1, Ranks
<1> DEFINE w == {s \in S : Before(s, S) \in 0 .. n - 1}
<1>3. n - 1 \in Int /\ 0 <= (n - 1) + 1 /\ n - 1 < Cardinality(S) /\ (n - 1) - 0 + 1 = n
  BY <1>2 DEF Ranked
<1>4. IsFiniteSet(w) /\ Cardinality(w) = (n - 1) - 0 + 1
  BY <1>1, <1>3, WindowSize
<1>5. \A s \in S : Before(s, S) \in 0 .. n - 1 <=> Before(s, S) < n
  BY <1>2 DEF Ranked
<1>6. First(S, n) = w
  BY <1>5 DEF First
<1> QED BY <1>3, <1>4, <1>6

\* A window of n seats is n of them.
LEMMA SizeOfWindows ==
  ASSUME NEW S, S \subseteq Seats, NEW n \in Nat, NEW w \in Windows(S, n)
  PROVE  w \subseteq S /\ IsFiniteSet(w) /\ Cardinality(w) = n
<1>1. S \subseteq Nat /\ IsFiniteSet(S)
  BY Choosable
<1>2. Cardinality(S) \in Nat
  BY <1>1, FS_CardinalityType
<1>3. PICK i \in 0 .. Cardinality(S) - n : w = {s \in S : Before(s, S) \in i .. i + n - 1}
  BY DEF Windows
<1> DEFINE j == i + n - 1
<1>4. /\ i \in Nat /\ j \in Int /\ i <= j + 1 /\ j < Cardinality(S) /\ j - i + 1 = n
  BY <1>2
<1>5. w = {s \in S : Before(s, S) \in i .. j}
  BY <1>3
<1> HIDE DEF j
<1> DEFINE v == {s \in S : Before(s, S) \in i .. j}
<1>6. IsFiniteSet(v) /\ Cardinality(v) = j - i + 1
  BY <1>1, <1>4, WindowSize
<1> QED BY <1>3, <1>4, <1>5, <1>6

\* Side by side in their row, the seats leave out none between them: there are as many cells
\* from the first to the last as there are seats.
LEMMA SideBySideIsWhole ==
  ASSUME NEW g, g \subseteq Seats, InOneRow(g), NEW B, B \subseteq g, B # {}, Consecutive(B),
         NEW s \in g, NEW a \in B, NEW b \in B, a <= s, s <= b
  PROVE  s \in B
<1> SUFFICES ASSUME s \notin B PROVE FALSE
  OBVIOUS
<1>1. B \subseteq Seats /\ B \subseteq Nat /\ IsFiniteSet(B) /\ Cardinality(B) \in Nat
  BY Choosable, FS_CardinalityType
<1>2. PICK x \in B : \E y \in B :
        /\ Span(CellOf, B) = CellOf[y] - CellOf[x]
        /\ \A r \in B : CellOf[x] <= CellOf[r] /\ CellOf[r] <= CellOf[y]
  BY <1>1, Spans, LayoutAssumption
<1>3. PICK y \in B : /\ Span(CellOf, B) = CellOf[y] - CellOf[x]
                     /\ \A r \in B : CellOf[x] <= CellOf[r] /\ CellOf[r] <= CellOf[y]
  BY <1>2
<1> DEFINE C == B \union {s}
           lo == CellOf[x]
           hi == CellOf[y]
           f == [r \in C |-> CellOf[r]]
<1>4. lo \in Nat /\ hi \in Nat /\ hi - lo = Cardinality(B) - 1 /\ lo <= hi
  <2>1. lo \in Nat /\ hi \in Nat /\ lo <= hi
    BY <1>1, <1>3, LayoutAssumption
  <2> QED BY <1>3, <2>1 DEF Consecutive
<1>5. \A r \in C : r \in Nat /\ r \in Seats /\ CellOf[r] \in Nat
  BY <1>1, QuotasAssumption, LayoutAssumption
<1>6. \A r \in C : \A t \in C : r < t => CellOf[r] < CellOf[t]
  BY <1>1, CellsInOrder DEF InOneRow, InOneCoach
<1>7. CellOf[s] \in lo .. hi
  <2>1. a # s /\ b # s /\ a \in C /\ b \in C /\ s \in C
    OBVIOUS
  <2>2. a < s /\ s < b
    BY <1>5, <2>1
  <2>3. CellOf[a] < CellOf[s] /\ CellOf[s] < CellOf[b]
    BY <1>6, <2>1, <2>2
  <2>4. lo <= CellOf[a] /\ CellOf[b] <= hi
    BY <1>3
  <2>5. CellOf[a] \in Nat /\ CellOf[b] \in Nat /\ CellOf[s] \in Nat
    BY <1>5
  <2> HIDE DEF lo, hi
  <2> QED BY <1>4, <2>3, <2>4, <2>5
<1>8. f \in [C -> lo .. hi]
  <2>1. \A r \in B : CellOf[r] \in lo .. hi
    BY <1>3, <1>4, <1>5
  <2> QED BY <1>7, <2>1
<1>9. IsFiniteSet(C) /\ Cardinality(C) = Cardinality(B) + 1
  BY <1>1, FS_AddElement
<1>10. IsFiniteSet(lo .. hi) /\ Cardinality(lo .. hi) = Cardinality(B)
  <2> HIDE DEF lo, hi
  <2>1. IsFiniteSet(lo .. hi) /\ Cardinality(lo .. hi) = IF lo > hi THEN 0 ELSE hi - lo + 1
    BY <1>4, FS_Interval
  <2> QED BY <1>1, <1>4, <2>1
<1>11. \E r \in C : \E t \in C : r # t /\ f[r] = f[t]
  <2> DEFINE I == lo .. hi
  <2>1. IsFiniteSet(I) /\ Cardinality(I) < Cardinality(C) /\ f \in [C -> I]
    BY <1>1, <1>8, <1>9, <1>10
  <2> HIDE DEF I, f, C
  <2> QED BY <1>9, <2>1, FS_PigeonHole
<1>12. PICK r \in C : \E t \in C : r # t /\ f[r] = f[t]
  BY <1>11
<1>13. PICK t \in C : r # t /\ CellOf[r] = CellOf[t]
  BY <1>12
<1>14. r < t \/ t < r
  BY <1>5, <1>13
<1>15. CellOf[r] < CellOf[t] \/ CellOf[t] < CellOf[r]
  BY <1>6, <1>14
<1> QED BY <1>5, <1>13, <1>15

\* If some n seats of one coach are within a row of each other, a search nearby finds some.
LEMMA NearbyFound ==
  ASSUME NEW S, S \subseteq Seats, NEW B, B \subseteq S, B # {}, NEW n, n = Cardinality(B),
         InOneCoach(B), Span(RowOf, B) <= 1
  PROVE  FindNearby(S, n, 1) # {}
<1>1. IsFiniteSet(B) /\ n \in Nat /\ n # 0
  BY Choosable, FS_CardinalityType, FS_EmptySet
<1> DEFINE windows == UNION {Windows(g, n) : g \in CoachGroups(S)}
<1>2. ASSUME NEW w \in windows
      PROVE  w \subseteq Seats /\ IsFiniteSet(w) /\ w # {} /\ Span(RowOf, w) \in Nat
  <2>1. PICK g \in CoachGroups(S) : w \in Windows(g, n)
    BY <1>2
  <2>2. w \subseteq Seats /\ IsFiniteSet(w) /\ Cardinality(w) = n
    BY <1>1, <2>1, Groups, SizeOfWindows
  <2>3. w # {}
    BY <1>1, <2>2, FS_EmptySet
  <2> QED BY <2>2, <2>3, SpanBounds, LayoutAssumption
<1>3. PICK g \in CoachGroups(S) : B \subseteq g
  BY Grouped
<1>4. g \subseteq Seats /\ g \subseteq Nat /\ IsFiniteSet(g) /\ InOneCoach(g)
  BY Groups, Choosable
<1>5. PICK w \in Windows(g, n) : \E a \in B : \E b \in B : \A s \in w : a <= s /\ s <= b
  BY <1>1, <1>3, <1>4, PartsAndWindows
<1>6. PICK a \in B : \E b \in B : \A s \in w : a <= s /\ s <= b
  BY <1>5
<1>7. PICK b \in B : \A s \in w : a <= s /\ s <= b
  BY <1>6
<1>8. w \in windows /\ w \subseteq g
  BY <1>5 DEF Windows
<1> HIDE DEF windows
<1>9. \A s \in w : RowOf[a] <= RowOf[s] /\ RowOf[s] <= RowOf[b]
  <2> SUFFICES ASSUME NEW s \in w PROVE RowOf[a] <= RowOf[s] /\ RowOf[s] <= RowOf[b]
    OBVIOUS
  <2>1. /\ a \in Seats /\ b \in Seats /\ s \in Seats
        /\ CoachOf[a] = CoachOf[s] /\ CoachOf[s] = CoachOf[b]
    BY <1>3, <1>4, <1>8 DEF InOneCoach
  <2> QED BY <1>7, <2>1, RowsInOrder
<1>10. Span(RowOf, w) <= 1
  <2>1. PICK x \in w : \E y \in w : Span(RowOf, w) = RowOf[y] - RowOf[x]
    BY <1>2, <1>8, Spans, LayoutAssumption
  <2>2. PICK y \in w : Span(RowOf, w) = RowOf[y] - RowOf[x]
    BY <2>1
  <2>3. RowOf[b] - RowOf[a] <= Span(RowOf, B) /\ Span(RowOf, B) \in Nat
    BY <1>1, SpanBounds, LayoutAssumption
  <2>4. RowOf[a] \in Nat /\ RowOf[b] \in Nat /\ RowOf[x] \in Nat /\ RowOf[y] \in Nat
    BY <1>3, <1>4, <1>8, LayoutAssumption
  <2>5. RowOf[a] <= RowOf[x] /\ RowOf[y] <= RowOf[b]
    BY <1>9
  <2> QED BY <2>2, <2>3, <2>4, <2>5
<1>11. FindNearby(S, n, 1) =
         {v \in windows : /\ Span(RowOf, v) <= 1
                          /\ \A u \in windows : Span(RowOf, v) <= Span(RowOf, u)}
  BY DEF FindNearby, windows
<1>12. CASE \E v \in windows : Span(RowOf, v) = 0
  <2>1. PICK v \in windows : Span(RowOf, v) = 0
    BY <1>12
  <2>2. \A u \in windows : Span(RowOf, v) <= Span(RowOf, u)
    BY <1>2, <2>1
  <2> QED BY <1>11, <2>1, <2>2
<1>13. CASE ~ \E v \in windows : Span(RowOf, v) = 0
  <2>1. \A u \in windows : Span(RowOf, w) <= Span(RowOf, u)
    BY <1>2, <1>8, <1>10, <1>13
  <2> QED BY <1>8, <1>10, <1>11, <2>1
<1> QED BY <1>12, <1>13

\* A block is made of the seats there were to choose from.
LEMMA BlockType ==
  ASSUME NEW S, NEW n, NEW block \in BestBlocks(S, n)
  PROVE  block.seats \subseteq S /\ block.togetherness \in Togetherness
<1> DEFINE a == Attempts(S, n)
           least == {k \in Togetherness : \A i \in 1 .. k - 1 : a[i] = {}}
<1>1. \A b \in a[1] : b \subseteq S
  <2>1. \A b \in FindSideBySide(S, n) : b \subseteq S
    BY WindowType, GroupTypes DEF FindSideBySide
  <2> QED BY <2>1 DEF Attempts
<1>2. \A b \in a[2] : b \subseteq S
  <2>1. \A b \in FindSameRow(S, n) : b \subseteq S
    BY FirstOfEachType, GroupTypes DEF FindSameRow
  <2> QED BY <2>1 DEF Attempts
<1>3. \A b \in a[3] : b \subseteq S
  <2>1. \A b \in FindNearby(S, n, 1) : b \subseteq S
    BY WindowType, GroupTypes DEF FindNearby
  <2> QED BY <2>1 DEF Attempts
<1>4. \A b \in a[4] : b \subseteq S
  <2>1. \A b \in FindSameCoach(S, n) : b \subseteq S
    BY FirstOfEachType, GroupTypes DEF FindSameCoach
  <2> QED BY <2>1 DEF Attempts
<1>5. \A b \in a[5] : b \subseteq S
  <2>1. \A b \in FirstOfEach({S}, n) : b \subseteq S
    BY FirstOfEachType
  <2> QED BY <2>1 DEF Attempts
<1>6. block \in UNION {{[seats |-> b, togetherness |-> k] : b \in a[k]} : k \in least}
  BY DEF BestBlocks
<1> HIDE DEF a
<1>7. PICK k \in Togetherness : \E b \in a[k] : block = [seats |-> b, togetherness |-> k]
  BY <1>6
<1>8. \A b \in a[k] : b \subseteq S
  BY <1>1, <1>2, <1>3, <1>4, <1>5 DEF Togetherness
<1> QED BY <1>7, <1>8

LEMMA DescribeType ==
  ASSUME NEW S
  PROVE  Describe(S) \in Togetherness
BY DEF Describe, Togetherness, SameRow

-----------------------------------------------------------------------------
(* The best block                                                          *)

\* What an attempt finds is as close as the attempt says, or closer (findSideBySide,
\* findSameRow, findNearby, findSameCoach).
LEMMA AttemptsKeepTheirWord ==
  ASSUME NEW S, S \subseteq Seats, NEW n \in Nat \ {0}, NEW k \in Togetherness,
         NEW w \in Attempts(S, n)[k]
  PROVE  w \subseteq S /\ IsFiniteSet(w) /\ Cardinality(w) = n /\ Describe(w) <= k
<1>1. ASSUME NEW v, v \subseteq S, IsFiniteSet(v), Cardinality(v) = n PROVE v # {}
  BY <1>1, FS_EmptySet
<1>2. ASSUME NEW groups, \A g \in groups : g \subseteq S, NEW v \in FirstOfEach(groups, n)
      PROVE  /\ v \subseteq S /\ IsFiniteSet(v) /\ Cardinality(v) = n /\ v # {}
             /\ \E g \in groups : v \subseteq g
  <2>1. PICK g \in groups : Cardinality(g) >= n /\ v = First(g, n)
    BY <1>2 DEF FirstOfEach
  <2>2. g \subseteq Seats /\ v \subseteq g
    BY <1>2, <2>1, FirstType
  <2>3. Cardinality(g) \in Nat
    BY <2>2, Choosable, FS_CardinalityType
  <2>4. IsFiniteSet(v) /\ Cardinality(v) = n
    BY <2>1, <2>2, <2>3, FirstSize
  <2> QED BY <1>1, <1>2, <2>2, <2>4
<1>3. ASSUME NEW groups, \A g \in groups : g \subseteq S,
             NEW v \in UNION {Windows(g, n) : g \in groups}
      PROVE  /\ v \subseteq S /\ IsFiniteSet(v) /\ Cardinality(v) = n /\ v # {}
             /\ \E g \in groups : v \subseteq g
  <2>1. PICK g \in groups : v \in Windows(g, n)
    BY <1>3
  <2>2. v \subseteq g /\ IsFiniteSet(v) /\ Cardinality(v) = n
    BY <1>3, <2>1, SizeOfWindows
  <2> QED BY <1>1, <1>3, <2>2
<1>4. CASE k = 1
  <2>1. Consecutive(w) /\ w \in UNION {Windows(g, n) : g \in RowGroups(S)}
    BY <1>4 DEF Attempts, FindSideBySide
  <2>2. /\ w \subseteq S /\ IsFiniteSet(w) /\ Cardinality(w) = n /\ w # {}
        /\ \E g \in RowGroups(S) : w \subseteq g
    <3>1. \A g \in RowGroups(S) : g \subseteq S
      BY Groups
    <3> QED BY <1>3, <2>1, <3>1
  <2>3. InOneRow(w)
    BY <2>2, Groups DEF InOneRow, InOneCoach
  <2> QED BY <1>4, <2>1, <2>2, <2>3, DescribeCases
<1>5. CASE k = 2
  <2>1. w \in FirstOfEach(RowGroups(S), n)
    BY <1>5 DEF Attempts, FindSameRow
  <2>2. /\ w \subseteq S /\ IsFiniteSet(w) /\ Cardinality(w) = n /\ w # {}
        /\ \E g \in RowGroups(S) : w \subseteq g
    BY <1>2, <2>1, Groups
  <2>3. InOneRow(w)
    BY <2>2, Groups DEF InOneRow, InOneCoach
  <2> QED BY <1>5, <2>2, <2>3, DescribeCases
<1>6. CASE k = 3
  <2>1. Span(RowOf, w) <= 1 /\ w \in UNION {Windows(g, n) : g \in CoachGroups(S)}
    BY <1>6 DEF Attempts, FindNearby
  <2>2. /\ w \subseteq S /\ IsFiniteSet(w) /\ Cardinality(w) = n /\ w # {}
        /\ \E g \in CoachGroups(S) : w \subseteq g
    BY <1>3, <2>1, Groups
  <2>3. InOneCoach(w)
    BY <2>2, Groups DEF InOneCoach
  <2> QED BY <1>6, <2>1, <2>2, <2>3, DescribeCases
<1>7. CASE k = 4
  <2>1. w \in FirstOfEach(CoachGroups(S), n)
    BY <1>7 DEF Attempts, FindSameCoach
  <2>2. /\ w \subseteq S /\ IsFiniteSet(w) /\ Cardinality(w) = n /\ w # {}
        /\ \E g \in CoachGroups(S) : w \subseteq g
    BY <1>2, <2>1, Groups
  <2>3. InOneCoach(w)
    BY <2>2, Groups DEF InOneCoach
  <2> QED BY <1>7, <2>2, <2>3, DescribeCases
<1>8. CASE k = 5
  <2>1. w \in FirstOfEach({S}, n)
    BY <1>8 DEF Attempts
  <2>2. w \subseteq S /\ IsFiniteSet(w) /\ Cardinality(w) = n /\ w # {}
    BY <1>2, <2>1
  <2>3. Describe(w) \in Togetherness
    BY <2>2, DescribeCases
  <2> QED BY <1>8, <2>2, <2>3 DEF Togetherness
<1> QED BY <1>4, <1>5, <1>6, <1>7, <1>8 DEF Togetherness

\* Where there is a choice of n seats, the attempts down to how close it is do not all come
\* back with nothing.
LEMMA SomeAttemptFinds ==
  ASSUME NEW S, S \subseteq Seats, NEW B, B \subseteq S, B # {}, NEW n, n = Cardinality(B)
  PROVE  \E k \in Togetherness : k <= Describe(B) /\ Attempts(S, n)[k] # {}
<1>1. B \subseteq Seats /\ IsFiniteSet(B) /\ n \in Nat /\ n # 0
  BY Choosable, FS_CardinalityType, FS_EmptySet
<1>2. /\ Describe(B) \in Togetherness
      /\ Describe(B) <= 1 <=> InOneRow(B) /\ Consecutive(B)
      /\ Describe(B) <= 2 <=> InOneRow(B)
      /\ Describe(B) <= 3 <=> InOneCoach(B) /\ Span(RowOf, B) <= 1
      /\ Describe(B) <= 4 <=> InOneCoach(B)
  BY <1>1, DescribeCases
<1>3. ASSUME NEW groups, NEW g \in groups, g \subseteq Seats, B \subseteq g
      PROVE  FirstOfEach(groups, n) # {}
  <2>1. IsFiniteSet(g) /\ Cardinality(g) \in Nat
    BY <1>3, Choosable, FS_CardinalityType
  <2>2. Cardinality(g) >= n
    BY <1>1, <1>3, <2>1, FS_Subset
  <2>3. First(g, n) \in FirstOfEach(groups, n)
    BY <1>3, <2>2 DEF FirstOfEach
  <2> QED BY <2>3
<1>4. CASE Describe(B) = 1
  <2>r. InOneRow(B) /\ Consecutive(B)
    BY <1>2, <1>4
  <2>1. PICK g \in RowGroups(S) : B \subseteq g
    BY <2>r, Grouped
  <2>2. g \subseteq Seats /\ g \subseteq Nat /\ IsFiniteSet(g) /\ InOneRow(g)
    BY Groups, Choosable
  <2>3. \A s \in g : \A a \in B : \A b \in B : a <= s /\ s <= b => s \in B
    BY <2>r, <2>1, <2>2, SideBySideIsWhole
  <2>4. B \in Windows(g, n)
    BY <1>1, <2>1, <2>2, <2>3, PartsAndWindows
  <2>5. B \in Attempts(S, n)[1]
    BY <2>r, <2>1, <2>4 DEF Attempts, FindSideBySide
  <2> QED BY <1>4, <2>5 DEF Togetherness
<1>5. CASE Describe(B) = 2
  <2>r. InOneRow(B)
    BY <1>2, <1>5
  <2>1. PICK g \in RowGroups(S) : B \subseteq g
    BY <2>r, Grouped
  <2>2. FirstOfEach(RowGroups(S), n) # {}
    BY <1>3, <2>1, Groups
  <2>3. Attempts(S, n)[2] # {}
    BY <2>2 DEF Attempts, FindSameRow
  <2> QED BY <1>5, <2>3 DEF Togetherness
<1>6. CASE Describe(B) = 3
  <2>1. FindNearby(S, n, 1) # {}
    BY <1>2, <1>6, NearbyFound
  <2>2. Attempts(S, n)[3] # {}
    BY <2>1 DEF Attempts
  <2> QED BY <1>6, <2>2 DEF Togetherness
<1>7. CASE Describe(B) = 4
  <2>1. PICK g \in CoachGroups(S) : B \subseteq g
    BY <1>2, <1>7, Grouped
  <2>2. FirstOfEach(CoachGroups(S), n) # {}
    BY <1>3, <2>1, Groups
  <2>3. Attempts(S, n)[4] # {}
    BY <2>2 DEF Attempts, FindSameCoach
  <2> QED BY <1>7, <2>3 DEF Togetherness
<1>8. CASE Describe(B) = 5
  <2>1. FirstOfEach({S}, n) # {}
    BY <1>3
  <2>2. Attempts(S, n)[5] # {}
    BY <2>1 DEF Attempts
  <2> QED BY <1>8, <2>2 DEF Togetherness
<1> QED BY <1>2, <1>4, <1>5, <1>6, <1>7, <1>8 DEF Togetherness

\* For any layout, any seats S of it and any number n: each best block is n of them, what is
\* said of how close it is is so, and no other n of them are closer (bestBlock).
THEOREM BestBlocksAreClosest ==
  ASSUME NEW S, S \subseteq Seats, NEW n \in Nat \ {0}, NEW block \in BestBlocks(S, n)
  PROVE  /\ block.seats \subseteq S /\ Cardinality(block.seats) = n
         /\ block.togetherness = Describe(block.seats)
         /\ \A B \in SUBSET S : Cardinality(B) = n => block.togetherness <= Describe(B)
<1> DEFINE a == Attempts(S, n)
           least == {k \in Togetherness : \A i \in 1 .. k - 1 : a[i] = {}}
<1>1. PICK k \in least : \E w \in a[k] : block = [seats |-> w, togetherness |-> k]
  BY DEF BestBlocks
<1>2. PICK w \in a[k] : block = [seats |-> w, togetherness |-> k]
  BY <1>1
<1>3. k \in Togetherness /\ \A i \in 1 .. k - 1 : a[i] = {}
  BY <1>1
<1>4. w \subseteq S /\ IsFiniteSet(w) /\ Cardinality(w) = n /\ Describe(w) <= k
  BY <1>2, <1>3, AttemptsKeepTheirWord
<1>5. ASSUME NEW B, B \subseteq S, Cardinality(B) = n PROVE k <= Describe(B)
  <2>1. IsFiniteSet(B) /\ B # {}
    BY <1>5, Choosable, FS_EmptySet
  <2>2. PICK i \in Togetherness : i <= Describe(B) /\ a[i] # {}
    BY <1>5, <2>1, SomeAttemptFinds
  <2>3. Describe(B) \in Togetherness
    BY <1>5, <2>1, DescribeCases
  <2> HIDE DEF a
  <2> QED BY <1>3, <2>2, <2>3 DEF Togetherness
<1>6. Describe(w) \in Togetherness
  BY DescribeType
<1>7. Describe(w) = k
  BY <1>3, <1>4, <1>5, <1>6 DEF Togetherness
<1> QED BY <1>2, <1>4, <1>5, <1>7

-----------------------------------------------------------------------------
(* The answers                                                             *)

LEMMA RefusalType ==
  ASSUME buyer \in Buyers, NEW reason \in {"not_enough_seats", "criteria_unmet",
                                           "cannot_seat_together", "taken"}
  PROVE  Refusal(reason) \in Buyers
BY DEF Refusal, Buyers

LEMMA ProposalType ==
  ASSUME buyer \in Buyers, NEW seats \in SUBSET Seats, NEW k \in Togetherness
  PROVE  Proposal(seats, k) \in Buyers
<1>1. Relaxes \in BOOLEAN
  BY DEF Relaxes
<1> QED BY <1>1 DEF Proposal, Buyers

LEMMA PoolType == Pool(Relaxes) \subseteq Free /\ Free \subseteq Seats
BY DEF Pool, Matching, Free, Available, SellableSeats

\* An answer is a refusal, or proposes seats that are free.
LEMMA AnswerType ==
  ASSUME buyer \in Buyers, NEW answer \in AutoSelected
  PROVE  /\ answer \in Buyers
         /\ answer.stage = "proposed" => answer.seats \subseteq Free
<1>1. \A reason : Refusal(reason).stage = "refused"
  BY DEF Refusal, Buyers
<1>2. \A seats, k : Proposal(seats, k).seats = seats
  BY DEF Proposal, Buyers
<1>3. CASE answer \in {Refusal("not_enough_seats"), Refusal("criteria_unmet"),
                       Refusal("cannot_seat_together")}
  BY <1>1, <1>3, RefusalType
<1>4. ASSUME NEW seats, seats \subseteq Free, NEW k \in Togetherness, answer = Proposal(seats, k)
      PROVE  answer \in Buyers /\ answer.seats \subseteq Free
  <2>1. seats \in SUBSET Seats
    BY <1>4, PoolType
  <2> QED BY <1>2, <1>4, <2>1, ProposalType
<1>5. CASE \E seats, k : seats \subseteq Free /\ k \in Togetherness /\ answer = Proposal(seats, k)
  BY <1>4, <1>5
<1>6. \/ answer \in {Refusal("not_enough_seats"), Refusal("criteria_unmet"),
                     Refusal("cannot_seat_together")}
      \/ \E seats, k : seats \subseteq Free /\ k \in Togetherness /\ answer = Proposal(seats, k)
  <2> DEFINE chosen == First(Pool(Relaxes), request.count)
             best == BestBlocks(Pool(Relaxes), request.count)
  <2>1. chosen \subseteq Free /\ Describe(chosen) \in Togetherness
    BY FirstType, PoolType, DescribeType
  <2>2. \A block \in best : block.seats \subseteq Free /\ block.togetherness \in Togetherness
    BY BlockType, PoolType
  <2> HIDE DEF chosen, best
  <2>3. \/ answer \in {Refusal("not_enough_seats"), Refusal("criteria_unmet"),
                       Refusal("cannot_seat_together")}
        \/ answer = Proposal(chosen, Describe(chosen))
        \/ \E block \in best : answer = Proposal(block.seats, block.togetherness)
    BY DEF AutoSelected, chosen, best
  <2> QED BY <2>1, <2>2, <2>3
<1> QED BY <1>3, <1>5, <1>6

-----------------------------------------------------------------------------
(* The invariant: the types, a journey that runs forwards, and reservations *)
(* of rules that are there.                                                *)

\* A run that replaces holds the rows it deletes, which the rules made, alone.
Holds(o, s) == operator[o].stage = "materialising" /\ s \in operator[o].dropped
Alone(o, s) == \A p \in Operators \ {o} : ~Holds(p, s)
Locks == \A o \in Operators, s \in Seats : Holds(o, s) => quota[s].rule # 0 /\ Alone(o, s)

IInv == TypeOK /\ request.from < request.to /\ Explained /\ Locks

LEMMA InitIInv == Init => IInv
<1> SUFFICES ASSUME Init PROVE IInv
  OBVIOUS
<1>1. PICK scene \in Scenes : row = scene.row /\ moves = scene.moves /\ request = scene.request
  BY DEF Init
<1>2. /\ scene.row \in [Seats -> SUBSET Segments] /\ scene.moves \in 0 .. MaxMoves
      /\ scene.request \in Requests /\ scene.request.from < scene.request.to
  BY SelectionAssumption
<1>3. quota \in [Seats -> QuotaRows] /\ operator \in [Operators -> Calls]
  BY NoQuotaType, IdleType DEF Init, QuotaInit
<1>4. rules \subseteq RuleIds /\ running \subseteq CoachIds
  BY DEF Init, QuotaInit
<1>5. buyer \in Buyers
  <2>1. {} \in SUBSET Seats /\ 1 \in 1 .. MaxAttempts
    BY SelectionAssumption
  <2> QED BY <2>1 DEF Init, Buyers
<1>6. Explained
  BY DEF Init, QuotaInit, Explained, NoQuota
<1>7. Locks
  BY DEF Init, QuotaInit, Locks, Holds, Idle
<1> QED BY <1>1, <1>2, <1>3, <1>4, <1>5, <1>6, <1>7 DEF IInv, TypeOK, QuotaTypeOK

\* Who writes reservations writes them by hand, or for a rule that is there.
LEMMA ExplainedStep == QuotaTypeOK /\ Explained /\ QuotaNext => Explained'
<1> SUFFICES ASSUME QuotaTypeOK, Explained, QuotaNext PROVE Explained'
  OBVIOUS
<1> USE DEF Explained
<1>r. ASSUME NEW seats, quota' = Released(seats), rules' = rules PROVE Explained'
  <2>1. \A s \in Seats : quota'[s].rule = quota[s].rule
    BY <1>r DEF Released, QuotaTypeOK, QuotaRows
  <2> QED BY <1>r, <2>1
<1>1. ASSUME UNCHANGED <<quota, rules>> PROVE Explained'
  BY <1>1
<1>2. ASSUME NEW o \in Operators, SetWrite(o) PROVE Explained'
  BY <1>2 DEF SetWrite
<1>3. ASSUME NEW s \in Seats, ClearSeatQuota(s) PROVE Explained'
  BY <1>3 DEF ClearSeatQuota, NoQuota, QuotaTypeOK
<1>4. ASSUME NEW o \in Operators, MaterialiseWrite(o) PROVE Explained'
  <2> DEFINE claim == Claims(operator[o].seats, operator[o].rules)
  <2>1. quota' = [s \in Seats |->
                    IF claim[s] # 0
                    THEN [pair |-> Rules[claim[s]].pair, state |-> "held", rule |-> claim[s]]
                    ELSE IF s \in operator[o].dropped THEN NoQuota ELSE quota[s]]
    BY <1>4 DEF MaterialiseWrite
  <2>2. rules' = rules /\ ~Clashes(o, claim)
    BY <1>4 DEF MaterialiseWrite
  <2> HIDE DEF claim
  <2>3. \A s \in Seats : claim[s] # 0 => claim[s] \in rules
    BY <2>2 DEF Clashes
  <2>4. \A s \in Seats : quota'[s].rule # 0 => quota'[s].rule \in rules
    BY <2>1, <2>3 DEF NoQuota
  <2> QED BY <2>2, <2>4
<1>5. ASSUME NEW r \in RuleIds, DeleteRule(r) PROVE Explained'
  BY <1>5 DEF DeleteRule, NoQuota
<1>6. ASSUME NEW s \in Seats, Lapse(s) PROVE Explained'
  BY <1>6 DEF Lapse, QuotaTypeOK, QuotaRows
<1>7. ASSUME NEW o \in Operators, ReleaseWrite(o) PROVE Explained'
  BY <1>7, <1>r DEF ReleaseWrite
<1>8. CASE ReleaseTrip
  BY <1>8, <1>r DEF ReleaseTrip
<1>9. Sales => UNCHANGED <<quota, rules>>
  BY DEF Sales, Take, GiveBack, CoachTurns
<1>10. ASSUME NEW o \in Operators PROVE CallLost(o) \/ ReleaseRead(o) => UNCHANGED <<quota, rules>>
  BY DEF CallLost, ReleaseRead, Begin
<1>11. ASSUME NEW o \in Operators, NEW s \in Seats, NEW pair \in Pairs
       PROVE  SetRead(o, s, pair) => UNCHANGED <<quota, rules>>
  BY DEF SetRead, Begin
<1>12. ASSUME NEW o \in Operators, NEW replace \in BOOLEAN
       PROVE  MaterialiseRead(o, replace) => UNCHANGED <<quota, rules>>
  BY DEF MaterialiseRead, Begin
<1> QED BY <1>1, <1>2, <1>3, <1>4, <1>5, <1>6, <1>7, <1>8, <1>9, <1>10, <1>11, <1>12
        DEF QuotaNext, Reserving

\* A step that starts no run leaves its hold on a row to each that has one.
LEMMA DoneHolds ==
  ASSUME QuotaTypeOK, NEW o \in Operators, NEW gone, operator' = Done(o, gone),
         NEW p \in Operators, NEW s \in Seats
  PROVE  Holds(p, s)' <=> p # o /\ Holds(p, s)
<1>1. CASE p = o
  BY <1>1 DEF Done, Holds, Idle
<1>2. CASE p # o
  <2>1. operator'[p] = Forget(operator[p], gone)
    BY <1>2 DEF Done
  <2>2. operator[p] \in Calls
    BY DEF QuotaTypeOK
  <2> QED BY <1>2, <2>1, <2>2 DEF Forget, Holds, Calls
<1> QED BY <1>1, <1>2

LEMMA ForgetHolds ==
  ASSUME QuotaTypeOK, NEW gone, operator' = [o \in Operators |-> Forget(operator[o], gone)],
         NEW p \in Operators, NEW s \in Seats
  PROVE  Holds(p, s)' <=> Holds(p, s)
<1>1. operator'[p] = Forget(operator[p], gone) /\ operator[p] \in Calls
  BY DEF QuotaTypeOK
<1> QED BY <1>1 DEF Forget, Holds, Calls

LEMMA LocksStep == QuotaTypeOK /\ Locks /\ QuotaNext => Locks'
<1> SUFFICES ASSUME QuotaTypeOK, Locks, QuotaNext PROVE Locks'
  OBVIOUS
<1>t. quota \in [Seats -> QuotaRows] /\ operator \in [Operators -> Calls]
  BY DEF QuotaTypeOK
\* The holds are no more than before, and a row that is held keeps its rule.
<1>k. ASSUME \A p \in Operators, s \in Seats :
               Holds(p, s)' => Holds(p, s) /\ (quota[s].rule # 0 => quota'[s].rule # 0)
      PROVE  Locks'
  BY <1>k DEF Locks, Alone
<1>r. ASSUME NEW seats, NEW s \in Seats, quota' = Released(seats)
      PROVE  quota'[s].rule = quota[s].rule
  BY <1>t, <1>r DEF Released, QuotaRows
<1>1. ASSUME UNCHANGED <<quota, operator>> PROVE Locks'
  BY <1>1, <1>k DEF Holds
<1>2. ASSUME NEW o \in Operators, SetWrite(o) PROVE Locks'
  <2>1. operator' = Done(o, {})
    BY <1>2 DEF SetWrite
  <2>2. ASSUME NEW s \in Seats, NEW p \in Operators, Holds(p, s)
        PROVE  quota'[s] = quota[s]
    BY <1>2, <2>2 DEF SetWrite, Locked, Holds
  <2> QED BY <2>1, <2>2, <1>k, DoneHolds
<1>3. ASSUME NEW t \in Seats, ClearSeatQuota(t) PROVE Locks'
  <2>1. operator' = [o \in Operators |-> Forget(operator[o], {t})]
    BY <1>3 DEF ClearSeatQuota
  <2>2. ASSUME NEW s \in Seats, NEW p \in Operators, Holds(p, s)
        PROVE  quota'[s] = quota[s]
    BY <1>3, <1>t, <2>2 DEF ClearSeatQuota, Locked, Holds
  <2> QED BY <2>1, <2>2, <1>k, ForgetHolds
<1>4. ASSUME NEW r \in RuleIds, DeleteRule(r) PROVE Locks'
  <2>1. PICK freed : /\ \A s \in freed : ~Locked(s)
                     /\ quota' = [s \in Seats |-> IF s \in freed THEN NoQuota ELSE quota[s]]
                     /\ operator' = [o \in Operators |-> Forget(operator[o], freed)]
    BY <1>4 DEF DeleteRule
  <2>2. ASSUME NEW s \in Seats, NEW p \in Operators, Holds(p, s)
        PROVE  quota'[s] = quota[s]
    BY <2>1, <2>2 DEF Locked, Holds
  <2> QED BY <2>1, <2>2, <1>k, ForgetHolds
<1>5. ASSUME NEW t \in Seats, Lapse(t) PROVE Locks'
  <2>1. \A s \in Seats : quota'[s].rule = quota[s].rule
    BY <1>5, <1>t DEF Lapse, QuotaRows
  <2> QED BY <1>5, <2>1, <1>k DEF Lapse, Holds
<1>6. ASSUME NEW o \in Operators, ReleaseWrite(o) PROVE Locks'
  BY <1>6, <1>r, <1>k, DoneHolds DEF ReleaseWrite
<1>7. CASE ReleaseTrip
  BY <1>7, <1>r, <1>k DEF ReleaseTrip, Holds
<1>8. ASSUME NEW o \in Operators, MaterialiseWrite(o) PROVE Locks'
  <2> DEFINE claim == Claims(operator[o].seats, operator[o].rules)
  <2>1. /\ operator' = Done(o, operator[o].dropped)
        /\ ~Clashes(o, claim)
        /\ operator[o].stage = "materialising"
        /\ quota' = [s \in Seats |->
              IF claim[s] # 0
              THEN [pair |-> Rules[claim[s]].pair, state |-> "held", rule |-> claim[s]]
              ELSE IF s \in operator[o].dropped THEN NoQuota ELSE quota[s]]
    BY <1>8 DEF MaterialiseWrite
  <2> HIDE DEF claim
  <2>2. ASSUME NEW s \in Seats, NEW p \in Operators, p # o, Holds(p, s)
        PROVE  quota'[s] = quota[s]
    <3>1. quota[s] # NoQuota
      BY <2>2 DEF Locks, NoQuota
    <3>2. s \notin operator[o].dropped
      BY <2>1, <2>2 DEF Locks, Alone, Holds
    <3>3. claim[s] = 0
      BY <2>1, <3>1, <3>2 DEF Clashes
    <3> QED BY <2>1, <3>2, <3>3
  <2>3. ASSUME NEW s \in Seats, NEW p \in Operators, Holds(p, s)'
        PROVE  p # o /\ Holds(p, s)
    BY <2>1, <2>3, DoneHolds
  <2> QED BY <2>2, <2>3, <1>k
<1>9. ASSUME NEW o \in Operators, CallLost(o) PROVE Locks'
  BY <1>9, <1>k, DoneHolds DEF CallLost
\* A call begins that deletes no rows.
<1>b. ASSUME NEW o \in Operators, NEW call, Begin(o, call), call.dropped = {} PROVE Locks'
  <2>1. \A p \in Operators, s \in Seats : Holds(p, s)' => Holds(p, s)
    BY <1>t, <1>b DEF Begin, Holds
  <2> QED BY <1>b, <2>1, <1>k DEF Begin
<1>10. ASSUME NEW o \in Operators, ReleaseRead(o) PROVE Locks'
  BY <1>10, <1>b DEF ReleaseRead, Idle
<1>11. ASSUME NEW o \in Operators, NEW s \in Seats, NEW pair \in Pairs, SetRead(o, s, pair)
       PROVE  Locks'
  BY <1>11, <1>b DEF SetRead, Idle
<1>12. ASSUME NEW o \in Operators, NEW replace \in BOOLEAN, MaterialiseRead(o, replace)
       PROVE  Locks'
  <2>1. PICK dropped : /\ dropped \subseteq RuleMade /\ \A s \in dropped : ~Locked(s)
                       /\ operator'[o].dropped = dropped
                       /\ \A p \in Operators \ {o} : operator'[p] = operator[p]
                       /\ quota' = quota
    <3> DEFINE dropped == IF replace THEN RuleMade ELSE {}
    <3>1. dropped \subseteq RuleMade /\ \A s \in dropped : ~Locked(s)
      BY <1>12 DEF MaterialiseRead
    <3>2. operator'[o].dropped = dropped
      BY <1>t, <1>12 DEF MaterialiseRead, Begin, Idle
    <3>3. quota' = quota /\ \A p \in Operators \ {o} : operator'[p] = operator[p]
      BY <1>t, <1>12 DEF MaterialiseRead, Begin
    <3> HIDE DEF dropped
    <3> QED BY <3>1, <3>2, <3>3
  <2>2. ASSUME NEW p \in Operators, NEW s \in Seats, Holds(p, s)'
        PROVE  quota'[s].rule # 0 /\ Alone(p, s)'
    <3>1. CASE p = o
      <4>1. s \in dropped
        BY <2>1, <2>2, <3>1 DEF Holds
      <4>2. quota[s].rule # 0 /\ ~Locked(s)
        BY <2>1, <4>1 DEF RuleMade
      <4> QED BY <2>1, <3>1, <4>2 DEF Alone, Holds, Locked
    <3>2. CASE p # o
      <4>1. Holds(p, s)
        BY <2>1, <2>2, <3>2 DEF Holds
      <4>2. quota[s].rule # 0 /\ Alone(p, s) /\ Locked(s)
        BY <4>1 DEF Locks, Holds, Locked
      <4>3. ~Holds(o, s)'
        BY <2>1, <4>2 DEF Holds
      <4>4. \A q \in Operators \ {o} : Holds(q, s)' <=> Holds(q, s)
        BY <2>1 DEF Holds
      <4> QED BY <2>1, <4>2, <4>3, <4>4 DEF Alone
    <3> QED BY <3>1, <3>2
  <2> QED BY <2>2 DEF Locks
<1>13. Sales => UNCHANGED <<quota, operator>>
  BY DEF Sales, Take, GiveBack, CoachTurns
<1> QED BY <1>1, <1>2, <1>3, <1>4, <1>5, <1>6, <1>7, <1>8, <1>9, <1>10, <1>11, <1>12, <1>13
        DEF QuotaNext, Reserving

LEMMA NextIInv == IInv /\ [Next]_vars => IInv'
<1> SUFFICES ASSUME IInv, [Next]_vars PROVE IInv'
  OBVIOUS
<1> USE DEF IInv, TypeOK
<1>1. CASE Propose
  <2>1. buyer' \in Buyers
    BY <1>1, AnswerType DEF Propose
  <2> QED BY <1>1, <2>1 DEF Propose, QuotaTypeOK, Explained, Locks, Alone, Holds
<1>2. CASE Hold
  <2>1. [buyer EXCEPT !.stage = "held"] \in Buyers
    BY DEF Buyers
  <2>2. Needed \subseteq Segments
    BY QuotasAssumption DEF Needed, SegmentsBetween, Segments, Requests, Stops
  <2>3. row' \in [Seats -> SUBSET Segments]
    BY <1>2, <2>2 DEF Hold, QuotaTypeOK
  <2> QED BY <1>2, <2>1, <2>3 DEF Hold, QuotaTypeOK, Explained, Locks, Alone, Holds
<1>3. CASE Conflict
  <2>1. ASSUME buyer.attempt < MaxAttempts
        PROVE  [buyer EXCEPT !.stage = "asking", !.attempt = @ + 1, !.seats = {},
                             !.togetherness = 0, !.relaxed = FALSE] \in Buyers
    <3>1. {} \in SUBSET Seats /\ buyer.attempt + 1 \in 1 .. MaxAttempts
      BY <2>1, SelectionAssumption DEF Buyers
    <3> QED BY <3>1 DEF Buyers
  <2>2. buyer' \in Buyers
    BY <1>3, <2>1, RefusalType DEF Conflict, ChooseAgain
  <2> QED BY <1>3, <2>2 DEF Conflict, QuotaTypeOK, Explained, Locks, Alone, Holds
<1>4. CASE QuotaNext /\ UNCHANGED <<request, buyer>>
  BY <1>4, QuotaStep, ExplainedStep, LocksStep
<1>5. CASE UNCHANGED vars
  BY <1>5 DEF vars, QuotaTypeOK, Explained, Locks, Alone, Holds
<1> QED BY <1>1, <1>2, <1>3, <1>4, <1>5 DEF Next

LEMMA SpecIInv == Spec => []IInv
BY InitIInv, NextIInv, PTL DEF Spec

-----------------------------------------------------------------------------
\* The types of the seats, the reservations, the calls and the answer.
THEOREM SpecTypeOK == Spec => []TypeOK
<1>1. IInv => TypeOK
  BY DEF IInv
<1> QED BY <1>1, SpecIInv, PTL

\* Any rules and operators: no reservation outlives its rule (deleteRule, materialiseForTrip).
THEOREM SpecExplained == Spec => []Explained
<1>1. IInv => Explained
  BY DEF IInv
<1> QED BY <1>1, SpecIInv, PTL

\* Two journeys overlap, as half-open intervals, exactly when both travel from some stop to
\* the next (journeysOverlap).
THEOREM OverlapIsShared ==
  ASSUME NEW a \in Stops, NEW b \in Stops, NEW c \in Stops, NEW d \in Stops, a < b, c < d
  PROVE  JourneysOverlap(a, b, c, d) <=> Travelled(a, b) \cap Travelled(c, d) # {}
<1> USE QuotasAssumption
<1>1. ASSUME JourneysOverlap(a, b, c, d) PROVE Travelled(a, b) \cap Travelled(c, d) # {}
  <2>1. CASE a <= c
    <3>1. c \in Travelled(a, b) \cap Travelled(c, d)
      BY <1>1, <2>1 DEF JourneysOverlap, Travelled, Stops
    <3> QED BY <3>1
  <2>2. CASE ~(a <= c)
    <3>1. a \in Travelled(a, b) \cap Travelled(c, d)
      BY <1>1, <2>2 DEF JourneysOverlap, Travelled, Stops
    <3> QED BY <3>1
  <2> QED BY <2>1, <2>2
<1>2. ASSUME NEW k \in Travelled(a, b) \cap Travelled(c, d) PROVE JourneysOverlap(a, b, c, d)
  BY DEF JourneysOverlap, Travelled, Stops
<1> QED BY <1>1, <1>2

\* What is on sale for a journey is exactly what is on offer stop by stop
\* (computeAvailability).
THEOREM AvailableIsOnOffer ==
  ASSUME TypeOK, request.from < request.to
  PROVE  Free = {s \in Seats : OnOffer(s)}
<1> USE QuotasAssumption
<1> DEFINE from == request.from  to == request.to
<1>1. from \in Stops /\ to \in Stops /\ from < to
  BY DEF TypeOK, Requests
<1>2. ASSUME NEW s \in Seats
      PROVE  IsFree(row[s], SegmentsBetween(from, to)) <=> ~Taken(s)
  <2>1. ASSUME NEW g \in SegmentsBetween(from, to)
        PROVE  g + 1 \in Travelled(from, to) /\ (g + 1) - 1 = g
    BY <1>1 DEF SegmentsBetween, Travelled, Stops
  <2>2. ASSUME NEW k \in Travelled(from, to) PROVE k - 1 \in SegmentsBetween(from, to)
    BY <1>1 DEF SegmentsBetween, Travelled, Stops
  <2>3. Taken(s) <=> \E k \in Travelled(from, to) : k - 1 \in row[s]
    BY DEF Taken
  <2>4. IsFree(row[s], SegmentsBetween(from, to)) <=>
          ~ \E g \in SegmentsBetween(from, to) : g \in row[s]
    BY DEF IsFree
  <2> QED BY <2>1, <2>2, <2>3, <2>4
<1>3. ASSUME NEW s \in Seats
      PROVE  QuotaPermits(quota[s], from, to) <=> ~PromisedToOthers(s)
  <2> DEFINE q == quota[s]
  <2>1. q.state \in {"none", "held", "due", "released"} /\ q.pair \in Pairs \union {<<0, 0>>}
    BY DEF TypeOK, QuotaTypeOK, QuotaRows
  <2>2. JourneysOverlap(from, to, q.pair[1], q.pair[2]) <=>
          Travelled(from, to) \cap Travelled(q.pair[1], q.pair[2]) # {}
    <3>1. CASE q.pair \in Pairs
      <4>1. q.pair[1] \in Stops /\ q.pair[2] \in Stops /\ q.pair[1] < q.pair[2]
        BY <3>1 DEF Pairs
      <4> QED BY <1>1, <4>1, OverlapIsShared
    <3>2. CASE q.pair = <<0, 0>>
      <4>1. Travelled(0, 0) = {}
        BY DEF Travelled, Stops
      <4>2. ~JourneysOverlap(from, to, 0, 0)
        BY <1>1 DEF JourneysOverlap, Stops
      <4> QED BY <3>2, <4>1, <4>2
    <3> QED BY <2>1, <3>1, <3>2
  <2> QED BY <2>1, <2>2 DEF QuotaPermits, PromisedToOthers
<1> QED BY <1>2, <1>3 DEF Free, Available, SellableSeats, OnOffer

\* Whatever is chosen, on any layout: what is proposed was on offer when it was read (propose).
THEOREM SpecOffersWhatIsOnOffer == Spec => OffersWhatIsOnOffer
<1>1. IInv /\ [Next]_vars => [Proposes => \A s \in buyer'.seats : OnOffer(s)]_vars
  <2> SUFFICES ASSUME IInv, Next, Proposes PROVE \A s \in buyer'.seats : OnOffer(s)
    OBVIOUS
  <2>1. Propose
    BY DEF Next, Hold, Conflict, Proposes
  <2>2. buyer' \in AutoSelected
    BY <2>1 DEF Propose
  <2>3. buyer'.seats \subseteq Free
    BY <2>2, AnswerType DEF Proposes, IInv, TypeOK
  <2> QED BY <2>3, AvailableIsOnOffer DEF IInv
<1> QED BY <1>1, SpecIInv, PTL DEF Spec, OffersWhatIsOnOffer

\* The choices there are: as many seats as were asked for, out of those that match or, where
\* too few do, of all that are free.
Candidates == {B \in SUBSET Pool(Relaxes) : Cardinality(B) = request.count}

\* They are the ones the passenger would have: those on offer that have all that was asked for
\* or, where there are none, all that are on offer; there are some unless seats are short.
LEMMA CandidatesAre ==
  ASSUME TypeOK, request.from < request.to
  PROVE  /\ request.count \in Nat \ {0} /\ Pool(Relaxes) \subseteq Seats
         /\ Relaxes <=> Liked = {}
         /\ Candidates = IF Liked = {} THEN Blocks ELSE Liked
         /\ Cardinality(Free) < request.count => Blocks = {}
         /\ ~(Cardinality(Free) < request.count) =>
              request.count <= Cardinality(Pool(Relaxes))
<1> DEFINE n == request.count
<1>1. n \in Nat \ {0} /\ request.wish \in SUBSET Seats
  BY DEF TypeOK, Requests
<1>2. Free = {s \in Seats : OnOffer(s)}
  BY AvailableIsOnOffer
<1>3. Blocks = {B \in SUBSET Free : Cardinality(B) = n}
  BY <1>2 DEF Blocks
<1>4. Liked = {B \in SUBSET Matching : Cardinality(B) = n}
  BY <1>3 DEF Liked, Matching
<1>5. Free \subseteq Seats /\ Matching \subseteq Seats /\ Pool(Relaxes) \subseteq Seats
  BY <1>2 DEF Matching, Pool
<1>6. /\ IsFiniteSet(Free) /\ Cardinality(Free) \in Nat
      /\ IsFiniteSet(Matching) /\ Cardinality(Matching) \in Nat
  BY <1>5, Choosable, FS_CardinalityType
<1>7. Cardinality(Free) < n => Blocks = {}
  <2> SUFFICES ASSUME Cardinality(Free) < n, NEW B \in Blocks PROVE FALSE
    OBVIOUS
  <2>1. B \in SUBSET Free /\ Cardinality(B) = n
    BY <1>3
  <2>2. Cardinality(B) <= Cardinality(Free)
    BY <1>6, <2>1, FS_Subset
  <2> QED BY <1>1, <1>6, <2>1, <2>2
<1>8. Relaxes => Liked = {}
  <2> SUFFICES ASSUME Relaxes, NEW B \in Liked PROVE FALSE
    OBVIOUS
  <2>1. B \in SUBSET Matching /\ Cardinality(B) = n
    BY <1>4
  <2>2. Cardinality(B) <= Cardinality(Matching)
    BY <1>6, <2>1, FS_Subset
  <2> QED BY <1>1, <1>6, <2>1, <2>2 DEF Relaxes
<1>9. ASSUME ~Relaxes PROVE Liked # {}
  <2>1. n <= Cardinality(Matching)
    BY <1>1, <1>6, <1>9 DEF Relaxes
  <2>2. Cardinality(First(Matching, n)) = n
    BY <1>1, <1>5, <2>1, FirstSize
  <2>3. First(Matching, n) \in Liked
    BY <1>4, <2>2, FirstType
  <2> QED BY <2>3
<1>10. Candidates = IF Liked = {} THEN Blocks ELSE Liked
  BY <1>3, <1>4, <1>8, <1>9 DEF Candidates, Pool
<1>11. ~(Cardinality(Free) < n) => n <= Cardinality(Pool(Relaxes))
  BY <1>1, <1>6 DEF Pool, Relaxes
<1> QED BY <1>1, <1>5, <1>7, <1>8, <1>9, <1>10, <1>11

\* What an answer says: why it refuses, or which of the choices it proposes.
RefusesFairly(answer) ==
  /\ answer.stage = "refused"
  /\ \/ Blocks = {}
     \/ request.strict /\ \A B \in Blocks : ~Answers(B)
ProposesWell(answer) ==
  /\ answer.stage = "proposed" /\ answer.seats \in Candidates /\ answer.relaxed = Relaxes
  /\ answer.togetherness = Describe(answer.seats)
  /\ request.together => \A B \in Candidates : answer.togetherness <= Describe(B)
  /\ request.strict => ~Relaxes /\ (request.together => answer.togetherness <= SameRow)

LEMMA AnswersWell ==
  ASSUME TypeOK, request.from < request.to, NEW answer \in AutoSelected
  PROVE  RefusesFairly(answer) \/ ProposesWell(answer)
<1> DEFINE n == request.count
           pool == Pool(Relaxes)
           chosen == First(pool, n)
<1>1. buyer \in Buyers
  BY DEF TypeOK
<1>2. \A reason : Refusal(reason).stage = "refused"
  BY <1>1 DEF Refusal, Buyers
<1>3. \A seats : \A k : /\ Proposal(seats, k).stage = "proposed"
                        /\ Proposal(seats, k).seats = seats
                        /\ Proposal(seats, k).togetherness = k
                        /\ Proposal(seats, k).relaxed = Relaxes
  BY <1>1 DEF Proposal, Buyers
<1>4. /\ n \in Nat \ {0} /\ pool \subseteq Seats
      /\ Relaxes <=> Liked = {}
      /\ Candidates = IF Liked = {} THEN Blocks ELSE Liked
      /\ Cardinality(Free) < n => Blocks = {}
      /\ ~(Cardinality(Free) < n) => n <= Cardinality(pool)
  BY CandidatesAre
<1>5. CASE Cardinality(Free) < n
  <2>1. answer = Refusal("not_enough_seats")
    BY <1>5 DEF AutoSelected
  <2> QED BY <1>2, <1>4, <1>5, <2>1 DEF RefusesFairly
<1>6. CASE ~(Cardinality(Free) < n) /\ Relaxes /\ request.strict
  <2>1. answer = Refusal("criteria_unmet")
    BY <1>6 DEF AutoSelected
  <2>2. \A B \in Blocks : ~Answers(B)
    BY <1>4, <1>6 DEF Answers
  <2> QED BY <1>2, <1>6, <2>1, <2>2 DEF RefusesFairly
<1>7. CASE ~(Cardinality(Free) < n) /\ ~(Relaxes /\ request.strict) /\ ~request.together
  <2>1. answer = Proposal(chosen, Describe(chosen))
    BY <1>7 DEF AutoSelected
  <2>2. chosen \subseteq pool /\ Cardinality(chosen) = n
    BY <1>4, <1>7, FirstSize, FirstType
  <2>3. chosen \in Candidates
    BY <2>2 DEF Candidates
  <2> QED BY <1>3, <1>7, <2>1, <2>3 DEF ProposesWell
<1>8. CASE ~(Cardinality(Free) < n) /\ ~(Relaxes /\ request.strict) /\ request.together
  <2>1. PICK block \in BestBlocks(pool, n) :
          answer = IF request.strict /\ Refuses(block) THEN Refusal("cannot_seat_together")
                   ELSE Proposal(block.seats, block.togetherness)
    BY <1>8 DEF AutoSelected
  <2>2. /\ block.seats \in Candidates
        /\ block.togetherness = Describe(block.seats)
        /\ \A B \in Candidates : block.togetherness <= Describe(B)
    <3>1. pool \subseteq Seats /\ n \in Nat \ {0}
      BY <1>4
    <3> HIDE DEF pool, n
    <3>2. /\ block.seats \subseteq pool /\ Cardinality(block.seats) = n
          /\ block.togetherness = Describe(block.seats)
          /\ \A B \in SUBSET pool : Cardinality(B) = n => block.togetherness <= Describe(B)
      BY <2>1, <3>1, BestBlocksAreClosest
    <3>3. \A B : B \in Candidates <=> B \in SUBSET pool /\ Cardinality(B) = n
      BY DEF Candidates, pool, n
    <3> QED BY <3>2, <3>3
  <2>3. block.togetherness \in Togetherness /\ \A B : Describe(B) \in Togetherness
    BY <2>2, DescribeType
  <2>4. CASE request.strict /\ Refuses(block)
    <3>1. \A B \in Liked : B \in Candidates
      BY <1>4
    <3>2. ASSUME NEW B \in Liked PROVE ~(Describe(B) <= SameRow)
      <4>1. block.togetherness <= Describe(B)
        BY <2>2, <3>1
      <4> QED BY <2>3, <2>4, <4>1 DEF Refuses, Togetherness, SameRow
    <3>3. \A B \in Blocks : ~Answers(B)
      BY <1>8, <3>2 DEF Answers
    <3> QED BY <1>2, <2>1, <2>4, <3>3 DEF RefusesFairly
  <2>5. CASE ~(request.strict /\ Refuses(block))
    <3>1. request.strict => block.togetherness <= SameRow
      BY <2>3, <2>5 DEF Refuses, Togetherness, SameRow
    <3> QED BY <1>3, <1>8, <2>1, <2>2, <2>5, <3>1 DEF ProposesWell
  <2> QED BY <2>4, <2>5
<1> QED BY <1>5, <1>6, <1>7, <1>8

LEMMA AskedIsAnswered ==
  ASSUME IInv, Next, buyer.stage = "asking", buyer'.stage # "asking"
  PROVE  RefusesFairly(buyer') \/ ProposesWell(buyer')
<1>1. Propose
  BY DEF Next, Hold, Conflict
<1> QED BY <1>1, AnswersWell DEF Propose, IInv

\* On any layout, whoever takes and reserves seats meanwhile: asked for seats together, no other
\* choice of as many is closer than what is proposed, and what is said of it is so (bestBlock).
THEOREM SpecAsCloseAsCan == Spec => AsCloseAsCan
<1>1. IInv /\ [Next]_vars =>
        [Proposes => /\ buyer'.togetherness = Describe(buyer'.seats)
                     /\ request.together =>
                          \A B \in (IF Liked = {} THEN Blocks ELSE Liked) :
                            buyer'.togetherness <= Describe(B)]_vars
  <2> SUFFICES ASSUME IInv, Next, Proposes
               PROVE  /\ buyer'.togetherness = Describe(buyer'.seats)
                      /\ request.together =>
                           \A B \in (IF Liked = {} THEN Blocks ELSE Liked) :
                             buyer'.togetherness <= Describe(B)
    OBVIOUS
  <2>1. ProposesWell(buyer')
    BY AskedIsAnswered DEF Proposes, RefusesFairly
  <2>2. Candidates = IF Liked = {} THEN Blocks ELSE Liked
    BY CandidatesAre DEF IInv
  <2> QED BY <2>1, <2>2 DEF ProposesWell
<1> QED BY <1>1, SpecIInv, PTL DEF Spec, AsCloseAsCan

\* Nobody is let down in silence: a strict request is refused exactly when nothing on offer has
\* all it asks for, and any other gives up a wish only then, and says so (autoSelect).
THEOREM SpecNoSilentLetDown == Spec => NoSilentLetDown
<1>1. IInv /\ [Next]_vars =>
        [/\ Proposes => /\ buyer'.seats \in Blocks
                        /\ ~buyer'.relaxed => buyer'.seats \in Liked
                        /\ buyer'.relaxed => Liked = {}
                        /\ request.strict => Answers(buyer'.seats)
         /\ RefusesNow => /\ request.strict => \A B \in Blocks : ~Answers(B)
                          /\ ~request.strict => Blocks = {}]_vars
  <2> SUFFICES ASSUME IInv, Next
               PROVE  /\ Proposes => /\ buyer'.seats \in Blocks
                                     /\ ~buyer'.relaxed => buyer'.seats \in Liked
                                     /\ buyer'.relaxed => Liked = {}
                                     /\ request.strict => Answers(buyer'.seats)
                      /\ RefusesNow => /\ request.strict => \A B \in Blocks : ~Answers(B)
                                       /\ ~request.strict => Blocks = {}
    OBVIOUS
  <2>1. /\ Relaxes <=> Liked = {}
        /\ Candidates = IF Liked = {} THEN Blocks ELSE Liked
    BY CandidatesAre DEF IInv
  <2>2. ASSUME Proposes
        PROVE  /\ buyer'.seats \in Blocks
               /\ ~buyer'.relaxed => buyer'.seats \in Liked
               /\ buyer'.relaxed => Liked = {}
               /\ request.strict => Answers(buyer'.seats)
    <3>1. ProposesWell(buyer')
      BY <2>2, AskedIsAnswered DEF Proposes, RefusesFairly
    <3>2. Liked \subseteq Blocks
      BY DEF Liked
    <3> QED BY <2>1, <3>1, <3>2 DEF ProposesWell, Answers
  <2>3. ASSUME RefusesNow
        PROVE  /\ request.strict => \A B \in Blocks : ~Answers(B)
               /\ ~request.strict => Blocks = {}
    <3>1. RefusesFairly(buyer')
      BY <2>3, AskedIsAnswered DEF RefusesNow, ProposesWell
    <3> QED BY <3>1 DEF RefusesFairly
  <2> QED BY <2>2, <2>3
<1> QED BY <1>1, SpecIInv, PTL DEF Spec, NoSilentLetDown

\* Any number of runs and operators at once: the standing rules take no seat that is reserved
\* by hand (materialiseForTrip, and the one row each seat may have).
THEOREM SpecHandPlacedStands == Spec => HandPlacedStands
<1> DEFINE Stands ==
      \A s \in Seats : quota[s] # NoQuota /\ quota[s].rule = 0 => quota'[s].rule = 0
<1>1. IInv /\ [Next]_vars => [Stands]_quotaVars
  <2> SUFFICES ASSUME IInv, [Next]_vars, NEW s \in Seats, quota[s] # NoQuota,
                      quota[s].rule = 0
               PROVE  quota'[s].rule = 0
    OBVIOUS
  <2>t. quota \in [Seats -> QuotaRows]
    BY DEF IInv, TypeOK, QuotaTypeOK
  <2>r. \A seats : Released(seats)[s].rule = 0
    BY <2>t DEF Released, QuotaRows
  <2>n. NoQuota.rule = 0
    BY DEF NoQuota
  <2>1. ASSUME UNCHANGED quota PROVE quota'[s].rule = 0
    BY <2>1
  <2>2. ASSUME NEW o \in Operators, MaterialiseWrite(o) PROVE quota'[s].rule = 0
    <3> DEFINE claim == Claims(operator[o].seats, operator[o].rules)
    <3>1. quota'[s] = IF claim[s] # 0
                      THEN [pair |-> Rules[claim[s]].pair, state |-> "held", rule |-> claim[s]]
                      ELSE IF s \in operator[o].dropped THEN NoQuota ELSE quota[s]
      BY <2>2 DEF MaterialiseWrite
    <3>2. ~Clashes(o, claim)
      BY <2>2 DEF MaterialiseWrite
    <3> HIDE DEF claim
    <3>3. s \notin operator[o].dropped
      BY <2>2 DEF IInv, Locks, Holds, MaterialiseWrite
    <3>4. claim[s] = 0
      BY <3>2, <3>3 DEF Clashes
    <3> QED BY <3>1, <3>3, <3>4
  <2>3. ASSUME NEW o \in Operators, SetWrite(o) PROVE quota'[s].rule = 0
    BY <2>3 DEF SetWrite
  <2>4. ASSUME NEW o \in Operators, ReleaseWrite(o) PROVE quota'[s].rule = 0
    BY <2>4, <2>r DEF ReleaseWrite
  <2>5. ASSUME ReleaseTrip PROVE quota'[s].rule = 0
    BY <2>5, <2>r DEF ReleaseTrip
  <2>6. ASSUME NEW t \in Seats, ClearSeatQuota(t) PROVE quota'[s].rule = 0
    BY <2>6, <2>t, <2>n DEF ClearSeatQuota
  <2>7. ASSUME NEW t \in Seats, Lapse(t) PROVE quota'[s].rule = 0
    BY <2>7, <2>t DEF Lapse, QuotaRows
  <2>8. ASSUME NEW r \in RuleIds, DeleteRule(r) PROVE quota'[s].rule = 0
    BY <2>8, <2>n DEF DeleteRule
  <2>9. Sales => UNCHANGED quota
    BY DEF Sales, Take, GiveBack, CoachTurns
  <2>10. ASSUME NEW o \in Operators PROVE CallLost(o) \/ ReleaseRead(o) => UNCHANGED quota
    BY DEF CallLost, ReleaseRead, Begin
  <2>11. ASSUME NEW o \in Operators, NEW t \in Seats, NEW pair \in Pairs
         PROVE  SetRead(o, t, pair) => UNCHANGED quota
    BY DEF SetRead, Begin
  <2>12. ASSUME NEW o \in Operators, NEW replace \in BOOLEAN
         PROVE  MaterialiseRead(o, replace) => UNCHANGED quota
    BY DEF MaterialiseRead, Begin
  <2>13. QuotaNext => quota'[s].rule = 0
    BY <2>1, <2>2, <2>3, <2>4, <2>5, <2>6, <2>7, <2>8, <2>9, <2>10, <2>11, <2>12
       DEF QuotaNext, Reserving
  <2>14. Propose \/ Hold \/ Conflict => UNCHANGED quota
    BY DEF Propose, Hold, Conflict
  <2> QED BY <2>1, <2>13, <2>14 DEF Next, vars
<1> QED BY <1>1, SpecIInv, PTL DEF Spec, HandPlacedStands
===============================================================================
