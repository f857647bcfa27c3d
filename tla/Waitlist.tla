------------------------------- MODULE Waitlist -------------------------------
(***************************************************************************)
(* The queue for a departure that is full: joining it, passes over it that *)
(* offer freed seats, offers that are taken, declined, left or run out     *)
(* (waitlistService, the holds of holdService it makes, and the in-process *)
(* chain of passes).  Everybody queues for one stretch of route, where one *)
(* seat is as good as another, so seats are counted.                       *)
(*                                                                         *)
(* No call of the queue works in a transaction of its own.  Each reads an  *)
(* entry, works on that copy, and writes at the end the columns its copy   *)
(* shows changed, whatever the row has become: ending and confirming are   *)
(* such calls, with what their copy shows.  A pass holds seats first and   *)
(* claims the entry after.  What others buy and give back is Take and      *)
(* GiveBack; a checkout's own races are in SeatSales.  One pass runs at a  *)
(* time, and one run of each job.                                          *)
(***************************************************************************)
EXTENDS Integers, FiniteSets, FiniteSetsExt

CONSTANTS
  MaxEntries,   \* bound: entries are 1 .. MaxEntries, in the order of joining
  Wants,        \* how many seats each wants
  Capacity,     \* seats of the departure
  MaxHolds,     \* bound: ids of holds in use at once are 1 .. MaxHolds
  MaxAttempts,  \* selectionService.MAX_ATTEMPTS
  Limit,        \* the setting waitlist.max_open_offers_missed
  MaxCalls,     \* bound: no call or run of a job starts while so many are in progress
  Departs,      \* bound: whether the departure's day may end
  Crashes       \* bound: whether the process may die

ASSUME WaitlistAssumption ==
  /\ MaxEntries \in Nat /\ Wants \in [1 .. MaxEntries -> Nat \ {0}]
  /\ Capacity \in Nat /\ MaxHolds \in Nat /\ MaxCalls \in Nat
  /\ MaxAttempts \in Nat \ {0} /\ Limit \in Nat \ {0}
  /\ {Departs, Crashes} \subseteq BOOLEAN

People == 1 .. MaxEntries
Holds == 1 .. MaxHolds
None == 0
OpenStatus == {"waiting", "offered"}
\* closed is any of confirmed, declined, lapsed, withdrawn and closed.
EntryRecords == [status : OpenStatus \union {"none", "closed"},
                 hold : Holds \union {None}, offers : 0 .. Limit]

VARIABLES
  free,        \* how many seats nobody has
  held,        \* held[h]: how many seats an active hold has; 0 where it is not active
  due,         \* holds whose expires_at has passed
  entry,       \* the table waitlist_entries
  joining,     \* joins that have found too few seats and not yet written
  ending,      \* calls that close or requeue an entry, with what their copy shows
  confirming,  \* calls of confirm, with the hold their copy shows
  asked,       \* seats have come back and seatsFreed is about to be called
  pending,     \* a pass waits behind the running one
  pass,        \* the running pass
  gone,        \* the departure's day is over
  givenUp      \* people whose offered seats went some other way than by an answer

inventory == <<free, held, due>>
calls == <<joining, ending, confirming>>
waitlistVars == <<inventory, entry, calls, asked, pending, pass, gone, givenUp>>

\* left: who the pass found waiting and has not come to yet; passed: those it had
\* nothing for; failed: those there were seats for, but every choice was bought by others
\* first or an error ended their turn; chosen: seats have been proposed; lost: others
\* bought since; made: the hold not yet claimed; disturbed: seats came back since it began.
NoPass == [state |-> "idle", left |-> {}, passed |-> {}, failed |-> {}, chosen |-> FALSE,
           lost |-> FALSE, made |-> None, tries |-> 0, disturbed |-> FALSE]

WaitlistInit ==
  /\ free = Capacity
  /\ held = [h \in Holds |-> 0]
  /\ due = {}
  /\ entry = [p \in People |-> [status |-> "none", hold |-> None, offers |-> 0]]
  /\ joining = {} /\ ending = {} /\ confirming = {}
  /\ asked = FALSE /\ pending = FALSE
  /\ pass = NoPass
  /\ gone = FALSE /\ givenUp = {}

Waiting(p) == entry[p].status = "waiting"
Open(p) == entry[p].status \in OpenStatus
Active(h) == held[h] > 0
LiveHold(h) == Active(h) /\ h \notin due

\* The seats that the holds of H have.
SeatsOf(H) == {s \in H \X (1 .. Capacity) : s[2] <= held[s[1]]}

\* holdService.release and expireDue: the seats of H come back, and seatsFreed is
\* called once that is committed if there were any.
GiveSeatsBack(H) ==
  LET back == Cardinality(SeatsOf(H))
  IN /\ free' = free + back
     /\ held' = [h \in Holds |-> IF h \in H THEN 0 ELSE held[h]]
     /\ asked' = (asked \/ back > 0)

OfferedWith(h) == {p \in People : entry[p].status = "offered" /\ entry[p].hold = h}

\* Somebody's answer, or a job, is at work on the entry.
Answering(p) == (\E e \in ending : e.person = p) \/ (\E c \in confirming : c.person = p)

\* The clock goes on mattering for active holds and for offers that stand.
StillDue ==
  due' = {h \in due : held'[h] > 0 \/ \E p \in People :
                      entry'[p].status = "offered" /\ entry'[p].hold = h}

Disturbed == [pass EXCEPT !.disturbed = (pass.state = "offering")]

-----------------------------------------------------------------------------
(* Other passengers, and the clock                                         *)

Take ==
  /\ free > 0 /\ ~gone
  /\ free' = free - 1
  /\ pass' = [pass EXCEPT !.lost = pass.chosen]
  /\ UNCHANGED <<held, due, entry, calls, asked, pending, gone, givenUp>>

\* A return, or somebody else's checkout ending: both call seatsFreed.
GiveBack ==
  /\ free + Cardinality(SeatsOf(Holds)) < Capacity
  /\ free' = free + 1
  /\ asked' = TRUE /\ pass' = Disturbed
  /\ UNCHANGED <<held, due, entry, calls, pending, gone, givenUp>>

\* An offer's window ends: the hold's expires_at and the entry's offer_expires_at.
PassExpiry(h) ==
  /\ h \notin due /\ (Active(h) \/ OfferedWith(h) # {})
  /\ due' = due \union {h}
  /\ givenUp' = givenUp \ OfferedWith(h)
  /\ UNCHANGED <<free, held, entry, calls, asked, pending, pass, gone>>

Depart ==
  /\ Departs /\ ~gone /\ gone' = TRUE
  /\ UNCHANGED <<inventory, entry, calls, asked, pending, pass, givenUp>>

-----------------------------------------------------------------------------
(* Joining: waitlistService.join                                           *)

\* Bound: calls and runs of jobs in progress.
RoomForCall ==
  Cardinality(joining) + Cardinality(confirming) + Cardinality(ending) < MaxCalls

\* It is refused while there are seats enough ...
JoinRead(p) ==
  /\ RoomForCall
  /\ entry[p].status = "none" /\ p \notin joining
  /\ \A q \in 1 .. p - 1 : entry[q].status # "none" \/ q \in joining
  /\ free < Wants[p]
  /\ joining' = joining \union {p}
  /\ UNCHANGED <<inventory, entry, ending, confirming, asked, pending, pass, gone,
                 givenUp>>

\* ... and writes the entry without looking again.  Ids go by who writes first.
JoinWrite(p) ==
  /\ p \in joining /\ \A q \in joining : p <= q
  /\ entry' = [entry EXCEPT ![p].status = "waiting"]
  /\ joining' = joining \ {p}
  /\ UNCHANGED <<inventory, ending, confirming, asked, pending, pass, gone, givenUp>>

-----------------------------------------------------------------------------
(* Passes: seatsFreed, sweep, runSweep and offerTo                         *)

\* Mistake: a pass asked for while another runs is dropped.
ChainsNone == FALSE
\* sweep: a pass waits behind the running one, and later callers share it.
Chains == pass.state \in {"starting", "offering"}

Ask ==
  /\ asked /\ asked' = FALSE
  /\ pending' = (pending \/ Chains)
  /\ pass' = IF pass.state \in {"starting", "offering"} THEN pass
              ELSE [NoPass EXCEPT !.state = "starting"]
  /\ UNCHANGED <<inventory, entry, calls, gone, givenUp>>

List ==
  /\ pass.state = "starting"
  /\ pass' = [pass EXCEPT !.state = "offering",
                             !.left = {p \in People : Waiting(p)}]
  /\ UNCHANGED <<inventory, entry, calls, asked, pending, gone, givenUp>>

\* Mistake: the newest first.
TurnOfNewest == Max(pass.left)
\* In the order of their ids.
Turn == Min(pass.left)

\* The next one's turn.
NextTurn ==
  [pass EXCEPT !.left = pass.left \ {Turn},
               !.chosen = FALSE, !.lost = FALSE, !.made = None, !.tries = 0]
PassOver == [NextTurn EXCEPT !.passed = pass.passed \union {Turn}]
FailTurn == [NextTurn EXCEPT !.failed = pass.failed \union {Turn}]

Looking == /\ pass.state = "offering" /\ pass.left # {}
           /\ ~pass.chosen /\ pass.made = None

\* selectionService.propose: seats are free, and the train has not left.
Choose ==
  /\ Looking /\ free >= Wants[Turn] /\ ~gone
  /\ pass' = [pass EXCEPT !.chosen = TRUE]
  /\ UNCHANGED <<inventory, entry, calls, asked, pending, gone, givenUp>>

\* Nothing for this person: the next one.
Skip ==
  /\ Looking /\ (free < Wants[Turn] \/ gone)
  /\ pass' = PassOver
  /\ UNCHANGED <<inventory, entry, calls, asked, pending, gone, givenUp>>

\* Mistake: the seats still free are held, and no others.
GotWhatIsLeft(p) == IF free > Wants[p] THEN Wants[p] ELSE free
\* holdService.create holds all the seats or none.
Got(p) == IF free >= Wants[p] THEN Wants[p] ELSE 0

\* Ids that nobody could come across any more serve again, the lowest first.
Named == {entry[p].hold : p \in People} \union {e.hold : e \in ending}
         \union {c.hold : c \in confirming}
Unused == {h \in Holds : ~Active(h) /\ h \notin Named}

HoldSeats(h) ==
  /\ pass.chosen /\ Got(Turn) > 0
  /\ h \in Unused /\ \A g \in Unused : h <= g
  /\ free' = free - Got(Turn)
  /\ held' = [held EXCEPT ![h] = Got(Turn)]
  /\ due' = due \ {h}
  /\ pass' = [pass EXCEPT !.chosen = FALSE, !.lost = FALSE, !.made = h]
  /\ UNCHANGED <<entry, calls, asked, pending, gone, givenUp>>

\* A seat that was chosen went in the meantime: choose again, a few times at most, then
\* the next one.
LoseSeats ==
  /\ pass.chosen /\ pass.lost
  /\ pass' = IF pass.tries + 1 < MaxAttempts
               THEN [pass EXCEPT !.chosen = FALSE, !.lost = FALSE, !.tries = pass.tries + 1]
               ELSE FailTurn
  /\ UNCHANGED <<inventory, entry, calls, asked, pending, gone, givenUp>>

\* Any other error, also in claiming or in giving back what was held: the next one.  A hold
\* already made stays, until its time is past.
OfferFails ==
  /\ pass.state = "offering" /\ pass.left # {}
  /\ pass' = FailTurn
  /\ UNCHANGED <<inventory, entry, calls, asked, pending, gone, givenUp>>

\* UPDATE ... WHERE status = waiting.
Claim ==
  LET p == Turn
  IN /\ pass.made # None /\ Waiting(p)
     /\ entry' = [entry EXCEPT ![p] = [status |-> "offered", hold |-> pass.made,
                                      offers |-> entry[p].offers + 1]]
     /\ pass' = NextTurn
     /\ givenUp' = IF Active(pass.made) THEN givenUp \ {p} ELSE givenUp \union {p}
     /\ UNCHANGED <<inventory, calls, asked, pending, gone>>

\* The entry has closed since: the seats go straight back.
ClaimLost ==
  /\ pass.made # None /\ ~Waiting(Turn)
  /\ GiveSeatsBack({pass.made})
  /\ pass' = [PassOver EXCEPT !.disturbed = TRUE]
  /\ UNCHANGED <<entry, calls, pending, gone, givenUp>>
  /\ StillDue

\* The pass ends; the one behind it starts.
Finish ==
  /\ pass.state = "offering" /\ pass.left = {}
  /\ pass' = IF pending THEN [NoPass EXCEPT !.state = "starting"] ELSE NoPass
  /\ pending' = FALSE
  /\ UNCHANGED <<inventory, entry, calls, asked, gone, givenUp>>

-----------------------------------------------------------------------------
(* Taking an offer: waitlistService.confirm                                *)

\* liveOffer.
ConfirmRead(p) ==
  /\ RoomForCall
  /\ entry[p].status = "offered" /\ entry[p].hold # None /\ LiveHold(entry[p].hold)
  /\ confirming' = confirming \union {[person |-> p, hold |-> entry[p].hold, booked |-> FALSE]}
  /\ UNCHANGED <<inventory, entry, joining, ending, asked, pending, pass, gone,
                 givenUp>>

\* bookingService.create: the hold is locked and must still be live.
Book(c) ==
  /\ c \in confirming /\ ~c.booked /\ LiveHold(c.hold)
  /\ held' = [held EXCEPT ![c.hold] = 0]
  /\ confirming' = (confirming \ {c}) \union {[c EXCEPT !.booked = TRUE]}
  /\ UNCHANGED <<free, entry, joining, ending, asked, pending, pass, gone, givenUp>>
  /\ StillDue

\* The wallet is short, or the offer has ended.
BookFails(c) ==
  /\ c \in confirming /\ ~c.booked
  /\ confirming' = confirming \ {c}
  /\ UNCHANGED <<inventory, entry, joining, ending, asked, pending, pass, gone,
                 givenUp>>

ConfirmWrite(c) ==
  /\ c \in confirming /\ c.booked
  /\ entry' = [entry EXCEPT ![c.person].status = "closed", ![c.person].hold = None]
  /\ confirming' = confirming \ {c}
  /\ givenUp' = givenUp \ {c.person}
  /\ UNCHANGED <<free, held, joining, ending, asked, pending, pass, gone>>
  /\ StillDue

-----------------------------------------------------------------------------
(* Closing and requeueing: withdraw, decline, closeDeparted, expireOffers  *)

\* A call that will close the entry, or put it back in the queue, once it has
\* released the hold of its copy, if that has one.
Ends(p, by, to) ==
  [person |-> p, by |-> by, to |-> to, hold |-> entry[p].hold, released |-> entry[p].hold = None]

Start(E) ==
  /\ E # {} /\ ending' = ending \union E
  /\ UNCHANGED <<inventory, entry, joining, confirming, asked, pending, pass, gone,
                 givenUp>>

\* withdraw, and decline where there is an offer.
Leave(p) == RoomForCall /\ Open(p) /\ Start({Ends(p, "passenger", "closed")})

Idle(of) == \A e \in ending : e.by # of

\* closeDeparted, every hour: every open entry of a departure that is over.
CloseDeparted ==
  /\ gone /\ RoomForCall /\ Idle("departed")
  /\ Start({Ends(p, "departed", "closed") : p \in {q \in People : Open(q)}})

\* The allowance of unanswered offers is used up.
MissedEnough(p) == entry[p].offers >= Limit

OfferDue(p) == entry[p].status = "offered" /\ entry[p].hold \in due

\* expireOffers, every minute.
ExpireOffers ==
  /\ RoomForCall /\ Idle("expiry")
  /\ Start({Ends(p, "expiry", IF MissedEnough(p) THEN "closed" ELSE "waiting") :
            p \in {q \in People : OfferDue(q)}})

EndRelease(e) ==
  /\ e \in ending /\ ~e.released
  /\ IF e.hold # None /\ Active(e.hold)
       THEN GiveSeatsBack({e.hold}) /\ pass' = Disturbed
       ELSE UNCHANGED <<free, held, asked, pass>>
  /\ ending' = (ending \ {e}) \union {[e EXCEPT !.released = TRUE]}
  /\ UNCHANGED <<entry, joining, confirming, pending, gone, givenUp>>
  /\ StillDue

\* The status is written whatever it has become, the hold only if the copy had one.
\* All but closeDeparted then ask for a pass if there was an offer.
EndWrite(e) ==
  /\ e \in ending /\ e.released
  /\ entry' = [entry EXCEPT ![e.person].status = e.to,
                            ![e.person].hold = IF e.hold = None THEN @ ELSE None]
  /\ asked' = (asked \/ (e.hold # None /\ e.by # "departed"))
  /\ ending' = ending \ {e}
  /\ givenUp' = givenUp \ {e.person}
  /\ UNCHANGED <<free, held, joining, confirming, pending, pass, gone>>
  /\ StillDue

-----------------------------------------------------------------------------
(* Offers that end some other way                                          *)

\* Mistake: a hold no open entry names is not found.
LapsedNamed == {h \in due : Active(h) /\ \E p \in People : Open(p) /\ entry[p].hold = h}
\* The active holds that are past their time.
Lapsed == {h \in due : Active(h)}

\* holdService.expireDue, every minute.
ExpireHolds ==
  /\ Lapsed # {}
  /\ GiveSeatsBack(Lapsed) /\ pass' = Disturbed
  /\ UNCHANGED <<entry, calls, pending, gone, givenUp>>
  /\ StillDue

\* The passenger releases the checkout itself, or its coach is taken off the train.
ReleaseElsewhere(h) ==
  /\ Active(h)
  /\ GiveSeatsBack({h}) /\ pass' = Disturbed
  /\ givenUp' = givenUp \union OfferedWith(h)
  /\ UNCHANGED <<entry, calls, pending, gone>>
  /\ StillDue

\* The passenger buys the held seats as any checkout is bought.
BookElsewhere(h) ==
  /\ LiveHold(h)
  /\ held' = [held EXCEPT ![h] = 0]
  /\ givenUp' = givenUp \union OfferedWith(h)
  /\ UNCHANGED <<free, entry, calls, asked, pending, pass, gone>>
  /\ StillDue

\* The process dies: calls, passes and the request for one are lost, holds are not.
Crash ==
  /\ Crashes
  /\ joining' = {} /\ ending' = {} /\ confirming' = {}
  /\ asked' = FALSE /\ pending' = FALSE /\ pass' = [NoPass EXCEPT !.state = "restarted"]
  /\ givenUp' = givenUp \union {p \in People : entry[p].status = "offered" /\ Answering(p)}
  /\ UNCHANGED <<inventory, entry, gone>>

-----------------------------------------------------------------------------
PassStep ==
  \/ List
  \/ Choose
  \/ Skip
  \/ \E h \in Holds : HoldSeats(h)
  \/ LoseSeats
  \/ OfferFails
  \/ Claim
  \/ ClaimLost
  \/ Finish

WaitlistNext ==
  \/ Take
  \/ GiveBack
  \/ \E h \in Holds : PassExpiry(h)
  \/ Depart
  \/ \E p \in People : JoinRead(p)
  \/ \E p \in People : JoinWrite(p)
  \/ Ask
  \/ PassStep
  \/ \E p \in People : ConfirmRead(p)
  \/ \E c \in confirming : Book(c)
  \/ \E c \in confirming : BookFails(c)
  \/ \E c \in confirming : ConfirmWrite(c)
  \/ \E p \in People : Leave(p)
  \/ CloseDeparted
  \/ ExpireOffers
  \/ \E e \in ending : EndRelease(e)
  \/ \E e \in ending : EndWrite(e)
  \/ ExpireHolds
  \/ \E h \in Holds : ReleaseElsewhere(h)
  \/ \E h \in Holds : BookElsewhere(h)
  \/ Crash

WaitlistSpec == WaitlistInit /\ [][WaitlistNext]_waitlistVars

\* A pass that has been asked for starts and goes through its list; windows end;
\* hold.expire runs every minute.  Nobody has to answer, join, buy or return.
Fairness ==
  /\ WF_waitlistVars(Ask) /\ WF_waitlistVars(PassStep) /\ WF_waitlistVars(ExpireHolds)
  /\ \A h \in Holds : WF_waitlistVars(PassExpiry(h))
FairSpec == WaitlistSpec /\ Fairness

-----------------------------------------------------------------------------
(* Properties                                                              *)

\* Every row keeps its type, and nobody is made more offers than the setting
\* allows (expireOffers, the conditional update of offerTo).
WaitlistTypeOK ==
  /\ free \in 0 .. Capacity /\ held \in [Holds -> 0 .. Capacity] /\ due \subseteq Holds
  /\ entry \in [People -> EntryRecords]
  /\ joining \subseteq People /\ givenUp \subseteq People
  /\ {asked, pending, gone} \subseteq BOOLEAN

\* waitlistService.js:39, hold first and claim after: an offer has behind it all
\* the seats it promises, through lost races, expiry and a process that dies,
\* until it is answered or runs out.
OfferBacked ==
  \A p \in People :
    entry[p].status = "offered" /\ entry[p].hold \notin due /\ ~Answering(p) /\ p \notin givenUp
      => held[entry[p].hold] = Wants[p]

Offered(p) == Waiting(p) /\ entry'[p].status = "offered"

\* runSweep: "one seat coming free should go to the next person who wants one seat".  Until
\* a seat comes back during it, a pass offers nobody a seat past somebody it found earlier
\* in the queue, still waiting, who wanted no more, unless that one's turn has failed: every
\* choice was bought by others first, or an error ended it.
NobodyPassed(p, Q) == \A q \in 1 .. p - 1 : q \in Q /\ Waiting(q) => Wants[q] > Wants[p]
ServedInOrder ==
  [][\A p \in People :
       Offered(p) /\ ~pass.disturbed => NobodyPassed(p, pass.left \union pass.passed)]_waitlistVars

\* waitlistService.sweep chains: a pass asked for reaches everyone waiting then, who
\* is made an offer unless there are too few seats or the turn fails.
Expects(p) == Waiting(p) /\ (asked \/ pending)
Reached(p) ==
  ~Waiting(p) \/ free < Wants[p] \/ p \in pass.failed \/ gone \/ pass.state = "restarted"
SweepReaches == \A p \in People : Expects(p) ~> Reached(p)

\* A hold whose entry was lost to another call, or left behind by a stale write or a
\* dead process, is collected (waitlistService.js:42, an orphaned hold).
Orphan(h) == Active(h) /\ \A p \in People : Open(p) => entry[p].hold # h
OrphansCollected == \A h \in Holds : Orphan(h) ~> ~Orphan(h)

\* What the code's comments say and its steps refute.
\*
\* waitlistService.js:340, a sweep "on a timer as a safety net".  No timer looks at
\* who is waiting: an entry written after the last pass, beside a seat that came back
\* since it was refused one, waits until some other seat does.
FreeSeatIsOffered ==
  \A p \in People : Waiting(p) /\ free >= Wants[p] ~> ~Waiting(p) \/ free < Wants[p]

\* REQUIREMENTS.md:297, "Join order, and nothing else".  A pass goes on to the next when
\* somebody's choices were all bought by others first, and does not go back to those it has
\* gone by when a seat comes back.
JoinOrderAlone ==
  [][\A p \in People :
       Offered(p) => NobodyPassed(p, pass.left \union pass.passed \union pass.failed)]_waitlistVars

\* models/WaitlistEntry.js:28, of confirmed: "They took it".  The expiry job
\* read the offer before it was answered and puts the passenger back in the queue.
ClosedStays == [][\A p \in People : entry[p].status = "closed" => ~Open(p)']_waitlistVars
=============================================================================
