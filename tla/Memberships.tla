------------------------------ MODULE Memberships ------------------------------
(***************************************************************************)
(* One person's subscription to one thing, and the devices it is used on:  *)
(* asked for, decided, run out, ended and continued (subscriptionService), *)
(* while checks let devices take places (deviceService.admit) and staff    *)
(* block, unblock and forget them.                                         *)
(*                                                                         *)
(* What a reviewer or the subscriber decides is one transaction that locks *)
(* the row first: one step.  Asking and the hourly sweep work in           *)
(* statements of their own on what they read before, and a check learns    *)
(* what the subscription allows before it locks the account.  Periods are  *)
(* told apart by whether their end has passed.                             *)
(***************************************************************************)
EXTENDS Integers, FiniteSets, FiniteSetsExt

CONSTANTS
  MaxRows,   \* bound: ids of user_subscriptions are 1 .. MaxRows, in the order of creation
  MaxPast,   \* bound: earlier periods of one record
  MaxLimit,  \* MAX_DEVICES of utils/subscriptionDevices.js
  Asked,     \* bound: how many devices a request may ask for
  Devices,   \* devices of the one platform there is
  Calls,     \* requests, sweeps and checks in progress at once
  NoDevice

ASSUME MembershipsAssumption ==
  /\ {MaxRows, MaxPast} \subseteq Nat /\ MaxLimit \in Nat \ {0} /\ NoDevice \notin Devices
  /\ Asked \subseteq 1 .. MaxLimit

Rows == 1 .. MaxRows
Limits == 1 .. MaxLimit
Live == {"pending", "active"}
Ended == {"declined", "cancelled", "expired"}

\* key: live_key is set; ends: expires_at, null, ahead or past; past: the length of history.
RowRecords ==
  [status : {"none"} \union Live \union Ended, key : BOOLEAN,
   ends : {"none", "ahead", "past"}, limit : 0 .. MaxLimit, past : 0 .. MaxPast]
NoRow == [status |-> "none", key |-> FALSE, ends |-> "none", limit |-> 0, past |-> 0]

VARIABLES
  row,       \* user_subscriptions: the person's records
  isOpen,    \* the subscription takes new requests
  call,      \* the calls in progress
  known,     \* user_devices
  blocked,   \* the devices whose is_blocked is set
  granted,   \* the most devices any approval, change or continuation has allowed
  restored   \* the devices that have been unblocked

membershipVars == <<row, isOpen, call, known, blocked, granted, restored>>
deviceVars == <<known, blocked, restored>>

\* row, copy: the record a request has found; list: those a sweep found run out;
\* most: how many devices a check read as allowed.
CallRecords ==
  [stage : {"idle", "reading", "expiring", "looking", "writing", "sweeping", "admitting"},
   row : {0} \union Rows, copy : RowRecords, list : SUBSET Rows,
   device : Devices \union {NoDevice}, most : 0 .. MaxLimit]
NoCall == [stage |-> "idle", row |-> 0, copy |-> NoRow, list |-> {},
         device |-> NoDevice, most |-> 0]

MembershipInit ==
  /\ row = [r \in Rows |-> NoRow]
  /\ isOpen = TRUE
  /\ call = [c \in Calls |-> NoCall]
  /\ known = {} /\ blocked = {} /\ restored = {}
  /\ granted = 0

\* isValid: whether it runs is asked of the clock too.
Running(r) == row[r].status = "active" /\ row[r].ends = "ahead"
RunOut(r) == row[r].status = "active" /\ row[r].ends = "past"
Keyed == {r \in Rows : row[r].key}

\* Its end comes.
RunsOut(r) ==
  /\ Running(r)
  /\ row' = [row EXCEPT ![r].ends = "past"]
  /\ UNCHANGED <<isOpen, call, deviceVars, granted>>

-----------------------------------------------------------------------------
(* Asking: subscriptionService.request                                     *)

Goes(c, to) == call' = [call EXCEPT ![c] = to]

\* The subscription is read open.
RequestBegin(c) ==
  /\ call[c].stage = "idle" /\ isOpen
  /\ Goes(c, [NoCall EXCEPT !.stage = "reading"])
  /\ UNCHANGED <<row, isOpen, deviceVars, granted>>

\* Nothing is live, or something that has run out; otherwise the request is refused.
RequestRead(c) ==
  /\ call[c].stage = "reading"
  /\ Goes(c, IF Keyed = {} THEN [NoCall EXCEPT !.stage = "looking"]
             ELSE LET held == CHOOSE r \in Keyed : TRUE
                  IN IF RunOut(held) THEN [NoCall EXCEPT !.stage = "expiring", !.row = held]
                     ELSE NoCall)
  /\ UNCHANGED <<row, isOpen, deviceVars, granted>>

\* Mistake: the key is left behind.
ExpiredKeyed(r) == IF row[r].status = "active" THEN [row[r] EXCEPT !.status = "expired"] ELSE row[r]
\* expire: UPDATE ... WHERE id = r AND status = active, whatever its end is by now.
Expired(r) ==
  IF row[r].status = "active" THEN [row[r] EXCEPT !.status = "expired", !.key = FALSE] ELSE row[r]

RequestExpire(c) ==
  /\ call[c].stage = "expiring"
  /\ row' = [row EXCEPT ![call[c].row] = Expired(call[c].row)]
  /\ Goes(c, [NoCall EXCEPT !.stage = "looking"])
  /\ UNCHANGED <<isOpen, deviceVars, granted>>

\* The newest record that ended carries on; without one, a record of its own.
Carrying ==
  LET earlier == {r \in Rows : ~row[r].key /\ row[r].status \in Ended}
      r == IF earlier = {} THEN 0 ELSE Max(earlier)
  IN [NoCall EXCEPT !.stage = "writing", !.row = r, !.copy = IF r = 0 THEN NoRow ELSE row[r]]

RequestLook(c) ==
  /\ call[c].stage = "looking"
  /\ Goes(c, Carrying)
  /\ UNCHANGED <<row, isOpen, deviceVars, granted>>

\* Only the columns that differ from the copy are written.
Column(now, was, new) == IF was = new THEN now ELSE new

\* The unique live_key lets at most one record have it.
KeyFree(r) == Keyed \subseteq {r}

RequestCreate(c, limit) ==
  LET unused == {r \in Rows : row[r].status = "none"}
  IN /\ call[c].stage = "writing" /\ call[c].row = 0 /\ KeyFree(0) /\ unused # {}
     /\ row' = [row EXCEPT ![Min(unused)] =
                  [NoRow EXCEPT !.status = "pending", !.key = TRUE, !.limit = limit]]
     /\ Goes(c, NoCall)
     /\ UNCHANGED <<isOpen, deviceVars, granted>>

\* The copy's record carries on, whatever it has become.
RequestCarriesOn(c, limit) ==
  LET r == call[c].row
      was == call[c].copy
  IN /\ call[c].stage = "writing" /\ r # 0 /\ KeyFree(r) /\ was.past < MaxPast
     /\ row' = [row EXCEPT ![r] =
                  [status |-> "pending", key |-> TRUE, ends |-> Column(@.ends, was.ends, "none"),
                   limit |-> Column(@.limit, was.limit, limit), past |-> was.past + 1]]
     /\ Goes(c, NoCall)
     /\ UNCHANGED <<isOpen, deviceVars, granted>>

\* A request whose key is another record's by now is refused; any call may die.
Stops(c) ==
  /\ call[c].stage # "idle"
  /\ Goes(c, NoCall)
  /\ UNCHANGED <<row, isOpen, deviceVars, granted>>

-----------------------------------------------------------------------------
(* Decisions: each locks the row and looks at it again (change)            *)

Decide(r, to) ==
  /\ row' = [row EXCEPT ![r] = to]
  /\ UNCHANGED <<isOpen, call, deviceVars>>

Grants(limit) == granted' = Max({granted, limit})

\* For a period, on as many devices as were asked for or as the reviewer says.
Approve(r, limit) ==
  /\ row[r].status = "pending"
  /\ Decide(r, [row[r] EXCEPT !.status = "active", !.ends = "ahead", !.limit = limit])
  /\ Grants(limit)

Decline(r) ==
  /\ row[r].status = "pending"
  /\ Decide(r, [row[r] EXCEPT !.status = "declined", !.key = FALSE])
  /\ UNCHANGED granted

Cancelable(r) == row[r].status = "pending" \/ Running(r)

\* By the subscriber or a reviewer.
Cancel(r) ==
  /\ Cancelable(r)
  /\ Decide(r, [row[r] EXCEPT !.status = "cancelled", !.key = FALSE])
  /\ UNCHANGED granted

\* amend: another end, still ahead, or other limits.
Amend(r, limit) ==
  /\ Running(r) /\ limit # row[r].limit
  /\ Decide(r, [row[r] EXCEPT !.limit = limit])
  /\ Grants(limit)

\* Continued by a reviewer for a new period: it ended, and no other is live.
Resume(r, limit) ==
  /\ row[r].status \in Ended \/ RunOut(r)
  /\ KeyFree(r) /\ row[r].past < MaxPast
  /\ Decide(r, [status |-> "active", key |-> TRUE, ends |-> "ahead", limit |-> limit,
                past |-> row[r].past + 1])
  /\ Grants(limit)

\* Mistake: those that run are declined too.
ClosedTo == Live
\* The status of the records that closing declines.
Declines == {"pending"}

\* update: closing declines what is waiting.
Close ==
  /\ isOpen /\ isOpen' = FALSE
  /\ row' = [r \in Rows |-> IF row[r].status \in Declines
               THEN [row[r] EXCEPT !.status = "declined", !.key = FALSE] ELSE row[r]]
  /\ UNCHANGED <<call, deviceVars, granted>>

Reopen ==
  /\ ~isOpen /\ isOpen' = TRUE
  /\ UNCHANGED <<row, call, deviceVars, granted>>

-----------------------------------------------------------------------------
(* The hourly sweep                                                        *)

SweepRead(c) ==
  LET found == {r \in Rows : RunOut(r)}
  IN /\ call[c].stage = "idle" /\ found # {}
     /\ \A d \in Calls : call[d].stage # "sweeping"
     /\ Goes(c, [NoCall EXCEPT !.stage = "sweeping", !.list = found])
     /\ UNCHANGED <<row, isOpen, deviceVars, granted>>

SweepExpire(c, r) ==
  LET rest == call[c].list \ {r}
  IN /\ call[c].stage = "sweeping" /\ r \in call[c].list
     /\ row' = [row EXCEPT ![r] = Expired(r)]
     /\ Goes(c, IF rest = {} THEN NoCall ELSE [call[c] EXCEPT !.list = rest])
     /\ UNCHANGED <<isOpen, deviceVars, granted>>

-----------------------------------------------------------------------------
(* Devices                                                                 *)

\* Blocked devices hold no place.
Placed == known \ blocked

\* standingOn: what the person's running subscriptions allow.  With none there is
\* nothing to let a device use.
CheckRead(c, d) ==
  /\ call[c].stage = "idle" /\ \E r \in Rows : Running(r)
  /\ Goes(c, [NoCall EXCEPT !.stage = "admitting", !.device = d,
                          !.most = Max({row[r].limit : r \in {s \in Rows : Running(s)}})])
  /\ UNCHANGED <<row, isOpen, deviceVars, granted>>

\* Mistake: a device too many.
RoomForMore(most) == Cardinality(Placed) <= most
Room(most) == Cardinality(Placed) < most

\* admit, with the account's row locked: a device that is new takes a place if one is
\* free; one that is known keeps its own, or none.
Admit(c) ==
  LET d == call[c].device
  IN /\ call[c].stage = "admitting"
     /\ known' = IF d \notin known /\ Room(call[c].most) THEN known \union {d} ELSE known
     /\ Goes(c, NoCall)
     /\ UNCHANGED <<row, isOpen, blocked, restored, granted>>

Block(d) ==
  /\ d \in Placed
  /\ blocked' = blocked \union {d}
  /\ UNCHANGED <<row, isOpen, call, known, restored, granted>>

\* It has its place back, whoever has come since.
Unblock(d) ==
  /\ d \in known \intersect blocked
  /\ blocked' = blocked \ {d} /\ restored' = restored \union {d}
  /\ UNCHANGED <<row, isOpen, call, known, granted>>

\* removeDevice
Forget(d) ==
  /\ d \in known
  /\ known' = known \ {d}
  /\ blocked' = blocked \ {d} /\ restored' = restored \ {d}
  /\ UNCHANGED <<row, isOpen, call, granted>>

-----------------------------------------------------------------------------
MembershipNext ==
  \/ \E r \in Rows : RunsOut(r)
  \/ \E c \in Calls : RequestBegin(c)
  \/ \E c \in Calls : RequestRead(c)
  \/ \E c \in Calls : RequestExpire(c)
  \/ \E c \in Calls : RequestLook(c)
  \/ \E c \in Calls, limit \in Asked : RequestCreate(c, limit)
  \/ \E c \in Calls, limit \in Asked : RequestCarriesOn(c, limit)
  \/ \E c \in Calls : Stops(c)
  \/ \E r \in Rows, limit \in Limits : Approve(r, limit)
  \/ \E r \in Rows : Decline(r)
  \/ \E r \in Rows : Cancel(r)
  \/ \E r \in Rows, limit \in Limits : Amend(r, limit)
  \/ \E r \in Rows, limit \in Limits : Resume(r, limit)
  \/ Close
  \/ Reopen
  \/ \E c \in Calls : SweepRead(c)
  \/ \E c \in Calls, r \in Rows : SweepExpire(c, r)
  \/ \E c \in Calls, d \in Devices : CheckRead(c, d)
  \/ \E c \in Calls : Admit(c)
  \/ \E d \in Devices : Block(d)
  \/ \E d \in Devices : Unblock(d)
  \/ \E d \in Devices : Forget(d)

MembershipSpec == MembershipInit /\ [][MembershipNext]_membershipVars

-----------------------------------------------------------------------------
(* Properties                                                              *)

\* Rows and calls keep their types; only devices that have been seen are blocked.
MembershipTypeOK ==
  /\ row \in [Rows -> RowRecords] /\ isOpen \in BOOLEAN
  /\ call \in [Calls -> CallRecords]
  /\ known \subseteq Devices /\ blocked \subseteq known /\ restored \subseteq known
  /\ granted \in 0 .. MaxLimit

\* subscriptionService.js:30, one live subscription to a thing at most.  The unique
\* key only sees to it as long as it is set exactly while a record is pending or
\* active, through writes by id, by status and by stale copy.
OneLive ==
  /\ \A r \in Rows : row[r].key <=> row[r].status \in Live
  /\ \A r, s \in Rows : row[r].status \in Live /\ row[s].status \in Live => r = s

\* The calls that are going to write a record they have read.
WorksOn(c) == {call[c].row} \union call[c].list

\* subscriptionService.js:20, a subscription that runs is ended by its period or by a
\* cancellation; by nothing else, unless a request or the sweep had read it before it
\* was continued or decided.
RunsOn ==
  [][\A r \in Rows : Running(r) /\ ~Running(r)' =>
       \/ row'[r].status = "cancelled" \/ row'[r].ends = "past"
       \/ \E c \in Calls : r \in WorksOn(c)]_membershipVars

\* deviceService.js:255, "two new devices arriving together must not both take the
\* last place": but for those that were unblocked, there are never more devices with
\* a place than were ever allowed, whatever changed since a check read how many.
PlacesWithinGrant == Cardinality(Placed \ restored) <= granted

\* What the code's comments say and its steps refute.
\*
\* subscriptionService.js:20 without the exception.  A request that found a record
\* ended carries it on after it was asked for again and approved, or continued: what
\* runs waits again; and the sweep ends what was continued since it looked.
RunsUntilOver ==
  [][\A r \in Rows : Running(r) /\ ~Running(r)' =>
       row'[r].status = "cancelled" \/ row'[r].ends = "past"]_membershipVars

\* subscriptionService.js:203, closing leaves nobody waiting.  A request that read the
\* subscription open is written after.
ClosedIsAnswered == ~isOpen => \A r \in Rows : row[r].status # "pending"
=============================================================================
