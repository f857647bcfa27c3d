# Seat Planner: specification and verification

Seat Planner is a railway ticketing system: a Node/Express/Sequelize API over MySQL
(`src/backend`), a Next.js site (`src/frontend`) and an Android web view (`src/android`).
This directory holds TLA+ models of the API's core, what TLC checks about them on small
instances, and what TLAPS proves about them for all instances. Paths below are relative to
the repository unless they start with `src/`; services are in `src/backend/src/services`.

- [What the system is made of](#what-the-system-is-made-of)
- [The modules](#the-modules)
- [How the models read the code](#how-the-models-read-the-code)
- [The runs](#the-runs)
- [What the code does otherwise than it says](#what-the-code-does-otherwise-than-it-says)
- [The proofs](#the-proofs)
- [Not modelled](#not-modelled)
- [Plan](#plan)

## What the system is made of

`PROJECT.json` lists every component with its sources. The ones with state that several
callers change, and with something to get wrong:

| Component | State | Operations | Talks to | What is hard | What makes it correct |
|---|---|---|---|---|---|
| Seats, checkouts, sales (`holdService`, `inventoryService`, `bookingService`) | `seat_segment_bookings` (one row per seat and segment, unique), `seat_holds`, `bookings`, `tickets` | create, release, expire a checkout; sell it; block and unblock seats | wallets and card, refunds, trips, the `hold.expire` schedule | reads outside transactions, a sweep over a stale list, sales that end long after they begin | nobody shares a seat; rows and records agree; abandoned seats come back |
| Returns (`refundService`) | `refunds`, `refund_segments` | request (convenient or demand), settle on resale, close after departure, refund a cancellation | sales (settling runs inside them), wallets, departures' jobs | settling races with settling and with closing; a snapshot that is out of date | each resale pays the one refund that waits, once; amounts add up; nothing stays open for ever |
| Wallets and payments (`walletService`, `paymentService`, `postSaleService`) | `wallets`, `wallet_transactions` | post, top up, collect, refund, adjust, withdraw | everybody who moves money; a card provider outside the database | balance read before the lock, a rollback that cannot undo a capture, two wallets locked in opposite orders | the ledger adds up, is append-only, does not go below zero by spending |
| Approvals (`approvalService`) | `approval_requests` | open, decide, cancel | withdrawals, ticket transfers, abuse reviews | two reviewers; a cancel that decides on an unlocked read | one decision, carried out once |
| Job queue (`jobService`, `utils/jobRetry`) | `jobs`, workers in several processes | enqueue, claim, renew, succeed, fail, recover, retry, prune | handlers of every background job | leases that lapse under a live worker, crashes, retries | one runner, bounded attempts, every job ends |
| Departures (`tripService`, `jobs/handlers.js`) | `trips`, `trip_coaches` | cancel and reinstate the train or a coach; refund everybody aboard, batch by batch | job queue, refunds, checkouts | jobs that overlap, restart half way or fail; reinstatements checked before they are written | nobody is paid twice, nobody is forgotten |
| Coaches (`coachService`) | `trip_coaches`, the seats in them | add, remove, cancel, reinstate | checkouts, sales, standing tickets, the job queue | checks made before the transaction; rows that go with their seats | what was sold stays; no two coaches have one place, and no gap but an addition refused late leaves |
| Standing tickets (`standingService`) | tickets without a seat, a cap per coach | buy a leg, return it with the seat | coaches, returns | the seated ticket is read without a lock; a job refunds the same legs | the cap holds; nobody stands on a ticket that is gone |
| Waitlist (`waitlistService`) | `waitlist_entries`, held seats | join, leave, sweep, offer, confirm, decline, expire, close | checkouts, trips, notifications | updates by stale copies of an entry, passes chained in one process | order of the queue, until a seat comes back or a turn fails; a seat offered is held; what is lost is collected |
| Verification (`verificationService`) | tickets' status, `ticket_scans`, devices' backlogs | scan with a network, upload what was scanned without | tickets, returns | batches sent again; a scan marked and recorded in separate statements | a ticket is admitted once and counted once, and every scan arrives |
| Quotas (`quotaService`, `utils/availability`) | `trip_seat_quotas`, `train_quota_rules` | reserve by rule and by hand, release by hand and when due, delete a rule | checkouts, availability | a run of the rules against operators; a reservation read long before the sale | reservations have their rule; those made by hand stay |
| Selection (`selectionService`, `utils/autoSelect`) | none: it reads, chooses and holds | propose, hold, choose again | availability, checkouts | the answer is about an older reading; edges of intervals and windows | nothing is proposed that is not on offer, or further apart than need be, or with less than asked and not said |
| Subscriptions and devices (`subscriptionService`, `deviceService`) | `user_subscriptions`, `user_devices` | request, approve, decline, cancel, amend, resume, close, sweep; admit, block, forget | approvers, the seat-plan feed | a request carries an older copy of the record on; limits read before the lock | one live record; it runs until it is over; devices within what was granted |
| Sign-in and tokens (`authService`, `tokenService`) | refresh tokens, sessions | sign in, rotate, revoke | every request | a token used twice | rotation is one-way |
| Restrictions, abuse | counters and limits | check, report, review | sales, approvals | limits checked on unlocked reads | limits hold |
| Fares, timetable, seat plans, allocation files | mostly reads and pure functions | price, compare, normalise | everything above | arithmetic at edges | agree with a reference definition |
| Settings, roles, audit, notifications, demo data, HTTP layer, clients | records and presentation | | | little | |

The interactions that matter: a **sale** runs in one transaction that locks the checkout,
collects money (wallet rows, the card), writes tickets, converts seat rows and settles the
returns that were waiting for these seats, crediting *other people's* wallets; a **return**
frees seat rows and closes the booking with its last ticket, and wakes the **waitlist**;
**cancelling** a departure or a coach writes a job, which lists and refunds tickets while
passengers still buy and return; a **selection** reads seats, rows and quotas and then checks out
like anybody else; the **schedule** (`src/backend/src/jobs/index.js`) sweeps checkouts, refunds, the
waitlist, quotas and subscriptions and may overlap all of it.

## The modules

| Module | Stands for | Role |
|---|---|---|
| `SeatLedger` | what the seat inventory promises, with no checkouts' status, bookings or clock | abstract specification |
| `SeatSales` | checkouts, sales, returns (seat side), scans, blocks over one departure | detailed; shown to implement `SeatLedger` |
| `DemandReturns` | demand returns: request, settling inside sales, closing job | component |
| `Wallets` | wallets, ledger, card, purchases, withdrawals through approvals | component |
| `JobQueue` | job rows, workers, leases, outcomes, retries | component |
| `Departures` | cancelling, reinstating, the refund jobs | component, built on what `JobQueue` and `Wallets` leave open |
| `Coaches` | coaches added, removed, cancelled and put back, with the seats and standing legs sold in them | composes coaches, sales, standing tickets and the refund job |
| `Waitlist` | the queue of a full departure and the checkouts made for it | component, with what others buy as its environment |
| `Scans` | devices, uploads, verdicts and the log of a train's tickets | component |
| `Quotas` | reservations for pairs of stations, and what is on sale | component, and pure functions |
| `AutoSelect` | the ranking of groups of seats | pure functions |
| `Selection` | a passenger's request answered while seats are sold and reserved | composes `Quotas` (EXTENDS) and `AutoSelect` (INSTANCE) |
| `Memberships` | one person's subscription and devices | component |
| `MC*` | the above for TLC: symmetry sets, layouts and scenes | instances |
| `*_proofs` | theorems and their proofs, of every component | TLAPS |

Actions keep the names of the functions they stand for where that helps:

- **SeatSales**. `rows` is the table `seat_segment_bookings` as a function from (seat, segment)
  to the row's owner, which is what its unique key makes of it. `CreateHold` is
  `holdService.create` with `inventoryService`'s insert; `ReleaseRead`/`ReleaseCommit` are the
  two halves of `release`, `ExpireRead`/`ExpireCommit` of `expireDue`; `BookBegin` is the
  locked re-read of the checkout in `bookingService.create`, `BookCommit` everything up to its
  commit, `BookAbort` a declined payment or a rollback; `ReturnBegin`/`ReturnCommit` are
  `refundService.request` and `issueForCancellation` with `closeBookingIfEmpty` counting in
  the snapshot (`seen`); `Use` is a scan, `Block` and `Unblock` those of `inventoryService`.
- **DemandReturns**. `SaleBegin` takes the snapshot (`view`), `SaleCommit` is `settleResold`
  at the end of the sale; `ReturnOnDemand` and `ReturnAtOnce` are the two policies;
  `CloseRead`/`CloseOne`/`CloseAbort` are `closeDeparted`; `Depart` moves the train.
- **Wallets**. `Begin` opens a transaction with what it is going to post: `TopUp`, `Refund`,
  `Adjust`, `Purchase` (`paymentService.collect` and the payouts of `settleResold`),
  `Approve`. `Post` is `walletService.post` with its row lock, `Capture` the card provider,
  `Commit`, `GiveUp` (a refusal, a deadlock, a lock wait) and `Crash` end it. `Ask`/`Open`
  are `requestWithdrawal` and `approvalService.open`, `Reject`, `CancelRead`/`CancelWrite`
  the rest of an approval.
- **JobQueue**. `Claim` is `claimNext` and the start of `run`; `Renew` heartbeat and progress;
  `Succeed`, `Fail` the outcome written, `OutcomeLost` the one that could not be;
  `Crash`, `Restart` (with `recoverOrphans` where the process comes back on the same
  machine), `RetryRead`/`RetryWrite` are `retry`, `Prune` the deletion of old rows.
- **Departures**. `Cancel`, `CancelCoach` with `Enqueue` (dedupe key included), the three steps
  of `tripService.reinstate` and two of `coachService.reinstate`, and a job's run:
  `JobStart`, `JobList`, `JobRefund`, `JobRefused`, `JobDone`, `JobInterrupted`, `JobRetry`.
- **Coaches**. Passengers: `Hold`, `Release`, `Sell`; `PurchaseRead`/`PurchaseWrite` are
  `standingService.purchase` before and after its lock on the coach; `ReturnRead`/`ReturnWrite` are
  `refundService.request` with `legsFor`. The job: `JobSeat`, `JobLeg`, `JobEnds`
  (`issueForCancellation`). Operators: `AddRead`/`AddWrite` (and `AddSkipped`, where the coach's
  plan cannot be built and `add` refuses it after the shift of those behind has committed), `RemoveRead`/`RemoveWrite`,
  `CancelRead`/`CancelWrite`/`ReleaseFound`, `ReinstateRead`/`ReinstateWrite`, and `CallLost`,
  which writes nothing.
- **Waitlist**. `JoinRead`/`JoinWrite` are `join`; `Ask` is `seatsFreed`, `List` the start of
  `processTrip`; a pass goes on by `Choose`, `Skip`, `HoldSeats`, `LoseSeats`, `Claim`, `ClaimLost`
  (`offerTo`), `OfferFails` (any other error, which
  `offerTo` and the loop around it swallow), `Finish`; it keeps whom it has yet to come to (`left`), whom it had nothing for
  (`passed`), and whose turn ended although there were seats (`failed`: every choice was bought by others first, or an error). `ConfirmRead`, `Book`, `BookFails`, `ConfirmWrite` are `confirm`. What closes or requeues
  an entry (`Leave` for `leave` and `decline`, `ExpireOffers`, `CloseDeparted`) puts its copy into
  `ending`; `EndRelease` and `EndWrite` finish it. `ExpireHolds` is `holdService.expireDue`; `Take`, `GiveBack`,
  `BookElsewhere`, `ReleaseElsewhere` what others do.
- **Scans**. `Read` is a device without a network, `Upload` a call of `sync`. For each scan: `Duplicate` or
  `Fresh`, `Judge` (`judge`), `Mark`, `Record`, `RecordRefused`, `RecordFails` (all of `resolve`);
  `Answered` and `AnswerLost` end the call. Tickets end by `Refund`, which locks and reads again, or, standing legs that go with
  their seat, by `LegRead`/`LegRefund` (`releaseStandingFor`), which does neither; `LegKept` is such a return rolled back.
- **Quotas, AutoSelect, Selection**. `SetRead`/`SetWrite` are `setSeatQuota`,
  `MaterialiseRead`/`MaterialiseWrite` are `materialiseForTrip`, `DeleteRule`, `ReleaseRead`/`ReleaseWrite`
  (`releaseDue`) and `ReleaseTrip` the rest; `Available` is `computeAvailability`. `Propose` reads and runs `autoSelect`,
  `Hold` and `Conflict` try to hold what it proposed. `FindSideBySide` and the others have the names of the code's.
- **Memberships**. `RequestBegin`, `RequestRead`, `RequestExpire`, `RequestLook`, and `RequestCreate` or
  `RequestCarriesOn` are the statements of `request`; `Approve`, `Decline`, `Cancel`, `Amend`, `Resume`, `Close`,
  `Reopen` are transactions of their own; `SweepRead`/`SweepExpire` are `sweep`; `CheckRead`/`Admit` are
  `standingOn` and `admit`; `Block`, `Unblock`, `Forget` are `updateDevice` and `removeDevice`.

`PROJECT.json` maps each definition to its lines.

## How the models read the code

**What is one step.** The database is MySQL/InnoDB at its default isolation, repeatable read.
A transaction is one step as far as it locks the rows it decides on before reading them:
nobody can tell the difference. Everything else is split: a read before the transaction, or
inside it without a lock, is a step of its own whose result is kept in a variable until it
is used (`releasing`, `sweeping`, `seen`, `view`, `closing`, `cancelling`, `retrying`,
`clerk`, `ending`, `confirming`, `returning`, `operator`, `call`). A plain read inside a transaction sees
the snapshot of the transaction's first read, not the present; a locking read sees the present. A row lock
another transaction has is a guard. Sequelize's `save` and `update` on a record write the columns
that differ from the copy: where that shows (`Memberships`, `Waitlist`, `Coaches`), so do the models.

**Failure.** A transaction that fails, loses a deadlock or dies with its process leaves its
tables as they were. That is the Abort, GiveUp, Crash, Lost, Fails and Interrupted actions, and they may
happen wherever the code can fail. What is not in the database (the card provider in
`Wallets`, the chain of passes in `Waitlist`, the uploads in `Scans`) is not undone, or is lost with the process.

**Time** is only an order: an expiry passes, a lease lapses, a stop is left, at any moment.

**Mistakes.** A few operators whose comment begins with "Mistake" are not the code's. Each is
a plausible slip in the definition after it (a dropped guard, a stale read, a missing
reset); putting it in the place of the real one makes a property below fail, which shows
that the property depends on the code. `PROJECT.json` lists them under "mutants".

**History variables** (`late`, `raced` in `Departures`, `skips` in `Coaches`, `taken` in `JobQueue`, `givenUp` in `Waitlist`, `counted`
in `Scans`, `granted` and `restored` in `Memberships`) are written and never read by a guard; they let a
property relate a state to earlier ones. (`skips` is also counted against its bound.)

**Bounds that are not the code's**: `MaxAmount` (size of one movement), `Crashes` in `Wallets`;
`MaxClaims`, `MaxCrashes`, `MaxRetries` in `JobQueue`; `MaxInterruptions` in `Departures`; `MaxStanding`, `MaxSkips`,
and each coach added once, in `Coaches`; `MaxHolds`, `MaxCalls`, `Departs`, `Crashes` in `Waitlist`; `MaxScans`,
`MaxFaults` in `Scans`; `MaxMoves` and the `Scenes` in `Selection`; `MaxRows`, `MaxPast`, `Asked` in
`Memberships`; everywhere the number of ids that may be used, mostly each once.

## The runs

| Run | What is asked | Instance |
|---|---|---|
| `sales_safety` | `RowsMatchRecords`: each active checkout and each ticket to travel on has exactly the rows of its seats over its journey, and nothing else has any. `NoOversell`. `RefundedBookingIsEmpty`: although a return counts the other tickets in a stale snapshot, it never closes a booking with a valid ticket. `ImplementsLedger`: the refinement. | 2 seats, 2 segments, 2 checkouts, 3 tickets |
| `sales_liveness` | `AbandonedSeatsReturn`: a checkout past its time gives its rows back | 1 seat, 2 segments, 2 checkouts, 2 tickets |
| `returns` | `RefundedIsSumOfShares`, `ResaleAlwaysPays`, `OnePayoutPerSale`, `SettledIsPaidInFull`, `ClosedIsFinal`, and that refunds of a stop that has been left close (`DepartedRefundsClose`) | 1 seat, 2 segments, 3 tickets, a maximum of 3 that does not halve |
| `wallets` | `LedgerAdds`, `MovementsBounded`, `WithdrawnOnce`, `AppendOnly` | 2 wallets, 3 transactions, 1 withdrawal, limit 3, amounts 1 and 2 |
| `jobs` | `OneRunner`, `AttemptsAccounted`, `EveryJobEnds` | 2 jobs, 2 workers, 2 attempts, 1 loss, 1 retry |
| `departures` | `RefundedOnce`, `EveryoneIsOwed`, `OwedAreSettled` | 2 tickets in 2 coaches, 2 jobs, 1 operator, batches of 1, 1 interruption |
| `coaches` | `RecordOutlives`: what was ever sold keeps its coach, and a valid ticket its rows. `CapHolds`: standing passengers within the cap over every segment. `CouplingOrder`: no two coaches have one position, and no place is open but one for each addition whose plan could not be built (and those the train had at first). `MadeWhole`: a refund job leaves a moment when nobody holds a ticket of its coach | 1 coach in the train and one that may be added, 1 addition that cannot be built, 2 passengers, 2 standing tickets, 1 operator, 3 stops, cap 1 |
| `waitlist` | `OfferBacked`: an offer has its seats held until it is answered or runs out. `ServedInOrder`: until a seat comes back during it, a pass offers nobody past an earlier one who wants no more, of those it found waiting, unless that one's turn has failed (see `JoinOrderAlone` below) | 2 seats, 2 passengers who want both, 2 choices, 2 calls, a process that dies |
| `waitlist_liveness` | `SweepReaches`: a pass that was asked for reaches everyone waiting. `OrphansCollected`: seats held for an entry that was lost come back | 1 seat, 2 passengers, 1 offer each, a departure that leaves, a process that dies |
| `scans` | `AdmittedOnce`: the log admits a ticket once, and one it admits is used and not refunded after, but for a standing leg that the return of its seat had read as valid before (see `TravelledIsNotRefunded` below). `ReportsAgree`: the reports to devices count an admission once. `EveryScanArrives` | 2 tickets, one with a seat and one standing leg, 3 scans on 2 devices, 2 uploads, 1 fault |
| `selection` | `OffersWhatIsOnOffer`, `AsCloseAsCan`, `NoSilentLetDown`: what is proposed can be sold, no other choice sits closer, and what is given up is said. `Explained`, `HandPlacedStands`: no reservation of a rule that is gone; a run of the rules leaves those made by hand | 6 seats (coach 1: row 1 with cells 1, 2 and 4, row 3, row 4; coach 2), 3 stops, 2 rules, 2 operators, 3 moves of others, 3 attempts |
| `memberships` | `OneLive`, `RunsOn`, `PlacesWithinGrant` | 2 records of one person, 2 calls, 2 devices, limits 1 and 2 |

Why these sizes. A conflict over a seat needs two checkouts and two segments, so that
journeys can overlap without being equal; a third ticket lets a seat be sold, returned and
sold again. A demand return needs two segments (to be paid in part) and three tickets (the
return and two sales that settle it at once). A wallet conflict needs two transactions on
one wallet and, for a deadlock, two wallets; the third transaction is what finds the state they
leave. Limit 3 with amounts of up to 2 is reached by two credits and left by one debit.
A job needs a second worker to be run twice and two attempts to be retried, and `MaxClaims`
6 is more than attempts, losses and retries add up to, so it stops no claim. In `departures`, one ticket a coach
and a batch of one make a job list more than once and meet the other coach's job between.
The same module with two operators (8 million states) shows no error either; it is left
out of the runs for its length. In `coaches`, the coach that may be added goes before or behind the first, and one
addition that is refused late leaves a place before it or behind it that the next is to be counted against; with a train that has an open place at first
(`Missing = 1`, its coach at position 2) the run passes too. The seats are bought over the stretch from stop 2 to stop 3 of
3, so that a leg joins onto it from before; two standing tickets meet a cap of one. With a fourth stop (540,352 states), where
legs of different lengths overlap in part, the run passes too. A waitlist needs two entries for an order to be kept, and more than one seat
each for an offer to be made in part; two calls are enough for an answer and a job to have copies of one entry, and two choices for one to be lost and the next made. With a third
seat, which lets the second be served when the first has lost a choice, `OfferBacked` and `ServedInOrder` hold too (3.5 million
states), and so do `SweepReaches` and `OrphansCollected` where offers are made twice (`Limit = 2`, 437,422 states); in their run the
first unanswered offer closes an entry. Two devices with one ticket between them,
one of which was shown a standing leg before its second look at the seat's, are what an admission can be confused with; one fault cuts one upload short, after which the same batch is
sent again. In `selection` the first coach has an aisle in its first row, a gap of a row and a row of one seat, so that every
rank from side by side to spread across the train is the best there is in some scene; `Calm` scenes vary what
is taken and asked for with nobody else at work, `Busy` ones leave others three moves. Two calls on two records are a request with an
older copy and what overtakes it; a second period (`MaxPast` 1) is what the copy does not know of.

The longest runs (`waitlist`, `waitlist_liveness`, `coaches`, `scans`, `selection`, `memberships`) have 0.1 to 2.1 million
distinct states and take one to three minutes with two workers; the others are smaller.

Fairness, where a liveness property is checked:

- `SeatSales`: the sweep `hold.expire` runs every minute, so a due checkout is read
  (weak fairness of `ExpireRead`) and, as failing passes are followed by others, one commits
  (strong fairness of `ExpireCommit`); a sale under way ends, with the gateway's answer or a
  timeout (weak fairness of its two ends). Nothing is assumed of passengers.
- `DemandReturns`: `refund.close_departed` is scheduled (weak fairness of `CloseRead`), and each
  refund is reached by one of its runs (strong fairness of `CloseOne` for each). Trains need not leave.
- `JobQueue`: time passes (a wait ends; a lease nobody can renew lapses), a handler ends, a
  stopped process is started again (weak fairness each), and a due job is not passed over for ever
  by workers that find other work (strong fairness of a claim of each job: the queue takes the
  oldest of the same priority first, so this holds as long as more urgent work does
  not come in faster than it is done). Renewals, crashes, retries and pruning have none.
- `Coaches`: the job is run to its end by the queue, one ticket after another, and gets a ticket's lock in its
  turn (strong fairness of `JobRefunds` for each coach); a return that has its lock commits or fails (weak fairness).
- `Waitlist`: a pass asked for starts and goes through its list, `hold.expire` runs every minute, and each window ends (weak fairness of
  each). Nobody has to answer, join, buy or return; jobs that close or requeue entries need not run.
- `Scans`: the server works on what it has begun (weak fairness for each upload), and a device that has heard nothing sends again
  whenever the server has room (strong fairness for each device).

Runs do not check for deadlock: ids are used once, so every model ends.

Type invariants are theorems (below) and are not checked by the runs. That of `Waitlist` says besides that nobody is made more offers than
the setting allows.

## What the code does otherwise than it says

Each property in this table states a sentence of the repository's and is refuted within seconds: give it to TLC
in place of the properties of the configuration named (as an invariant if it is a state predicate, else as a property).

| Property, configuration | The sentence | What happens |
|---|---|---|
| `ConvertedStays`, `SeatSales_safety.cfg` | "the hold is marked converted" (`backend/tests/integration/suites/phase5.js:282`) | `release` or `expireDue` read the checkout as active, a sale commits, and then they write their status over `converted` (`holdService.js:185`). The seats are safe (`RowsMatchRecords` holds): only rows that are still the checkout's are deleted. |
| `EmptyBookingIsRefunded`, `SeatSales_safety.cfg` | "a booking with no tickets left is itself refunded" (`suites/phase6.js:177`, `refundService.js:440`) | Two returns of the last two tickets each count the other's as valid in their snapshot, and neither closes the booking. It errs on that side only: see `RefundedBookingIsEmpty`. |
| `AllSoldIsFinished`, `DemandReturns.cfg` | "A refund whose every segment has now sold is finished." (`refundService.js:556`) | Two sales of two segments of one return at once each count the other's as outstanding; it stays `partially_settled`, all of it paid. |
| `ClosedHasUnsold`, `DemandReturns.cfg` | "The train left with segments unsold" (`models/Refund.js:24`) | `closeDeparted` writes `closed` over a refund that was settled since its list was read (line 633). |
| `UnsoldStaysUnsold`, `DemandReturns.cfg` | "Segments still unsold at departure will never sell" (`refundService.js:604`) | Departure is that of the passenger's stop; the segments after it are still sold, and so is a checkout made before. By then the refund may have been closed. |
| `ChargedOnlyIfSold`, `Wallets.cfg` | "seats, tickets and money all move together or none of them do" (`bookingService.js:37`) | The card is captured, then a payout to another passenger's full wallet is refused (or a deadlock is lost) and the sale is rolled back; `reverse` is never called. The provider is simulated today. |
| `DecidedStays`, `Wallets.cfg` | "a decided request is a record, not a draft" (`approvalService.js:206`) | `cancel` overwrites a decision taken between its read and its write (line 223). The money has moved; the request says cancelled. |
| `StopsAfterMaxAttempts`, `JobQueue.cfg` | "After this many attempts it stops" (`constants/settingDefinitions.js:412`) | `claimNext` compares attempts with nothing, so a job whose last attempt died with its process is claimed again, once per loss and no more (`AttemptsAccounted`). |
| `OnlyFailedIsRetried`, `JobQueue.cfg` | "Only a failed one" (`jobService.js:526`) | Of two retries of one failed job, the second may be written when the job is already running. |
| `SucceededIsLast`, `JobQueue.cfg` | the diagram at `jobService.js:31` | A worker whose lease lapsed writes its outcome unconditionally, over a later one's. |
| `NobodyIsLeftAboard`, `Departures.cfg` | "Cancel a departure, and refund everyone aboard." (`tripService.js:465`) | A checkout made before the cancellation is paid for after the job has listed the last batch. |
| `ReinstatementsWait`, `Departures.cfg` | "So both reinstatements wait for this to clear." (`tripService.js:541`) | The check for live jobs and the write are apart: a failed job retried in between refunds tickets of a train that runs. |
| `NotRunningNotSold`, `Coaches.cfg` | "so nobody finishes paying for a seat that is not running" (`coachService.js:288`) | `cancel` releases checkouts after its transaction (line 349), when its job may have run; neither checkout nor sale looks at the coach's status. |
| `CheckoutKeepsSeat`, `Coaches.cfg` | "Deletes seats no ticket, hold or record refers to" (`coachService.js:43`) | A checkout made between a removal's check and its transaction loses its rows with the seat. `tripService.rebuild` (lines 382-460) deletes seats in the same way. |
| `LegHasSeat`, `Coaches.cfg` | "Refunding the seat takes its standing legs with it" (`models/Ticket.js:100`) | `purchase` reads the seated ticket without a lock; it is returned before the leg is written. |
| `LegRefundedOnce`, `Coaches.cfg` | "two tabs, two clicks, one refund" (`refundService.js:274`) | A return reads its legs before the job of a cancelled coach refunds them, and refunds them again. |
| `NoGaps`, `Coaches.cfg` | "because a coupling order has no gaps" (`coachService.js:169`) | `add` moves the coaches behind in a transaction of its own (lines 182-186); when the plan of the new coach then turns out to be one that cannot be built (`tripService.js:63-72`), `buildCoach` returns `skipped`, the transaction commits, and only then is the call refused (line 190). The gap stays. A departure generated from a train skips coaches and keeps the others' positions (`tripService.js:112-121`), which is the same. |
| `CouplingOrder`, `Coaches.cfg` with `Operators = {o1, o2}` and one passenger | the same line | Two additions, or an addition and a removal, at once write positions from copies read before, and two coaches get one position; with one operator it holds, which is what the run checks. |
| `FreeSeatIsOffered`, `Waitlist_liveness.cfg` | a sweep "on a timer as a safety net" (`waitlistService.js:339`) | No timer looks at who is waiting: an entry written after the last pass, beside a seat that came back since the passenger was refused it, waits until another seat frees. |
| `JoinOrderAlone`, `Waitlist.cfg` | "Join order, and nothing else." (`REQUIREMENTS.md:297`) | Somebody's seats are bought by others each time they are chosen (`selectionService.js:181`), or their turn ends in an error: `offerTo` answers `null` (`waitlistService.js:429`) or the loop goes on (398), and the next in the queue is offered what there is. Nor does a pass go back to those it has gone by when a seat comes back during it: later ones get that seat (the pass asked for then starts at the front again). |
| `ClosedStays`, `Waitlist.cfg` | "They took it." (`models/WaitlistEntry.js:28`) | `expireOffers` writes a copy read before the answer: an entry confirmed or left is back in the queue. |
| `UsedHasEvidence`, `Scans.cfg` | "this is the evidence behind it" (`models/TicketScan.js:23`), "a sync retried after a dropped connection changes nothing" (`verificationService.js:487`) | Of two uploads of one scan at once, one marks the ticket and the other records the scan first, as already used; the first then fails on the unique reference. So does a crash between the two, with a retry: the ticket is used, and the log holds only a refusal. |
| `TravelledIsNotRefunded`, `Scans.cfg` | "That ticket has already been travelled on." (`refundService.js:129`, why it cannot be returned) | A return reads the standing legs of its seat without a lock (`releaseStandingFor`, `refundService.js:405-415`) and writes each `refunded` by its id (418). A leg scanned in between is used, its scan is in the log as an admission, and it is paid back. |
| `QuantityKept`, `Selection.cfg` | a rule's quantity (`quotaService.js`, `materialiseForTrip`) | A run that does not replace, which is what the API does unless told, reserves as many seats again. |
| `HeldAsReserved`, `Selection.cfg` | "A reserved seat sells as **exactly** its own pair" (`utils/availability.js:63`) | A reservation is looked at when seats are listed and not when they are held. |
| `RunsUntilOver`, `Memberships.cfg` | "It then runs until that period is over, or until the subscriber or a reviewer cancels it." (`subscriptionService.js:20`) | `request` carries on a record it read as ended, by id: asked for again and approved, or continued, meanwhile, it is set back to waiting (the unique key is its own). `expire` checks the status only, so a record continued since the sweep looked is ended. |
| `ClosedIsAnswered`, `Memberships.cfg` | "nobody is left wondering" (`subscriptionService.js:196`) | A request that read the subscription open is written after it was closed and its requests declined. |

Met while reading, and not the subject of a property: `money.split` takes its balance `| 0`
(`utils/money.js:79`), so a wallet of 2^31 minor units or more is split as if it were
smaller or empty (the model has no such balances; `wallet.max_balance` is what keeps them out when
set). Nothing in the code freezes a wallet, so `post`'s refusal of frozen ones is not
in the model. A passenger whose wallet is at its limit makes a refund job fail for good and with it the
refunds of everybody listed after (`JobRefused`); retrying meets the same wallet first.
`tripService.reinstate` writes the departure and the coaches in separate statements. The web checker
(`src/frontend/src/app/dashboard/checker/page.js`) makes a new reference for every call, so a scan repeated after a lost answer
is shown as already scanned. `relaxed` names every criterion asked for, although `autoSelect.js:12` says it names exactly what
was given up. `releaseDue` releases by id, also a row that was placed anew since it was found due. `models/UserSubscription.js:13`
says a row is never reused, which `request` and `resume` do. `appTokenService.issue` revokes and creates in separate
statements: two sign-ins of one device at once leave two live tokens.


## The proofs

Eight modules `*_proofs` prove with TLAPS that the invariants and action properties below hold for every
value of the constants: any number of seats, segments, tickets, wallets, jobs, workers, devices. Identifiers
are elements of arbitrary sets, except where the code compares them (tickets and jobs in `Departures`, people and
holds in `Waitlist`, records in `Memberships`, seats in `Quotas` are numbers). What is assumed of them is in the named assumptions of the modules
(`SalesAssumption`, `WalletsAssumption`, `QueueAssumption`, `DeparturesAssumption`, `ReturnsAssumption`,
`ScansAssumption`, `CoachesAssumption`, `WaitlistAssumption`, `MembershipsAssumption`, `QuotasAssumption`,
`LayoutAssumption`, `SelectionAssumption`): bounds are
natural numbers, some sets are finite, and a constant that means "nobody" is not somebody. TLC evaluates each of them.

Each module states an inductive invariant, proves that the initial states have it and every step keeps it (one
lemma per action), and takes the properties from it.

| Module | Theorems | The argument |
|---|---|---|
| `SeatSales_proofs` | `SpecTypeOK`, `SpecRowsMatchRecords`, `SpecNoOversell`, `SpecRefundedBookingIsEmpty`, `SpecImplementsLedger` | `IInv` is `RowsMatchRecords` in two halves, `HoldRows` and `TicketRows`, with `UnderWay`: a sale's lock keeps its checkout active until it ends. Alone they are not inductive: a sale that commits converts its checkout's rows, so the checkout it began with must still have them. Stale releases may write any status, but delete only rows the checkout still has; `FreeHoldsStep` shows this once for release and sweep. `RefundedBookingIsEmpty` needs a second invariant: what a return counted in its snapshot covers what is valid (`SeenCovers`), and a checkout that is not sold has no tickets, so that none joins a booking later (`Unsold`). For the refinement each action is one of `SeatLedger`'s, or changes no seat. |
| `DemandReturns_proofs` | `SpecTypeOK`, `SpecResaleAlwaysPays`, `SpecOnePayoutPerSale`, `SpecSettledIsPaidInFull`, `SpecClosedIsFinal`, `SpecRefundedIsSumOfShares`, `SplitIsWhole` | A sale pays whoever waits for its segments by a snapshot that may be old. What makes it right: at most one refund waits for a segment (`OneWaits`); a seat's owner is the ticket that is held or valid there and nobody else (`Seats`); only sold tickets settle (`SettledBySale`); and a snapshot shows nothing settled that is not (`Views`). For the amounts (`Amounts`), a sum over a set of segments is the number of minor units in their shares (`SumIsCount`: the count satisfies the recursion of the fold, and a smallest set on which the two differ cannot be), so that sums of disjoint sets add up; the remainder of the division goes to as many segments as it is (`EarlierOnes`), so a split loses nothing (`SplitIsWhole`). |
| `Wallets_proofs` | `SpecTypeOK`, `SpecLedgerAdds`, `SpecMovementsBounded`, `SpecAppendOnly`, `SpecWithdrawnOnce` | `Books`: of every wallet both what is committed and what its locker is writing add up and stay in bounds, and the second extends the first. `Plans` and `Asked` bound what a transaction is about to post, which `MovementsBounded` needs. `WithdrawnOnce` takes a second invariant, `WInv`: what is not committed belongs to the transaction with the wallet's lock (`Kept`); a request has one decision that stands at most, and a cancel only overwrites the word for it (`Decided`); a transaction that decides has its debit planned or made, never both and never twice (`Paid`). |
| `JobsAndMemberships_proofs`, for `JobQueue` | `SpecTypeOK`, `SpecOneRunner`, `SpecAttemptsAccounted` | For each job apart, until a lapsed lease lets it be taken from a live worker: who runs it has its row and its lease (`Holds`), and its attempts are among those allowed or paid for by a loss (`Counts`). |
| the same, for `Memberships` | `SpecMembershipTypeOK`, `SpecOneLive`, `SpecPlacesWithinGrant`, `SpecRunsOn` | `RecordsInv`: every statement that makes a record live either keeps a live one or finds none. A check goes by a limit that was granted once (`CallsInv`), whatever is granted when it admits, so the devices with a place stay within the most ever granted (`DevicesInv`). |
| `DeparturesAndWaitlist_proofs`, for `Departures` | `SpecTypeOK`, `SpecRefundedOnce`, `SpecEveryoneIsOwed`, `SpecOwedAreSettled` | `EveryoneIsOwed` says that an unrefunded ticket of a cancelled coach is owed by a live job; to keep it, a run that ends must have left nobody (`NoneLeft`). An empty list must then mean that nobody is left, which is where a finite set needs a least element. What a live job refunds is cancelled (`RefundsApart`), unless a reinstatement raced with a retry, which the model marks. |
| the same, for `Waitlist` | `SpecWaitlistTypeOK`, `SpecOfferBacked`, `SpecServedInOrder` | `QueueInv` has eight parts. The seats free and held are no more than there are (`Seats`). A hold is one person's, by their entry or by a call with a copy of it, and nobody's while the pass that made it has not claimed it (`Unshared`); so what ends one hold leaves every other offer alone. What a pass has made is whole or gone (`MadeWhole`), so a claim gives the seats promised or notes that they went; from then on they are there, or whoever has taken them in an answer is still to write (`Backed`). `Allowed` bounds the offers: only the expiry job puts anybody back, once, and not with the allowance used up. For the order of the queue, there is too little for those passed over as long as no seat comes back (`TooLittle`), also after the next one has been given what there is; of those whose turn failed nothing of the kind can be said, and the property does not. The two invariants of the runs are inductive in none of these parts alone. |
| `Coaches_proofs` | `SpecTypeOK`, `SpecRecordOutlives`, `SpecCapHolds`, `SpecCouplingOrder` | Whoever has rows or a ticket is in a coach that is there (`Records`): a removal commits only where no ticket names the coach (its foreign keys), and takes the rows of checkouts with the seats. The cap is an inequality of cardinalities; `Rooms` says that the purchase which has the coach's lock leaves room for one over each segment of its stretch. `CouplingOrder` has two hypotheses: one operator at a time (`OneOperator`; the code does not keep the order with two, see above) and a train whose positions are distinct and leave no more places open than `Missing` (`TrainOrdered`: a composition is numbered from 1, and `buildTrip` keeps its positions when it skips a coach, so `Missing` is their number). Its invariant `InOrder` counts the coaches while an addition or a removal is between its read and its write; an addition that is refused late opens one place, which `skips` counts (`SkipInOrder`), and one lost otherwise opens none. |
| `Scans_proofs` | `SpecTypeOK`, `SpecAdmittedOnce`, `SpecReportsAgree` | `OneAtWork`: between marking a ticket and recording it one scan is at work on it; `MarksTickets` and `Reporting` tie what devices are told to the log. An admitted ticket is used, or, a standing leg whose return had read it before it was scanned, refunded all the same (`Spent`): returns of everything else look again under the ticket's lock. |
| `Selection_proofs` | `SpecTypeOK`, `SpecExplained`, `SpecHandPlacedStands`, `OverlapIsShared`, `AvailableIsOnOffer`, `SpecOffersWhatIsOnOffer`, `BestBlocksAreClosest`, `SpecAsCloseAsCan`, `SpecNoSilentLetDown` | `Locks`: the rows a replacing run deletes are the rules' and locked by it alone, so nothing is placed by hand there until it writes. `OverlapIsShared` and `AvailableIsOnOffer` are lemmas about the functions themselves: the comparisons of `availability.js` at the ends of intervals say the same as sharing a segment. `BestBlocksAreClosest` is one about the search: what an attempt finds is as close as it claims (`AttemptsKeepTheirWord`), and where any n seats are so close an attempt down to there finds some (`SomeAttemptFinds`). Seats side by side leave none out between them, by a pigeonhole argument on their cells (`SideBySideIsWhole`), so they are a window of their row; seats within a row of each other reach over a window that is no wider (`NearbyFound`). |

What is only model-checked:

- Liveness: `AbandonedSeatsReturn`, `DepartedRefundsClose`, `EveryJobEnds`, `MadeWhole`, `SweepReaches`,
  `OrphansCollected`, `EveryScanArrives`. Fairness and ENABLED are beyond the prover.

The theorems of the library that take an operator (induction over naturals, over finite sets) cannot be used by
the provers at hand; where an induction is needed, a smallest counterexample is taken instead (`SmallestSubset`,
`Ends`), which they can.

Everything is proved about the models; that they follow the code is for a reader to judge, line by line, with the map.

## Not modelled

Components left out altogether are in `PROJECT.json` with the reason: administrative records changed
by single statements, pages, formatting, sample data, imports. Inside the modelled components:

- **Sales, returns, money.** Percentages and fees of the refund policies (arithmetic without state: amounts are shares
  per segment), prices, references and names, creating a wallet's row, transfers of tickets, currencies.
- **Jobs.** Priorities, dedupe keys other than the refund jobs', logs, and what other handlers do.
- **Departures.** Generating and rebuilding them from trains; the settings that switch refunds off.
- **Coaches.** A departure's own status, scanned tickets, a second operator for `CouplingOrder` (above), and
  the possibility that the job fails (it is in `Departures`).
- **Waitlist.** Holds against abuse, several server processes, several runs of one job at the same time.
- **Scans.** Signatures of tokens, packs for offline use, manual look-ups.
- **Quotas and selection.** Creating and changing rules; departures that are past or cancelled. The three reads that make an
  availability are one step; deleting a rule is one step; and a lock on a range of rows is taken wider than
  the database takes it. `releaseDue` finds rows and releases them by id; a row placed anew in
  between needs four moves of others, and the bound is three.
- **Subscriptions.** App tokens, refusals on versions, reminders, several platforms, the batches of the sweep, the
  order in which devices were admitted.

Bounds are named constants (`Max...`, and sets in the `MC` modules); none of them is in the code.

## Plan

In this order:

1. Sign-in and tokens: rotation and revocation, with a token presented twice and two sign-ins at once.
2. Restrictions and abuse, with approval of ticket transfers, on the model of withdrawals in `Wallets`.
3. Pure functions as operators against reference definitions: `money.split`, refund policies, fares, the calendar.
4. Compositions: a sale with its wallets, and a cancelled departure with the leases of its jobs.
