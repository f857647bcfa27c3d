-------------------------------- MODULE Wallets --------------------------------
(***************************************************************************)
(* Wallets and what moves them: top-ups, refunds, adjustments, purchases   *)
(* paid from a wallet and a card, and withdrawals a person approves        *)
(* (walletService, paymentService, the withdrawals of postSaleService and  *)
(* the approvals they go through).                                         *)
(*                                                                         *)
(* Every movement runs in a database transaction x.  It knows its plan,    *)
(* a sequence of postings, when it begins; each posting to a wallet locks  *)
(* the row until x ends.  working is a wallet as its lock holder sees it,  *)
(* stored as everybody else does.  A purchase splits its total between     *)
(* wallet and card on a balance it read without the lock.  The card        *)
(* provider is outside the database: charged survives a rollback.          *)
(***************************************************************************)
EXTENDS Integers, Sequences

CONSTANTS
  Users,      \* each has one wallet
  Txs,        \* database transactions, each used once
  Requests,   \* ids of withdrawal requests
  Nobody,     \* no transaction, no user
  Card,       \* the card provider, where a posting may go instead of a wallet
  Limit,      \* wallet.max_balance in minor units; 0 for no limit
  MaxAmount,  \* bound: no movement is larger
  Crashes     \* bound: whether a process may die with its transaction open

ASSUME WalletsAssumption ==
  /\ Limit \in Nat
  /\ MaxAmount \in Nat \ {0}
  /\ Nobody \notin Users \union Txs \union Requests \union {Card}
  /\ Card \notin Users
  /\ Crashes \in BOOLEAN

Amounts == 1 .. MaxAmount
Methods == {"wallet", "gateway", "split"}
Reasons == {"topup", "booking", "refund", "withdrawal", "adjustment"}
RequestStatus == {"none", "asking", "pending", "approved", "rejected", "cancelled"}

VARIABLES
  stored,     \* stored[u]: balance and entries as committed
  working,    \* the same with what the holder of u's lock has done so far
  lock,       \* lock[u]: the transaction that has u's wallet row
  tx,         \* each transaction's status, and the request it decides if any
  plan,       \* what x has still to post
  charged,    \* what the card provider has captured for x
  request,    \* the withdrawal requests
  cancelling  \* requests whose cancel has read them and not written

vars == <<stored, working, lock, tx, plan, charged, request, cancelling>>

Idle == [status |-> "idle", request |-> Nobody]

Init ==
  /\ stored = [u \in Users |-> [balance |-> 0, entries |-> <<>>]]
  /\ working = stored
  /\ lock = [u \in Users |-> Nobody]
  /\ tx = [x \in Txs |-> Idle]
  /\ plan = [x \in Txs |-> <<>>]
  /\ charged = [x \in Txs |-> 0]
  /\ request = [w \in Requests |-> [status |-> "none", user |-> Nobody, amount |-> 0]]
  /\ cancelling = {}

\* A posting: a signed amount to a wallet, or an amount to the card.
To(where, delta, reason) == [to |-> where, delta |-> delta, reason |-> reason]

\* The row of a request stays locked by the transaction that decides it.
BeingDecided(w) == \E x \in Txs : tx[x].status = "open" /\ tx[x].request = w

-----------------------------------------------------------------------------
\* Transactions begin.

Begin(x, w, postings) ==
  /\ tx[x] = Idle
  /\ tx' = [tx EXCEPT ![x] = [status |-> "open", request |-> w]]
  /\ plan' = [plan EXCEPT ![x] = postings]
  /\ UNCHANGED <<stored, working, lock, charged, request, cancelling>>

TopUp(x, u, amount) == Begin(x, Nobody, <<To(u, amount, "topup")>>)

\* A return or a cancellation: always to the wallet.
Refund(x, u, amount) == Begin(x, Nobody, <<To(u, amount, "refund")>>)

Adjust(x, u, delta) == Begin(x, Nobody, <<To(u, delta, "adjustment")>>)

\* money.split: what the wallet can cover.
FromWallet(total, available) ==
  IF available <= 0 THEN 0 ELSE IF available > total THEN total ELSE available

\* collect, and then settleResold, which credits the owners of returns that this
\* sale resells; the split rests on the balance in the transaction's snapshot.
Purchase(x, u, total, method, payouts) ==
  LET available == IF method = "gateway" THEN 0 ELSE stored[u].balance
      fromWallet == FromWallet(total, available)
      onCard == total - fromWallet
  IN /\ method = "wallet" => fromWallet = total
     /\ Begin(x, Nobody,
              (IF fromWallet > 0 THEN <<To(u, -fromWallet, "booking")>> ELSE <<>>)
              \o (IF onCard > 0 THEN <<To(Card, onCard, "booking")>> ELSE <<>>)
              \o payouts)

-----------------------------------------------------------------------------
\* Transactions run.

WithinLimit(balance) == Limit = 0 \/ balance <= Limit

\* Mistake: spending looks at the balance of the others' snapshot.
AllowedBySnapshot(u, p) ==
  /\ p.reason \in {"booking", "withdrawal"} => stored[u].balance >= 0
  /\ p.delta > 0 => WithinLimit(working[u].balance + p.delta)
\* post: no spending below zero, except by adjustment; no credit past the limit.
Allowed(u, p) ==
  LET next == working[u].balance + p.delta
  IN /\ p.delta < 0 => next >= 0 \/ p.reason = "adjustment"
     /\ p.delta > 0 => WithinLimit(next)

\* Mistake: the balance is moved from what was read before the lock.
MovedFromSnapshot(x, u, p) ==
  LET next == stored[u].balance + p.delta
  IN [balance |-> next,
      entries |-> Append(working[u].entries,
                    [tx |-> x, delta |-> p.delta, after |-> next, reason |-> p.reason])]
\* Mistake: movements of a transaction on one wallet are gathered in one entry.
MovedInPlace(x, u, p) ==
  LET next == working[u].balance + p.delta
      old == working[u].entries
      entry == [tx |-> x, delta |-> p.delta, after |-> next, reason |-> p.reason]
  IN [balance |-> next,
      entries |-> IF old # <<>> /\ p.reason = "refund"
                    THEN [old EXCEPT ![Len(old)] = entry] ELSE Append(old, entry)]
\* post: append an entry and move the balance by it.
Moved(x, u, p) ==
  LET next == working[u].balance + p.delta
  IN [balance |-> next,
      entries |-> Append(working[u].entries,
                    [tx |-> x, delta |-> p.delta, after |-> next, reason |-> p.reason])]

Running(x) == tx[x].status = "open" /\ plan[x] # <<>>

Post(x) ==
  LET p == Head(plan[x])
      u == p.to
  IN /\ Running(x) /\ u # Card
     /\ lock[u] \in {Nobody, x}
     /\ Allowed(u, p)
     /\ working' = [working EXCEPT ![u] = Moved(x, u, p)]
     /\ lock' = [lock EXCEPT ![u] = x]
     /\ plan' = [plan EXCEPT ![x] = Tail(plan[x])]
     /\ UNCHANGED <<stored, tx, charged, request, cancelling>>

\* The card provider captures the amount.
Capture(x) ==
  LET p == Head(plan[x])
  IN /\ Running(x) /\ p.to = Card
     /\ charged' = [charged EXCEPT ![x] = charged[x] + p.delta]
     /\ plan' = [plan EXCEPT ![x] = Tail(plan[x])]
     /\ UNCHANGED <<stored, working, lock, tx, request, cancelling>>

Mine(x, u) == lock[u] = x
Unlocked(x) == [u \in Users |-> IF Mine(x, u) THEN Nobody ELSE lock[u]]

\* Everything posted is there for everyone, and a decision with it.
Commit(x) ==
  /\ tx[x].status = "open" /\ plan[x] = <<>>
  /\ stored' = [u \in Users |-> IF Mine(x, u) THEN working[u] ELSE stored[u]]
  /\ lock' = Unlocked(x)
  /\ tx' = [tx EXCEPT ![x].status = "committed"]
  /\ request' = [w \in Requests |->
       IF tx[x].request = w THEN [request[w] EXCEPT !.status = "approved"] ELSE request[w]]
  /\ UNCHANGED <<working, plan, charged, cancelling>>

Rollback(x) ==
  /\ working' = [u \in Users |-> IF Mine(x, u) THEN stored[u] ELSE working[u]]
  /\ lock' = Unlocked(x)
  /\ tx' = [tx EXCEPT ![x].status = "rolled_back"]
  /\ plan' = [plan EXCEPT ![x] = <<>>]
  /\ UNCHANGED <<stored, charged, request, cancelling>>

\* The wallet refuses the posting, the card is declined, or the row is locked and
\* the database ends the transaction as a deadlock's victim or after its wait.
GiveUp(x) ==
  LET p == Head(plan[x])
  IN /\ Running(x)
     /\ p.to # Card => lock[p.to] \notin {Nobody, x} \/ ~Allowed(p.to, p)
     /\ Rollback(x)

Crash(x) == Crashes /\ tx[x].status = "open" /\ Rollback(x)

-----------------------------------------------------------------------------
\* Withdrawal requests.

\* requestWithdrawal reads the balance and looks for a request already waiting.
Ask(w, u, amount) ==
  /\ request[w].status = "none"
  /\ stored[u].balance >= amount
  /\ ~\E v \in Requests : request[v].status = "pending" /\ request[v].user = u
  /\ request' = [request EXCEPT ![w] = [status |-> "asking", user |-> u, amount |-> amount]]
  /\ UNCHANGED <<stored, working, lock, tx, plan, charged, cancelling>>

\* It writes the request, whatever has happened since.
Open(w) ==
  /\ request[w].status = "asking"
  /\ request' = [request EXCEPT ![w].status = "pending"]
  /\ UNCHANGED <<stored, working, lock, tx, plan, charged, cancelling>>

\* Mistake: the request is read without its lock, so that two reviewers approve it.
DecidableTwice(w) == request[w].status = "pending"
\* decide locks the request and looks at it again.
Decidable(w) == request[w].status = "pending" /\ ~BeingDecided(w)

Approve(x, w) ==
  /\ Decidable(w)
  /\ Begin(x, w, <<To(request[w].user, -request[w].amount, "withdrawal")>>)

Reject(w) ==
  /\ Decidable(w)
  /\ request' = [request EXCEPT ![w].status = "rejected"]
  /\ UNCHANGED <<stored, working, lock, tx, plan, charged, cancelling>>

\* cancel reads the request as committed ...
CancelRead(w) ==
  /\ request[w].status = "pending" /\ w \notin cancelling
  /\ cancelling' = cancelling \union {w}
  /\ UNCHANGED <<stored, working, lock, tx, plan, charged, request>>

\* ... and updates it by its id, once nobody has the row locked.
CancelWrite(w) ==
  /\ w \in cancelling /\ ~BeingDecided(w)
  /\ request' = [request EXCEPT ![w].status = "cancelled"]
  /\ cancelling' = cancelling \ {w}
  /\ UNCHANGED <<stored, working, lock, tx, plan, charged>>

\* No payout, or one to the owner of a return.
Payouts == {<<>>} \union {<<To(v, amount, "refund")>> : v \in Users, amount \in Amounts}

Next ==
  \/ \E x \in Txs, u \in Users, amount \in Amounts : TopUp(x, u, amount)
  \/ \E x \in Txs, u \in Users, amount \in Amounts : Refund(x, u, amount)
  \/ \E x \in Txs, u \in Users, amount \in Amounts : Adjust(x, u, amount)
  \/ \E x \in Txs, u \in Users, amount \in Amounts : Adjust(x, u, -amount)
  \/ \E x \in Txs, u \in Users, total \in Amounts, method \in Methods, payouts \in Payouts :
       Purchase(x, u, total, method, payouts)
  \/ \E x \in Txs : Post(x)
  \/ \E x \in Txs : Capture(x)
  \/ \E x \in Txs : Commit(x)
  \/ \E x \in Txs : GiveUp(x)
  \/ \E x \in Txs : Crash(x)
  \/ \E w \in Requests, u \in Users, amount \in Amounts : Ask(w, u, amount)
  \/ \E w \in Requests : Open(w)
  \/ \E x \in Txs, w \in Requests : Approve(x, w)
  \/ \E w \in Requests : Reject(w)
  \/ \E w \in Requests : CancelRead(w)
  \/ \E w \in Requests : CancelWrite(w)

Spec == Init /\ [][Next]_vars

-----------------------------------------------------------------------------
(* Properties                                                              *)

Entry == [tx : Txs, delta : Int, after : Int, reason : Reasons]
Wallet == [balance : Int, entries : Seq(Entry)]
Posting == [to : Users \union {Card}, delta : Int, reason : Reasons]

\* Every row keeps its type (Wallet, WalletTransaction, ApprovalRequest).
TypeOK ==
  /\ stored \in [Users -> Wallet] /\ working \in [Users -> Wallet]
  /\ lock \in [Users -> Txs \union {Nobody}]
  /\ tx \in [Txs -> [status : {"idle", "open", "committed", "rolled_back"},
                     request : Requests \union {Nobody}]]
  /\ plan \in [Txs -> Seq(Posting)]
  /\ charged \in [Txs -> 0 .. MaxAmount]
  /\ request \in [Requests -> [status : RequestStatus, user : Users \union {Nobody}, amount : Nat]]
  /\ cancelling \subseteq Requests

\* The balance of a wallet after i of its entries, by the entries themselves.
After(wallet, i) == IF i = 0 THEN 0 ELSE wallet.entries[i].after

\* walletService.verify: each entry starts where the one before it ended, and the
\* cached balance is where the last one ended, so it is the sum of them all.
Adds(wallet) ==
  /\ \A i \in 1 .. Len(wallet.entries) :
       wallet.entries[i].after = After(wallet, i - 1) + wallet.entries[i].delta
  /\ wallet.balance = After(wallet, Len(wallet.entries))

LedgerAdds == \A u \in Users : Adds(stored[u])

\* No purchase or withdrawal overdraws a wallet and no credit takes it past its
\* limit, whatever was read before the row was locked (walletService.post).
Bounded(wallet) ==
  \A i \in 1 .. Len(wallet.entries) : LET e == wallet.entries[i] IN
    /\ e.reason \in {"booking", "withdrawal"} => e.after >= 0
    /\ e.delta > 0 => WithinLimit(e.after)

MovementsBounded == \A u \in Users : Bounded(stored[u])

\* new has the entries of old and perhaps more.
Extends(new, old) ==
  /\ Len(new.entries) >= Len(old.entries)
  /\ \A i \in 1 .. Len(old.entries) : new.entries[i] = old.entries[i]

\* Nothing is ever edited: no step changes or drops a committed entry
\* (walletService.js, the first of its two rules).
AppendOnly == [][\A u \in Users : Extends(stored[u]', stored[u])]_vars

\* The entries that paid a withdrawal request out.
PaidOut(w) ==
  {p \in UNION {{u} \X (1 .. Len(stored[u].entries)) : u \in Users} :
     LET e == stored[p[1]].entries[p[2]]
     IN e.reason = "withdrawal" /\ tx[e.tx].request = w}

\* Money leaves at most once for a request, never for one nobody has approved, and
\* always for one that stands approved (approvalService.decide: the row is locked
\* and looked at again, and decision and debit commit together).
WithdrawnOnce ==
  \A w \in Requests :
    /\ \A p, q \in PaidOut(w) : p = q
    /\ PaidOut(w) # {} => request[w].status \in {"approved", "cancelled"}
    /\ request[w].status = "approved" => PaidOut(w) # {}

\* What the code's comments say and its steps refute.
\*
\* bookingService.js:37, "seats, tickets and money all move together or none of
\* them do".  A card captured before the purchase is rolled back (a payout to
\* somebody else's full wallet is enough) stays captured: reverse is never called.
ChargedOnlyIfSold ==
  \A x \in Txs : tx[x].status = "rolled_back" => charged[x] = 0

\* approvalService.js:206, "a decided request is a record, not a draft".  cancel
\* writes by id what it decided on an unlocked read.
DecidedStays ==
  [][\A w \in Requests :
       request[w].status \in {"approved", "rejected"} => request'[w] = request[w]]_vars
=============================================================================
