--------------------------- MODULE Wallets_proofs ---------------------------
(***************************************************************************)
(* Proofs about Wallets for every set of users, transactions and requests, *)
(* any limit and any bound on amounts.                                     *)
(*                                                                         *)
(* LedgerAdds and MovementsBounded speak of what is committed.  They are   *)
(* inductive once the same is known of the wallet a transaction is working *)
(* on, and that its ledger extends the committed one (Books).  Whether a   *)
(* posting keeps a wallet bounded depends on what is still planned: money  *)
(* spent is always a debit (Plans).                                        *)
(***************************************************************************)
EXTENDS Wallets, TLAPS

Sound(wallet) == Adds(wallet) /\ Bounded(wallet)

Books ==
  \A u \in Users :
    /\ Sound(stored[u]) /\ Sound(working[u])
    /\ Extends(working[u], stored[u])

\* Purchases and withdrawals are debits; the card is asked once, for an amount.
PlanOK(postings, already) ==
  /\ \A i \in 1 .. Len(postings) :
       /\ postings[i].reason \in {"booking", "withdrawal"} /\ postings[i].to # Card
            => postings[i].delta < 0
       /\ postings[i].to = Card => postings[i].delta \in Amounts /\ already = 0
  /\ \A i, j \in 1 .. Len(postings) :
       postings[i].to = Card /\ postings[j].to = Card => i = j

Plans ==
  /\ \A x \in Txs : PlanOK(plan[x], charged[x])
  /\ \A x \in Txs : tx[x].status = "idle" => charged[x] = 0

\* A request that exists names a user and an amount; only such requests are
\* decided or cancelled.
Asked ==
  /\ \A w \in Requests :
       request[w].status # "none" => request[w].user \in Users /\ request[w].amount \in Amounts
  /\ \A w \in cancelling : request[w].status # "none"
  /\ \A x \in Txs : tx[x].request # Nobody => request[tx[x].request].status # "none"

IInv == TypeOK /\ Books /\ Plans /\ Asked

-----------------------------------------------------------------------------
\* Appending an allowed posting to a sound wallet leaves it sound.
LEMMA MovedSound ==
  ASSUME NEW x \in Txs, NEW u \in Users, NEW p \in Posting,
         working[u] \in Wallet, Sound(working[u]), Allowed(u, p),
         p.reason \in {"booking", "withdrawal"} => p.delta < 0
  PROVE  /\ Moved(x, u, p) \in Wallet
         /\ Sound(Moved(x, u, p))
         /\ Extends(Moved(x, u, p), working[u])
<1> DEFINE old == working[u].entries
           next == working[u].balance + p.delta
           entry == [tx |-> x, delta |-> p.delta, after |-> next, reason |-> p.reason]
           new == Append(old, entry)
<1>1. old \in Seq(Entry) /\ working[u].balance \in Int /\ p.delta \in Int /\ p.reason \in Reasons
  BY DEF Wallet, Posting
<1>2. entry \in Entry /\ next \in Int
  BY <1>1 DEF Entry
<1>3. Moved(x, u, p) = [balance |-> next, entries |-> new]
  BY DEF Moved
<1> HIDE DEF entry, next
<1>4. /\ new \in Seq(Entry) /\ Len(new) = Len(old) + 1
      /\ new[Len(old) + 1] = entry
      /\ \A i \in 1 .. Len(old) : new[i] = old[i]
  BY <1>1, <1>2
<1>5. Moved(x, u, p) \in Wallet
  BY <1>2, <1>3, <1>4 DEF Wallet
<1>6. Extends(Moved(x, u, p), working[u])
  BY <1>1, <1>3, <1>4 DEF Extends
<1> HIDE DEF new
<1>7. entry.after = next /\ entry.delta = p.delta /\ entry.reason = p.reason
  BY DEF entry
<1>8. Adds(Moved(x, u, p))
  <2>1. Len(old) \in Nat
    BY <1>1
  <2>2. next = After(working[u], Len(old)) + p.delta
    BY DEF next, Sound, Adds
  <2>3. \A i \in 0 .. Len(old) : After(Moved(x, u, p), i) = After(working[u], i)
    BY <1>3, <1>4, <2>1 DEF After
  <2>4. \A i \in 1 .. Len(old) + 1 : new[i].after = After(Moved(x, u, p), i - 1) + new[i].delta
    <3> SUFFICES ASSUME NEW i \in 1 .. Len(old) + 1
                 PROVE  new[i].after = After(Moved(x, u, p), i - 1) + new[i].delta
      OBVIOUS
    <3>1. CASE i \in 1 .. Len(old)
      BY <3>1, <2>1, <2>3, <1>4 DEF Sound, Adds
    <3>2. CASE i = Len(old) + 1
      BY <3>2, <2>1, <2>2, <2>3, <1>4, <1>7
    <3> QED BY <3>1, <3>2, <2>1
  <2>5. After(Moved(x, u, p), Len(old) + 1) = next
    BY <1>3, <1>4, <1>7, <2>1 DEF After
  <2> QED BY <1>3, <1>4, <2>4, <2>5 DEF Adds
<1>9. Bounded(Moved(x, u, p))
  <2>1. /\ entry.reason \in {"booking", "withdrawal"} => entry.after >= 0
        /\ entry.delta > 0 => WithinLimit(entry.after)
    BY <1>1, <1>7 DEF Allowed, next
  <2>2. Len(old) \in Nat
    BY <1>1
  <2>3. \A i \in 1 .. Len(old) + 1 :
          /\ new[i].reason \in {"booking", "withdrawal"} => new[i].after >= 0
          /\ new[i].delta > 0 => WithinLimit(new[i].after)
    <3> SUFFICES ASSUME NEW i \in 1 .. Len(old) + 1
                 PROVE  /\ new[i].reason \in {"booking", "withdrawal"} => new[i].after >= 0
                        /\ new[i].delta > 0 => WithinLimit(new[i].after)
      OBVIOUS
    <3>1. CASE i \in 1 .. Len(old)
      BY <3>1, <1>4 DEF Sound, Bounded
    <3>2. CASE i = Len(old) + 1
      BY <3>2, <2>1, <1>4
    <3> QED BY <3>1, <3>2, <2>2
  <2>4. Moved(x, u, p).entries = new
    BY <1>3
  <2> QED BY <2>3, <2>4, <1>4 DEF Bounded
<1> QED BY <1>5, <1>6, <1>8, <1>9 DEF Sound

\* The rest of a plan is a plan.
LEMMA TailPlan ==
  ASSUME NEW postings \in Seq(Posting), postings # <<>>,
         NEW already, PlanOK(postings, already)
  PROVE  /\ Tail(postings) \in Seq(Posting) /\ Head(postings) \in Posting
         /\ PlanOK(Tail(postings), already)
         /\ \A i \in 1 .. Len(Tail(postings)) : Head(postings).to = Card => Tail(postings)[i].to # Card
<1>1. /\ Tail(postings) \in Seq(Posting) /\ Len(Tail(postings)) = Len(postings) - 1
      /\ Head(postings) = postings[1] /\ Head(postings) \in Posting
      /\ \A i \in 1 .. Len(postings) - 1 : Tail(postings)[i] = postings[i + 1]
      /\ Len(postings) \in Nat \ {0}
  OBVIOUS
<1> QED BY <1>1 DEF PlanOK

LEMMA ExtendsTransitive ==
  ASSUME NEW a \in Wallet, NEW b \in Wallet, NEW c \in Wallet,
         Extends(a, b), Extends(b, c)
  PROVE  Extends(a, c)
<1>1. Len(a.entries) \in Nat /\ Len(b.entries) \in Nat /\ Len(c.entries) \in Nat
  BY DEF Wallet
<1> QED BY <1>1 DEF Extends

LEMMA ExtendsItself ==
  ASSUME NEW a \in Wallet
  PROVE  Extends(a, a)
<1>1. Len(a.entries) \in Nat
  BY DEF Wallet
<1> QED BY <1>1 DEF Extends

-----------------------------------------------------------------------------
LEMMA InitIInv == Init => IInv
<1> SUFFICES ASSUME Init PROVE IInv
  OBVIOUS
<1> USE WalletsAssumption
<1>1. TypeOK
  <2>1. [balance |-> 0, entries |-> <<>>] \in Wallet
    BY DEF Wallet
  <2> QED BY <2>1 DEF Init, TypeOK, Idle, RequestStatus
<1>2. Books
  <2>1. \A u \in Users : stored[u] = [balance |-> 0, entries |-> <<>>] /\ working[u] = stored[u]
    BY DEF Init
  <2>2. Sound([balance |-> 0, entries |-> <<>>])
    BY DEF Sound, Adds, Bounded, After
  <2>3. [balance |-> 0, entries |-> <<>>] \in Wallet
    BY DEF Wallet
  <2> QED BY <2>1, <2>2, <2>3, ExtendsItself DEF Books
<1>3. Plans
  BY DEF Init, Plans, PlanOK
<1>4. Asked
  BY DEF Init, Asked, Idle
<1> QED BY <1>1, <1>2, <1>3, <1>4 DEF IInv

\* A transaction that begins with a proper plan keeps the invariant.
LEMMA BeginStep ==
  ASSUME IInv, NEW x \in Txs, NEW w \in Requests \union {Nobody},
         w # Nobody => request[w].status # "none",
         NEW postings \in Seq(Posting), PlanOK(postings, 0), Begin(x, w, postings)
  PROVE  IInv'
<1> USE DEF IInv, Begin
<1>1. TypeOK'
  BY DEF TypeOK
<1>2. Books'
  BY DEF Books
<1>3. Plans'
  <2>1. charged[x] = 0
    BY DEF Plans, Idle
  <2>2. \A y \in Txs : plan'[y] = IF y = x THEN postings ELSE plan[y]
    BY DEF TypeOK
  <2>3. \A y \in Txs : tx'[y].status = "idle" => tx[y].status = "idle"
    BY DEF TypeOK
  <2> QED BY <2>1, <2>2, <2>3 DEF Plans, PlanOK
<1>4. Asked'
  <2>1. \A y \in Txs : tx'[y].request \in {tx[y].request, w}
    BY DEF TypeOK
  <2> QED BY <2>1 DEF Asked
<1> QED BY <1>1, <1>2, <1>3, <1>4

LEMMA OnePosting ==
  ASSUME NEW p \in Posting, p.to # Card,
         p.reason \in {"booking", "withdrawal"} => p.delta < 0
  PROVE  <<p>> \in Seq(Posting) /\ PlanOK(<<p>>, 0)
BY DEF PlanOK

LEMMA PurchaseStep ==
  ASSUME IInv, NEW x \in Txs, NEW u \in Users, NEW total \in Amounts,
         NEW method \in Methods, NEW payouts \in Payouts,
         Purchase(x, u, total, method, payouts)
  PROVE  IInv'
<1> USE WalletsAssumption
<1> DEFINE available == IF method = "gateway" THEN 0 ELSE stored[u].balance
           fromWallet == FromWallet(total, available)
           onCard == total - fromWallet
           debit == To(u, -fromWallet, "booking")
           capture == To(Card, onCard, "booking")
           first == IF fromWallet > 0 THEN <<debit>> ELSE <<>>
           second == IF onCard > 0 THEN <<capture>> ELSE <<>>
<1>1. fromWallet \in 0 .. total
  <2>1. available \in Int
    BY DEF IInv, TypeOK, Wallet
  <2> QED BY <2>1 DEF FromWallet, Amounts
<1>2. onCard \in 0 .. total /\ total \in 1 .. MaxAmount
  BY <1>1 DEF Amounts
<1>3. fromWallet > 0 => /\ debit \in Posting /\ debit.to # Card /\ debit.delta < 0
  BY <1>1 DEF To, Posting, Reasons
<1>4. onCard > 0 => capture \in Posting /\ capture.to = Card /\ capture.delta \in Amounts
  BY <1>2 DEF To, Posting, Reasons, Amounts
<1>5. Begin(x, Nobody, first \o second \o payouts)
  BY DEF Purchase
<1> HIDE DEF fromWallet, onCard, debit, capture
<1>6. first \in Seq(Posting) /\ Len(first) <= 1
      /\ \A i \in 1 .. Len(first) : first[i].to # Card /\ first[i].delta < 0
  BY <1>3
<1>7. second \in Seq(Posting) /\ Len(second) <= 1
      /\ \A i \in 1 .. Len(second) : second[i].to = Card /\ second[i].delta \in Amounts
  BY <1>4
<1>8. payouts \in Seq(Posting) /\ Len(payouts) <= 1
      /\ \A i \in 1 .. Len(payouts) : payouts[i].to # Card /\ payouts[i].reason = "refund"
  <2>1. CASE payouts = <<>>
    BY <2>1
  <2>2. CASE payouts # <<>>
    <3>1. PICK v \in Users, amount \in Amounts : payouts = <<To(v, amount, "refund")>>
      BY <2>2 DEF Payouts
    <3>2. To(v, amount, "refund") \in Posting
      BY DEF To, Posting, Amounts, Reasons
    <3> QED BY <3>1, <3>2 DEF To
  <2> QED BY <2>1, <2>2
<1> HIDE DEF first, second
<1> DEFINE all == first \o second \o payouts
<1>9. all \in Seq(Posting) /\ Len(all) = Len(first) + Len(second) + Len(payouts)
      /\ \A i \in 1 .. Len(all) :
           all[i] = IF i <= Len(first) THEN first[i]
                    ELSE IF i <= Len(first) + Len(second) THEN second[i - Len(first)]
                    ELSE payouts[i - Len(first) - Len(second)]
  BY <1>6, <1>7, <1>8
<1> HIDE DEF all
<1>10. PlanOK(all, 0)
  <2>1. Len(first) \in Nat /\ Len(second) \in Nat /\ Len(payouts) \in Nat
    BY <1>6, <1>7, <1>8
  <2>2. \A i \in 1 .. Len(all) :
          \/ all[i].to # Card /\ all[i].delta < 0
          \/ all[i].to = Card /\ all[i].delta \in Amounts /\ i = Len(first) + 1
          \/ all[i].to # Card /\ all[i].reason = "refund"
    <3> SUFFICES ASSUME NEW i \in 1 .. Len(all)
                 PROVE  \/ all[i].to # Card /\ all[i].delta < 0
                        \/ all[i].to = Card /\ all[i].delta \in Amounts /\ i = Len(first) + 1
                        \/ all[i].to # Card /\ all[i].reason = "refund"
      OBVIOUS
    <3>1. CASE i <= Len(first)
      BY <3>1, <2>1, <1>6, <1>9
    <3>2. CASE i > Len(first) /\ i <= Len(first) + Len(second)
      <4>1. i - Len(first) \in 1 .. Len(second)
        BY <3>2, <2>1
      <4>2. all[i] = second[i - Len(first)]
        BY <3>2, <2>1, <1>9
      <4>3. all[i].to = Card /\ all[i].delta \in Amounts
        BY <4>1, <4>2, <1>7
      <4>4. Len(second) <= 1 /\ i \in Int
        BY <1>7
      <4>5. i = Len(first) + 1
        BY <4>1, <4>4, <2>1
      <4> QED BY <4>3, <4>5
    <3>3. CASE i > Len(first) + Len(second)
      <4>1. i - Len(first) - Len(second) \in 1 .. Len(payouts)
        BY <3>3, <2>1, <1>9
      <4>2. all[i] = payouts[i - Len(first) - Len(second)]
        BY <3>3, <2>1, <1>9
      <4> QED BY <4>1, <4>2, <1>8
    <3> QED BY <3>1, <3>2, <3>3, <2>1, <1>9
  <2> QED BY <2>2 DEF PlanOK
<1> QED BY <1>5, <1>9, <1>10, BeginStep DEF all

LEMMA PostStep ==
  ASSUME IInv, NEW x \in Txs, Post(x)
  PROVE  IInv'
<1> DEFINE p == Head(plan[x])
           u == p.to
<1> USE DEF IInv
<1>1. plan[x] \in Seq(Posting) /\ plan[x] # <<>> /\ PlanOK(plan[x], charged[x])
  BY DEF TypeOK, Plans, Post, Running
<1>2. /\ p \in Posting /\ Tail(plan[x]) \in Seq(Posting)
      /\ PlanOK(Tail(plan[x]), charged[x])
  BY <1>1, TailPlan
<1>3. u \in Users
  BY <1>2 DEF Post, Posting
<1>4. p.reason \in {"booking", "withdrawal"} => p.delta < 0
  <2>1. p = plan[x][1] /\ 1 \in 1 .. Len(plan[x])
    BY <1>1
  <2> QED BY <2>1, <1>1 DEF PlanOK, Post
<1>5. /\ Moved(x, u, p) \in Wallet /\ Sound(Moved(x, u, p))
      /\ Extends(Moved(x, u, p), working[u])
  <2>1. working[u] \in Wallet /\ Sound(working[u]) /\ Allowed(u, p)
    BY <1>3 DEF TypeOK, Books, Post
  <2> QED BY <2>1, <1>2, <1>3, <1>4, MovedSound
<1>6. working' = [working EXCEPT ![u] = Moved(x, u, p)]
      /\ stored' = stored /\ plan' = [plan EXCEPT ![x] = Tail(plan[x])]
      /\ lock' = [lock EXCEPT ![u] = x]
      /\ UNCHANGED <<tx, charged, request, cancelling>>
  BY DEF Post
<1> HIDE DEF p, u
<1>7. TypeOK'
  BY <1>2, <1>3, <1>5, <1>6 DEF TypeOK
<1>8. Books'
  <2>1. Extends(Moved(x, u, p), stored[u])
    BY <1>3, <1>5, ExtendsTransitive DEF TypeOK, Books
  <2> SUFFICES ASSUME NEW v \in Users
               PROVE  Sound(stored'[v]) /\ Sound(working'[v]) /\ Extends(working'[v], stored'[v])
    BY DEF Books, Sound, Adds, Bounded, After, Extends
  <2>2. CASE v = u
    BY <2>1, <2>2, <1>3, <1>5, <1>6 DEF TypeOK, Books
  <2>3. CASE v # u
    BY <2>3, <1>6 DEF TypeOK, Books
  <2> QED BY <2>2, <2>3
<1>9. Plans'
  <2>1. \A y \in Txs : plan'[y] = IF y = x THEN Tail(plan[x]) ELSE plan[y]
    BY <1>6 DEF TypeOK
  <2>2. \A y \in Txs : PlanOK(plan'[y], charged[y])
    BY <2>1, <1>2 DEF Plans
  <2> QED BY <2>2, <1>6 DEF Plans
<1>10. Asked'
  BY <1>6 DEF Asked
<1> QED BY <1>7, <1>8, <1>9, <1>10

LEMMA CaptureStep ==
  ASSUME IInv, NEW x \in Txs, Capture(x)
  PROVE  IInv'
<1> DEFINE p == Head(plan[x])
<1> USE WalletsAssumption DEF IInv
<1>1. plan[x] \in Seq(Posting) /\ plan[x] # <<>> /\ PlanOK(plan[x], charged[x])
  BY DEF TypeOK, Plans, Capture, Running
<1>2. /\ p \in Posting /\ p.to = Card
      /\ Tail(plan[x]) \in Seq(Posting) /\ PlanOK(Tail(plan[x]), charged[x])
      /\ \A i \in 1 .. Len(Tail(plan[x])) : Tail(plan[x])[i].to # Card
  BY <1>1, TailPlan DEF Capture
<1>3. p.delta \in Amounts /\ charged[x] = 0
  <2>1. p = plan[x][1] /\ 1 \in 1 .. Len(plan[x])
    BY <1>1
  <2> QED BY <2>1, <1>1, <1>2 DEF PlanOK
<1>4. charged' = [charged EXCEPT ![x] = p.delta]
  <2>1. charged[x] + p.delta = p.delta
    BY <1>3 DEF Amounts
  <2> QED BY <2>1 DEF Capture
<1>5. plan' = [plan EXCEPT ![x] = Tail(plan[x])]
      /\ UNCHANGED <<stored, working, lock, tx, request, cancelling>>
      /\ tx[x].status = "open"
  BY DEF Capture, Running
<1> HIDE DEF p
<1>6. TypeOK'
  BY <1>2, <1>3, <1>4, <1>5 DEF TypeOK, Amounts
<1>7. Books'
  BY <1>5 DEF Books
<1>8. Plans'
  <2>1. \A y \in Txs : /\ plan'[y] = IF y = x THEN Tail(plan[x]) ELSE plan[y]
                       /\ charged'[y] = IF y = x THEN p.delta ELSE charged[y]
    BY <1>4, <1>5 DEF TypeOK
  <2>2. PlanOK(Tail(plan[x]), p.delta)
    BY <1>2 DEF PlanOK
  <2>3. \A y \in Txs : PlanOK(plan'[y], charged'[y])
    BY <2>1, <2>2 DEF Plans
  <2>4. \A y \in Txs : tx[y].status = "idle" => charged'[y] = 0
    BY <2>1, <1>5 DEF Plans
  <2> QED BY <2>3, <2>4, <1>5 DEF Plans
<1>9. Asked'
  BY <1>5 DEF Asked
<1> QED BY <1>6, <1>7, <1>8, <1>9

LEMMA CommitStep ==
  ASSUME IInv, NEW x \in Txs, Commit(x)
  PROVE  IInv'
<1> USE DEF IInv, Commit
<1>1. TypeOK'
  BY DEF TypeOK, Unlocked, RequestStatus
<1>2. Books'
  <2> SUFFICES ASSUME NEW v \in Users
               PROVE  Sound(stored'[v]) /\ Sound(working'[v]) /\ Extends(working'[v], stored'[v])
    BY DEF Books, Sound, Adds, Bounded, After, Extends
  <2>1. stored'[v] \in {working[v], stored[v]} /\ working'[v] = working[v]
    OBVIOUS
  <2>2. Extends(working[v], working[v])
    BY ExtendsItself DEF TypeOK
  <2> QED BY <2>1, <2>2 DEF Books
<1>3. Plans'
  <2>1. \A y \in Txs : tx'[y].status = "idle" => tx[y].status = "idle"
    BY DEF TypeOK
  <2> QED BY <2>1 DEF Plans
<1>4. Asked'
  <2>1. \A w \in Requests : /\ request'[w].user = request[w].user
                            /\ request'[w].amount = request[w].amount
                            /\ request'[w].status \in {request[w].status, "approved"}
    BY DEF TypeOK
  <2>2. \A w \in Requests : tx[x].request = w => request[w].status # "none"
    BY WalletsAssumption DEF Asked
  <2> QED BY <2>1, <2>2 DEF Asked, TypeOK
<1> QED BY <1>1, <1>2, <1>3, <1>4

LEMMA RollbackStep ==
  ASSUME IInv, NEW x \in Txs, Rollback(x)
  PROVE  IInv'
<1> USE DEF IInv, Rollback
<1>1. TypeOK'
  <2>1. plan' \in [Txs -> Seq(Posting)] /\ lock' \in [Users -> Txs \union {Nobody}]
    BY DEF TypeOK, Unlocked
  <2>2. working' \in [Users -> Wallet]
    BY DEF TypeOK
  <2> QED BY <2>1, <2>2 DEF TypeOK
<1>2. Books'
  <2> SUFFICES ASSUME NEW v \in Users
               PROVE  Sound(stored'[v]) /\ Sound(working'[v]) /\ Extends(working'[v], stored'[v])
    BY DEF Books, Sound, Adds, Bounded, After, Extends
  <2>1. working'[v] \in {working[v], stored[v]} /\ stored'[v] = stored[v]
    OBVIOUS
  <2>2. Extends(stored[v], stored[v])
    BY ExtendsItself DEF TypeOK
  <2> QED BY <2>1, <2>2 DEF Books
<1>3. Plans'
  <2>1. \A y \in Txs : tx'[y].status = "idle" => tx[y].status = "idle"
    BY DEF TypeOK
  <2>2. \A y \in Txs : plan'[y] = IF y = x THEN <<>> ELSE plan[y]
    BY DEF TypeOK
  <2> QED BY <2>1, <2>2 DEF Plans, PlanOK
<1>4. Asked'
  <2>1. \A y \in Txs : tx'[y].request = tx[y].request
    BY DEF TypeOK
  <2> QED BY <2>1 DEF Asked
<1> QED BY <1>1, <1>2, <1>3, <1>4

\* Steps of the requests leave wallets and transactions alone.
LEMMA RequestStep ==
  ASSUME IInv, UNCHANGED <<stored, working, lock, tx, plan, charged>>,
         request' \in [Requests -> [status : RequestStatus, user : Users \union {Nobody}, amount : Nat]],
         Asked', cancelling' \subseteq Requests
  PROVE  IInv'
<1>1. TypeOK'
  BY DEF IInv, TypeOK
<1>2. Books' /\ Plans'
  BY DEF IInv, Books, Plans
<1> QED BY <1>1, <1>2 DEF IInv

LEMMA StepIInv == IInv /\ [Next]_vars => IInv'
<1> SUFFICES ASSUME IInv, [Next]_vars PROVE IInv'
  OBVIOUS
<1> USE WalletsAssumption
<1>1. ASSUME NEW x \in Txs, NEW u \in Users, NEW amount \in Amounts, TopUp(x, u, amount)
      PROVE  IInv'
  <2> DEFINE p == To(u, amount, "topup")
  <2>1. p \in Posting /\ p.to # Card /\ p.reason \notin {"booking", "withdrawal"}
    BY DEF To, Posting, Amounts, Reasons
  <2> QED BY <1>1, <2>1, OnePosting, BeginStep DEF TopUp
<1>2. ASSUME NEW x \in Txs, NEW u \in Users, NEW amount \in Amounts, Refund(x, u, amount)
      PROVE  IInv'
  <2> DEFINE p == To(u, amount, "refund")
  <2>1. p \in Posting /\ p.to # Card /\ p.reason \notin {"booking", "withdrawal"}
    BY DEF To, Posting, Amounts, Reasons
  <2> QED BY <1>2, <2>1, OnePosting, BeginStep DEF Refund
<1>3. ASSUME NEW x \in Txs, NEW u \in Users, NEW delta \in Int, Adjust(x, u, delta)
      PROVE  IInv'
  <2> DEFINE p == To(u, delta, "adjustment")
  <2>1. p \in Posting /\ p.to # Card /\ p.reason \notin {"booking", "withdrawal"}
    BY DEF To, Posting, Reasons
  <2> QED BY <1>3, <2>1, OnePosting, BeginStep DEF Adjust
<1>4. ASSUME NEW x \in Txs, NEW w \in Requests, Approve(x, w)
      PROVE  IInv'
  <2> DEFINE p == To(request[w].user, -request[w].amount, "withdrawal")
  <2>1. request[w].user \in Users /\ request[w].amount \in Amounts
    BY <1>4 DEF IInv, Asked, Approve, Decidable
  <2>2. p \in Posting /\ p.to # Card /\ p.delta < 0
    BY <2>1 DEF To, Posting, Amounts, Reasons
  <2>3. request[w].status # "none"
    BY <1>4 DEF Approve, Decidable
  <2> QED BY <1>4, <2>2, <2>3, OnePosting, BeginStep DEF Approve
<1>5. ASSUME NEW x \in Txs, GiveUp(x) \/ Crash(x) PROVE IInv'
  BY <1>5, RollbackStep DEF GiveUp, Crash
<1>6. ASSUME NEW w \in Requests, NEW u \in Users, NEW amount \in Amounts, Ask(w, u, amount)
      PROVE  IInv'
  <2>1. amount \in Nat
    BY DEF Amounts
  <2>2. request' \in [Requests -> [status : RequestStatus, user : Users \union {Nobody}, amount : Nat]]
    BY <1>6, <2>1 DEF IInv, TypeOK, Ask, RequestStatus
  <2>3. Asked'
    BY <1>6 DEF IInv, TypeOK, Asked, Ask
  <2>4. cancelling' \subseteq Requests
    BY <1>6 DEF IInv, TypeOK, Ask
  <2> QED BY <1>6, <2>2, <2>3, <2>4, RequestStep DEF Ask
<1>7. ASSUME NEW w \in Requests, Open(w) \/ Reject(w) \/ CancelRead(w)
      PROVE  IInv'
  <2>1. CASE CancelRead(w)
    <3>1. Asked' /\ cancelling' \subseteq Requests
      BY <2>1 DEF IInv, TypeOK, Asked, CancelRead
    <3> QED BY <2>1, <3>1, RequestStep DEF CancelRead, IInv, TypeOK
  <2>2. CASE Open(w) \/ Reject(w)
    <3>1. PICK s \in {"pending", "rejected"} : request' = [request EXCEPT ![w].status = s]
      BY <2>2 DEF Open, Reject
    <3>2. request[w].status # "none" /\ cancelling' = cancelling /\ tx' = tx
      BY <2>2 DEF Open, Reject, Decidable
    <3>3. request' \in [Requests -> [status : RequestStatus, user : Users \union {Nobody}, amount : Nat]]
      BY <3>1 DEF IInv, TypeOK, RequestStatus
    <3>4. Asked' /\ cancelling' \subseteq Requests
      BY <3>1, <3>2 DEF IInv, TypeOK, Asked
    <3> QED BY <2>2, <3>3, <3>4, RequestStep DEF Open, Reject
  <2> QED BY <1>7, <2>1, <2>2
<1>8. ASSUME NEW w \in Requests, CancelWrite(w) PROVE IInv'
  <2>1. request[w].status # "none"
    BY <1>8 DEF IInv, Asked, CancelWrite
  <2>2. request' \in [Requests -> [status : RequestStatus, user : Users \union {Nobody}, amount : Nat]]
    BY <1>8 DEF IInv, TypeOK, CancelWrite, RequestStatus
  <2>3. Asked' /\ cancelling' \subseteq Requests
    BY <1>8, <2>1 DEF IInv, TypeOK, Asked, CancelWrite
  <2> QED BY <1>8, <2>2, <2>3, RequestStep DEF CancelWrite
<1>9. CASE UNCHANGED vars
  BY <1>9 DEF vars, IInv, TypeOK, Books, Plans, Asked
<1> QED BY <1>1, <1>2, <1>3, <1>4, <1>5, <1>6, <1>7, <1>8, <1>9,
           PostStep, CaptureStep, CommitStep, PurchaseStep DEF Next, Amounts

-----------------------------------------------------------------------------
\* The inductive invariant: it holds at first and every step of the code keeps it.
THEOREM SpecIInv == Spec => []IInv
BY InitIInv, StepIInv, PTL DEF Spec

\* Every row keeps its type, and the card is never asked for more than the
\* bound on a purchase.
THEOREM SpecTypeOK == Spec => []TypeOK
<1>1. IInv => TypeOK
  BY DEF IInv
<1> QED BY <1>1, SpecIInv, PTL

\* The cached balance of every wallet is the sum of its entries, whatever
\* transactions overlap (walletService.post, verify).
THEOREM SpecLedgerAdds == Spec => []LedgerAdds
<1>1. IInv => LedgerAdds
  BY DEF IInv, Books, Sound, LedgerAdds
<1> QED BY <1>1, SpecIInv, PTL

\* No purchase or withdrawal overdraws a wallet, and no credit takes it past its
\* limit, although both are planned on balances read without a lock.
THEOREM SpecMovementsBounded == Spec => []MovementsBounded
<1>1. IInv => MovementsBounded
  BY DEF IInv, Books, Sound, MovementsBounded
<1> QED BY <1>1, SpecIInv, PTL

\* A commit adds entries to the ledger it found and changes none.
LEMMA StepExtends ==
  ASSUME IInv, [Next]_vars
  PROVE  \A u \in Users : Extends(stored[u]', stored[u])
<1>1. CASE \E x \in Txs : Commit(x)
  <2>1. PICK x \in Txs : Commit(x)
    BY <1>1
  <2> TAKE u \in Users
  <2>2. stored'[u] = working[u] \/ stored'[u] = stored[u]
    BY <2>1 DEF Commit
  <2>3. Extends(stored[u], stored[u])
    BY ExtendsItself DEF IInv, TypeOK
  <2> QED BY <2>2, <2>3 DEF IInv, Books
<1>2. CASE stored' = stored
  BY <1>2, ExtendsItself DEF IInv, TypeOK
<1>3. (\E x \in Txs : Commit(x)) \/ stored' = stored
  BY DEF Next, vars, TopUp, Refund, Adjust, Purchase, Begin, Post, Capture, GiveUp, Crash,
         Rollback, Ask, Open, Approve, Reject, CancelRead, CancelWrite
<1> QED BY <1>1, <1>2, <1>3

\* Nothing is ever edited: no step changes or drops a committed entry.
THEOREM SpecAppendOnly == Spec => AppendOnly
<1>1. IInv /\ [Next]_vars => [\A u \in Users : Extends(stored[u]', stored[u])]_vars
  BY StepExtends
<1> QED BY <1>1, SpecIInv, PTL DEF Spec, AppendOnly
-----------------------------------------------------------------------------
(* A withdrawal is paid once.  That the request's row is locked and looked *)
(* at again keeps the decisions apart (Decided); what is left is that the  *)
(* debit and the decision stand or fall together: an entry that is not     *)
(* committed is that of the transaction with the wallet's lock (Kept), and *)
(* a transaction that decides has its debit either planned or made (Paid). *)

Kept ==
  \A u \in Users :
    /\ lock[u] = Nobody => working[u] = stored[u]
    /\ lock[u] # Nobody => tx[lock[u]].status = "open"
    /\ \A i \in 1 .. Len(stored[u].entries) : tx[stored[u].entries[i].tx].status = "committed"
    /\ \A i \in 1 .. Len(working[u].entries) :
         i > Len(stored[u].entries) => working[u].entries[i].tx = lock[u]

Standing(x) == tx[x].status \in {"open", "committed"}
Decides(x) == tx[x].request # Nobody

Decided ==
  /\ \A x \in Txs : Decides(x) => request[tx[x].request].status \notin {"none", "asking"}
  /\ \A x \in Txs : Decides(x) /\ tx[x].status = "committed" =>
       request[tx[x].request].status \in {"approved", "cancelled"}
  /\ \A x, y \in Txs : Decides(x) /\ tx[x].request = tx[y].request /\ Standing(x) /\ Standing(y)
       => x = y
  /\ \A w \in Requests : request[w].status = "approved" =>
       \E x \in Txs : tx[x].request = w /\ tx[x].status = "committed"
  /\ \A w \in cancelling : request[w].status \notin {"none", "asking"}

\* Entry i of u's wallet is x's debit for the request it decides.
Debit(x, u, i) ==
  /\ i \in 1 .. Len(working[u].entries)
  /\ working[u].entries[i].tx = x /\ working[u].entries[i].reason = "withdrawal"
HasDebit(x) == \E u \in Users : \E i \in 1 .. Len(working[u].entries) : Debit(x, u, i)

\* What is still planned of a transaction.
PlanFits(decides, postings) ==
  IF decides THEN /\ Len(postings) <= 1
                  /\ postings # <<>> => postings[1].reason = "withdrawal" /\ postings[1].to # Card
             ELSE \A i \in 1 .. Len(postings) : postings[i].reason # "withdrawal"

Paid ==
  \A x \in Txs :
    /\ tx[x].status # "open" => plan[x] = <<>>
    /\ PlanFits(Decides(x), plan[x])
    /\ HasDebit(x) => Decides(x) /\ Standing(x) /\ plan[x] = <<>>
    /\ Decides(x) /\ Standing(x) /\ plan[x] = <<>> => HasDebit(x)
    /\ \A u, v \in Users : \A i \in 1 .. Len(working[u].entries), j \in 1 .. Len(working[v].entries) :
         Debit(x, u, i) /\ Debit(x, v, j) => u = v /\ i = j

WInv == Kept /\ Decided /\ Paid

-----------------------------------------------------------------------------
\* The committed entries are the first of those being written; every entry names
\* its transaction.
LEMMA Ledgers ==
  ASSUME IInv
  PROVE  /\ Nobody \notin Txs /\ Nobody \notin Requests
         /\ \A u \in Users :
              /\ Len(stored[u].entries) \in Nat /\ Len(working[u].entries) \in Nat
              /\ Len(stored[u].entries) <= Len(working[u].entries)
              /\ \A i \in 1 .. Len(stored[u].entries) :
                   working[u].entries[i] = stored[u].entries[i]
              /\ \A i \in 1 .. Len(working[u].entries) :
                   /\ working[u].entries[i] \in Entry /\ working[u].entries[i].tx \in Txs
<1>1. Nobody \notin Txs /\ Nobody \notin Requests
  BY WalletsAssumption
<1> SUFFICES ASSUME NEW u \in Users
             PROVE  /\ Len(stored[u].entries) \in Nat /\ Len(working[u].entries) \in Nat
                    /\ Len(stored[u].entries) <= Len(working[u].entries)
                    /\ \A i \in 1 .. Len(stored[u].entries) :
                         working[u].entries[i] = stored[u].entries[i]
                    /\ \A i \in 1 .. Len(working[u].entries) :
                         /\ working[u].entries[i] \in Entry /\ working[u].entries[i].tx \in Txs
  BY <1>1
<1>2. stored[u].entries \in Seq(Entry) /\ working[u].entries \in Seq(Entry)
  BY DEF IInv, TypeOK, Wallet
<1>3. Extends(working[u], stored[u])
  BY DEF IInv, Books
<1>4. \A i \in 1 .. Len(working[u].entries) : working[u].entries[i] \in Entry
  BY <1>2
<1>5. Len(stored[u].entries) \in Nat /\ Len(working[u].entries) \in Nat
  BY <1>2
<1> QED BY <1>3, <1>4, <1>5 DEF Extends, Entry

LEMMA InitWInv == Init => WInv
<1> SUFFICES ASSUME Init PROVE WInv
  OBVIOUS
<1>1. \A u \in Users : Len(working[u].entries) = 0 /\ Len(stored[u].entries) = 0
  BY DEF Init
<1>2. \A x \in Txs : tx[x] = Idle /\ plan[x] = <<>> /\ ~Decides(x)
  <2>1. \A x \in Txs : tx[x] = Idle /\ plan[x] = <<>>
    BY DEF Init
  <2> QED BY <2>1 DEF Decides, Idle
<1>3. Kept
  <2>1. \A u \in Users : lock[u] = Nobody /\ working[u] = stored[u]
    BY DEF Init
  <2>2. \A u \in Users : 1 .. Len(working[u].entries) = {} /\ 1 .. Len(stored[u].entries) = {}
    <3>1. 1 .. 0 = {}
      OBVIOUS
    <3> QED BY <1>1, <3>1, Zenon
  <2> QED BY <2>1, <2>2 DEF Kept
<1>4. Decided
  BY <1>2 DEF Decided, Init, Decides
<1>5. Paid
  BY <1>1, <1>2 DEF Paid, PlanFits, HasDebit, Idle, Decides
<1> QED BY <1>3, <1>4, <1>5 DEF WInv

LEMMA BeginPaid ==
  ASSUME IInv, WInv, NEW x \in Txs, NEW w \in Requests \union {Nobody},
         w # Nobody => Decidable(w),
         NEW postings \in Seq(Posting), PlanFits(w # Nobody, postings),
         w # Nobody => postings # <<>>, Begin(x, w, postings)
  PROVE  WInv'
<1> USE Ledgers
<1>1. /\ tx[x] = Idle /\ UNCHANGED <<stored, working, lock, request, cancelling>>
      /\ tx' = [tx EXCEPT ![x] = [status |-> "open", request |-> w]]
      /\ plan' = [plan EXCEPT ![x] = postings]
  BY DEF Begin
<1>2. /\ \A y \in Txs : tx'[y] = IF y = x THEN [status |-> "open", request |-> w] ELSE tx[y]
      /\ \A y \in Txs : plan'[y] = IF y = x THEN postings ELSE plan[y]
      /\ tx[x].status = "idle" /\ tx[x].request = Nobody
  BY <1>1 DEF IInv, TypeOK, Idle
<1>3. Kept'
  <2>1. \A u \in Users : lock[u] # Nobody => lock[u] \in Txs
    BY DEF IInv, TypeOK
  <2>2. \A u \in Users : \A i \in 1 .. Len(stored[u].entries) : stored[u].entries[i].tx \in Txs
    OBVIOUS
  <2> QED BY <1>1, <1>2, <2>1, <2>2 DEF WInv, Kept
<1>4. Decided'
  <2>1. \A y \in Txs : tx[y].status \in {"idle", "open", "committed", "rolled_back"}
    BY DEF IInv, TypeOK
  <2>2. w # Nobody => /\ request[w].status = "pending"
                      /\ \A y \in Txs : tx[y].request = w => ~Standing(y)
    <3> SUFFICES ASSUME w # Nobody, NEW y \in Txs, tx[y].request = w, Standing(y) PROVE FALSE
      BY DEF Decidable
    <3>1. tx[y].status # "open"
      BY DEF Decidable, BeingDecided
    <3>2. tx[y].status = "committed"
      BY <3>1 DEF Standing
    <3> QED BY <3>2 DEF WInv, Decided, Decides, Decidable
  <2>3. \A y \in Txs : Decides(y)' => IF y = x THEN w # Nobody ELSE Decides(y)
    BY <1>2 DEF Decides
  <2>4. \A y \in Txs : Standing(y)' <=> (y = x \/ Standing(y))
    BY <1>2 DEF Standing
  <2>5. \A y \in Txs : Decides(y)' => request'[tx'[y].request].status \notin {"none", "asking"}
    BY <1>1, <1>2, <2>2, <2>3 DEF WInv, Decided
  <2>6. \A y \in Txs : Decides(y)' /\ tx'[y].status = "committed" =>
          request'[tx'[y].request].status \in {"approved", "cancelled"}
    BY <1>1, <1>2, <2>3 DEF WInv, Decided
  <2>7. \A y, z \in Txs :
          Decides(y)' /\ tx'[y].request = tx'[z].request /\ Standing(y)' /\ Standing(z)' => y = z
    <3> SUFFICES ASSUME NEW y \in Txs, NEW z \in Txs, y # z, Decides(y)', Standing(y)', Standing(z)',
                        tx'[y].request = tx'[z].request
                 PROVE  FALSE
      OBVIOUS
    <3>1. CASE y = x
      BY <3>1, <1>2, <2>2, <2>3, <2>4
    <3>2. CASE z = x
      BY <3>2, <1>2, <2>2, <2>3, <2>4 DEF Decides
    <3>3. CASE y # x /\ z # x
      BY <3>3, <1>2, <2>3, <2>4 DEF WInv, Decided
    <3> QED BY <3>1, <3>2, <3>3
  <2>8. \A v \in Requests : request'[v].status = "approved" =>
          \E y \in Txs : tx'[y].request = v /\ tx'[y].status = "committed"
    BY <1>1, <1>2 DEF WInv, Decided
  <2>9. \A v \in cancelling' : request'[v].status \notin {"none", "asking"}
    BY <1>1 DEF WInv, Decided
  <2> QED BY <2>5, <2>6, <2>7, <2>8, <2>9 DEF Decided
<1>5. Paid'
  <2>1. \A y \in Txs, u \in Users : \A i \in 1 .. Len(working[u].entries) :
          Debit(y, u, i)' <=> Debit(y, u, i)
    BY <1>1 DEF Debit
  <2>2. \A y \in Txs : HasDebit(y)' <=> HasDebit(y)
    BY <1>1 DEF HasDebit, Debit
  <2>3. ~HasDebit(x)
    BY <1>2 DEF WInv, Paid, Decides
  <2> SUFFICES ASSUME NEW y \in Txs
      PROVE /\ tx'[y].status # "open" => plan'[y] = <<>>
            /\ PlanFits(Decides(y)', plan'[y])
            /\ HasDebit(y)' => Decides(y)' /\ Standing(y)' /\ plan'[y] = <<>>
            /\ Decides(y)' /\ Standing(y)' /\ plan'[y] = <<>> => HasDebit(y)'
            /\ \A u, v \in Users : \A i \in 1 .. Len(working'[u].entries), j \in 1 .. Len(working'[v].entries) :
                 Debit(y, u, i)' /\ Debit(y, v, j)' => u = v /\ i = j
    BY DEF Paid, PlanFits
  <2>4. \A u, v \in Users : \A i \in 1 .. Len(working'[u].entries), j \in 1 .. Len(working'[v].entries) :
          Debit(y, u, i)' /\ Debit(y, v, j)' => u = v /\ i = j
    BY <1>1, <2>1 DEF WInv, Paid
  <2>5. CASE y = x
    <3>1. Decides(y)' <=> w # Nobody
      BY <1>2, <2>5 DEF Decides
    <3> QED BY <1>2, <2>2, <2>3, <2>4, <2>5, <3>1 DEF PlanFits
  <2>6. CASE y # x
    BY <1>2, <2>2, <2>4, <2>6 DEF WInv, Paid, Decides, Standing, PlanFits
  <2> QED BY <2>5, <2>6
<1> QED BY <1>3, <1>4, <1>5 DEF WInv
\* Where debits, plans and transactions are as they were, so is who has paid.
LEMMA CapturePaid ==
  ASSUME IInv, WInv, NEW x \in Txs, Capture(x) PROVE WInv'
<1>1. /\ plan[x] \in Seq(Posting) /\ plan[x] # <<>> /\ Head(plan[x]).to = Card
      /\ tx[x].status = "open"
      /\ plan' = [plan EXCEPT ![x] = Tail(plan[x])]
      /\ UNCHANGED <<stored, working, lock, tx, request, cancelling>>
  BY DEF IInv, TypeOK, Capture, Running
<1>2. /\ Head(plan[x]) = plan[x][1] /\ Len(Tail(plan[x])) = Len(plan[x]) - 1
      /\ \A i \in 1 .. Len(plan[x]) - 1 : Tail(plan[x])[i] = plan[x][i + 1]
      /\ Len(plan[x]) \in Nat \ {0}
  BY <1>1
<1>3. ~Decides(x)
  BY <1>1, <1>2 DEF WInv, Paid, PlanFits
<1>4. \A y \in Txs : plan'[y] = IF y = x THEN Tail(plan[x]) ELSE plan[y]
  BY <1>1 DEF IInv, TypeOK
<1>5. \A y \in Txs : /\ HasDebit(y)' <=> HasDebit(y)
                     /\ Decides(y)' <=> Decides(y)
                     /\ Standing(y)' <=> Standing(y)
  BY <1>1 DEF HasDebit, Debit, Decides, Standing
<1>6. Kept' /\ Decided'
  BY <1>1, <1>5 DEF WInv, Kept, Decided, Decides, Standing
<1>7. PlanFits(FALSE, Tail(plan[x]))
  BY <1>1, <1>2, <1>3 DEF WInv, Paid, PlanFits
<1>8. Paid'
  <2> SUFFICES ASSUME NEW y \in Txs
      PROVE /\ tx'[y].status # "open" => plan'[y] = <<>>
            /\ PlanFits(Decides(y)', plan'[y])
            /\ HasDebit(y)' => Decides(y)' /\ Standing(y)' /\ plan'[y] = <<>>
            /\ Decides(y)' /\ Standing(y)' /\ plan'[y] = <<>> => HasDebit(y)'
            /\ \A u, v \in Users : \A i \in 1 .. Len(working'[u].entries), j \in 1 .. Len(working'[v].entries) :
                 Debit(y, u, i)' /\ Debit(y, v, j)' => u = v /\ i = j
    BY DEF Paid, PlanFits
  <2>1. \A u, v \in Users : \A i \in 1 .. Len(working'[u].entries), j \in 1 .. Len(working'[v].entries) :
          Debit(y, u, i)' /\ Debit(y, v, j)' => u = v /\ i = j
    BY <1>1 DEF WInv, Paid, Debit
  <2>2. CASE y = x
    BY <2>1, <2>2, <1>1, <1>3, <1>4, <1>5, <1>7 DEF WInv, Paid, PlanFits
  <2>3. CASE y # x
    BY <2>1, <2>3, <1>1, <1>4, <1>5 DEF WInv, Paid, PlanFits
  <2> QED BY <2>2, <2>3
<1> QED BY <1>6, <1>8 DEF WInv

LEMMA LastPosting ==
  ASSUME NEW postings \in Seq(Posting), postings # <<>>, Len(postings) <= 1
  PROVE  Tail(postings) = <<>> /\ Len(Tail(postings)) <= 1
<1>0. \A n \in Nat \ {0} : n <= 1 => n = 1
  OBVIOUS
<1>1. Len(postings) = 1
  <2>1. Len(postings) \in Nat \ {0}
    OBVIOUS
  <2> QED BY <1>0, <2>1, Zenon
<1>2. Tail(postings) \in Seq(Posting) /\ Len(Tail(postings)) = 0
  BY <1>1
<1> QED BY <1>2

\* A posting adds one entry to one wallet, by the transaction that now has its lock; it is
\* a debit for a request when the transaction decides one.
LEMMA PostPaid ==
  ASSUME IInv, WInv, NEW x \in Txs, Post(x) PROVE WInv'
<1> DEFINE p == Head(plan[x])
           u == p.to
           n == Len(working[u].entries) + 1
<1>1. /\ plan[x] \in Seq(Posting) /\ plan[x] # <<>> /\ tx[x].status = "open"
      /\ plan' = [plan EXCEPT ![x] = Tail(plan[x])] /\ u # Card /\ lock[u] \in {Nobody, x}
      /\ working' = [working EXCEPT ![u] = Moved(x, u, p)] /\ lock' = [lock EXCEPT ![u] = x]
      /\ UNCHANGED <<stored, tx, charged, request, cancelling>>
  BY DEF IInv, TypeOK, Post, Running
<1>2. /\ p = plan[x][1] /\ Len(Tail(plan[x])) = Len(plan[x]) - 1 /\ p \in Posting
      /\ \A i \in 1 .. Len(plan[x]) - 1 : Tail(plan[x])[i] = plan[x][i + 1]
      /\ Len(plan[x]) \in Nat \ {0}
  BY <1>1
<1>3. u \in Users /\ p.reason \in Reasons
  BY <1>1, <1>2 DEF Posting
<1>4. \A y \in Txs : plan'[y] = IF y = x THEN Tail(plan[x]) ELSE plan[y]
  BY <1>1 DEF IInv, TypeOK
<1>5. /\ Len(working'[u].entries) = n /\ n \in Nat \ {0}
      /\ working'[u].entries[n].tx = x /\ working'[u].entries[n].reason = p.reason
      /\ \A i \in 1 .. n - 1 : working'[u].entries[i] = working[u].entries[i]
      /\ \A v \in Users : v # u => working'[v] = working[v]
  <2> DEFINE e == [tx |-> x, delta |-> p.delta, after |-> working[u].balance + p.delta,
                   reason |-> p.reason]
  <2>1. working'[u].entries = Append(working[u].entries, e)
    BY <1>1, <1>3 DEF IInv, TypeOK, Moved
  <2>2. working[u].entries \in Seq(Entry)
    BY <1>3 DEF IInv, TypeOK, Wallet
  <2>3. e.tx = x /\ e.reason = p.reason
    OBVIOUS
  <2>5. e \in Entry
    BY <1>2, <1>3 DEF IInv, TypeOK, Wallet, Posting, Entry
  <2> DEFINE old == working[u].entries
             new == working'[u].entries
  <2>6. old \in Seq(Entry) /\ new = Append(old, e) /\ n = Len(old) + 1
    BY <2>1, <2>2
  <2> HIDE DEF e, old, new, n
  <2>7. Len(new) = n /\ n \in Nat \ {0} /\ new[n] = e /\ \A i \in 1 .. n - 1 : new[i] = old[i]
    BY <2>5, <2>6
  <2>4. /\ Len(working'[u].entries) = n /\ n \in Nat \ {0} /\ working'[u].entries[n] = e
        /\ \A i \in 1 .. n - 1 : working'[u].entries[i] = working[u].entries[i]
    BY <2>7 DEF old, new
  <2> QED BY <2>3, <2>4, <1>1 DEF IInv, TypeOK
<1> HIDE DEF p, u, n
<1>6. n = Len(working[u].entries) + 1
  BY DEF n
<1>7. Kept'
  <2> SUFFICES ASSUME NEW v \in Users
      PROVE /\ lock'[v] = Nobody => working'[v] = stored'[v]
            /\ lock'[v] # Nobody => tx'[lock'[v]].status = "open"
            /\ \A i \in 1 .. Len(stored'[v].entries) : tx'[stored'[v].entries[i].tx].status = "committed"
            /\ \A i \in 1 .. Len(working'[v].entries) :
                 i > Len(stored'[v].entries) => working'[v].entries[i].tx = lock'[v]
    BY DEF Kept
  <2>1. CASE v = u
    <3>1. lock'[v] = x /\ x # Nobody
      BY <2>1, <1>1, <1>3, Ledgers DEF IInv, TypeOK
    <3>2. ASSUME NEW i \in 1 .. n - 1, i > Len(stored[u].entries) PROVE working[u].entries[i].tx = x
      <4>1. working[u].entries[i].tx = lock[u]
        BY <3>2, <1>3, <1>6 DEF WInv, Kept
      <4>2. lock[u] # Nobody
        BY <3>2, <1>3, <1>6, Ledgers DEF WInv, Kept
      <4> QED BY <4>1, <4>2, <1>1
    <3>3. \A i \in 1 .. n : i > Len(stored[u].entries) => working'[u].entries[i].tx = x
      BY <3>2, <1>5
    <3> QED BY <2>1, <3>1, <3>3, <1>1, <1>3, <1>5 DEF WInv, Kept
  <2>2. CASE v # u
    <3>1. lock'[v] = lock[v] /\ working'[v] = working[v]
      BY <2>2, <1>1, <1>5 DEF IInv, TypeOK
    <3> QED BY <3>1, <1>1 DEF WInv, Kept
  <2> QED BY <2>1, <2>2
<1>8. Decided'
  BY <1>1 DEF WInv, Decided, Decides, Standing
<1>9. \A y \in Txs, v \in Users : \A i \in 1 .. Len(working'[v].entries) :
        Debit(y, v, i)' <=> \/ v = u /\ i = n /\ y = x /\ p.reason = "withdrawal"
                            \/ ~(v = u /\ i = n) /\ i \in 1 .. Len(working[v].entries) /\ Debit(y, v, i)
  <2> SUFFICES ASSUME NEW y \in Txs, NEW v \in Users, NEW i \in 1 .. Len(working'[v].entries)
      PROVE Debit(y, v, i)' <=>
               \/ v = u /\ i = n /\ y = x /\ p.reason = "withdrawal"
               \/ ~(v = u /\ i = n) /\ i \in 1 .. Len(working[v].entries) /\ Debit(y, v, i)
    OBVIOUS
  <2>1. CASE v = u /\ i = n
    BY <2>1, <1>5, <1>3 DEF Debit
  <2>2. CASE v = u /\ i # n
    <3>1. i \in 1 .. n - 1 /\ n - 1 = Len(working[v].entries)
      BY <2>2, <1>5, <1>6, <1>3, Ledgers
    <3>2. working'[v].entries[i] = working[v].entries[i] /\ i \in 1 .. Len(working'[v].entries)
      BY <2>2, <3>1, <1>5
    <3> QED BY <2>2, <3>1, <3>2 DEF Debit
  <2>3. CASE v # u
    BY <2>3, <1>5 DEF Debit
  <2> QED BY <2>1, <2>2, <2>3
<1>10. \A y \in Txs : HasDebit(y)' <=> HasDebit(y) \/ (y = x /\ p.reason = "withdrawal")
  <2> TAKE y \in Txs
  <2>1. ASSUME HasDebit(y)' PROVE HasDebit(y) \/ (y = x /\ p.reason = "withdrawal")
    BY <2>1, <1>9 DEF HasDebit
  <2>2. ASSUME y = x, p.reason = "withdrawal" PROVE HasDebit(y)'
    <3>1. n \in 1 .. Len(working'[u].entries)
      BY <1>5
    <3> QED BY <2>2, <3>1, <1>3, <1>9 DEF HasDebit
  <2>3. ASSUME HasDebit(y) PROVE HasDebit(y)'
    <3>1. PICK v \in Users : \E i \in 1 .. Len(working[v].entries) : Debit(y, v, i)
      BY <2>3 DEF HasDebit
    <3>2. PICK i \in 1 .. Len(working[v].entries) : Debit(y, v, i)
      BY <3>1
    <3>3. ~(v = u /\ i = n) /\ i \in 1 .. Len(working'[v].entries)
      BY <1>3, <1>5, <1>6
    <3> QED BY <3>2, <3>3, <1>9 DEF HasDebit
  <2> QED BY <2>1, <2>2, <2>3
<1>11. PlanFits(Decides(x), plan[x]) /\ ~HasDebit(x)
  BY <1>1 DEF WInv, Paid
<1>12. p.reason = "withdrawal" <=> Decides(x)
  BY <1>2, <1>11 DEF PlanFits
<1>13. /\ PlanFits(Decides(x), Tail(plan[x]))
       /\ Decides(x) => Tail(plan[x]) = <<>>
  <2>1. CASE Decides(x)
    <3>1. Len(plan[x]) <= 1
      BY <2>1, <1>11 DEF PlanFits
    <3>2. Tail(plan[x]) = <<>> /\ Len(Tail(plan[x])) <= 1
      BY <3>1, <1>1, LastPosting
    <3> QED BY <3>2, <2>1 DEF PlanFits
  <2>2. CASE ~Decides(x)
    BY <2>2, <1>2, <1>11 DEF PlanFits
  <2> QED BY <2>1, <2>2
<1>14. \A y \in Txs : (Decides(y)' <=> Decides(y)) /\ (Standing(y)' <=> Standing(y))
  BY <1>1 DEF Decides, Standing
<1>15. Paid'
  <2> SUFFICES ASSUME NEW y \in Txs
      PROVE /\ tx'[y].status # "open" => plan'[y] = <<>>
            /\ PlanFits(Decides(y)', plan'[y])
            /\ HasDebit(y)' => Decides(y)' /\ Standing(y)' /\ plan'[y] = <<>>
            /\ Decides(y)' /\ Standing(y)' /\ plan'[y] = <<>> => HasDebit(y)'
            /\ \A v, w \in Users : \A i \in 1 .. Len(working'[v].entries), j \in 1 .. Len(working'[w].entries) :
                 Debit(y, v, i)' /\ Debit(y, w, j)' => v = w /\ i = j
    BY DEF Paid, PlanFits
  <2>1. CASE y = x
    <3>1. Standing(x) /\ tx'[x].status = "open"
      BY <1>1 DEF Standing
    <3>2. \A v, w \in Users : \A i \in 1 .. Len(working'[v].entries), j \in 1 .. Len(working'[w].entries) :
            Debit(y, v, i)' /\ Debit(y, w, j)' => v = w /\ i = j
      <4>1. \A v \in Users : \A i \in 1 .. Len(working[v].entries) : ~Debit(x, v, i)
        BY <1>11 DEF HasDebit
      <4> QED BY <2>1, <4>1, <1>9
    <3>3. /\ plan'[x] = Tail(plan[x]) /\ Standing(x)'
          /\ HasDebit(x)' <=> Decides(x)
          /\ Decides(x)' <=> Decides(x)
      BY <3>1, <1>4, <1>10, <1>11, <1>12, <1>14
    <3>4. PlanFits(Decides(x)', plan'[x]) /\ (Decides(x) => plan'[x] = <<>>)
      BY <3>3, <1>13 DEF PlanFits
    <3> QED BY <2>1, <3>1, <3>2, <3>3, <3>4
  <2>2. CASE y # x
    <3>1. \A v, w \in Users : \A i \in 1 .. Len(working'[v].entries), j \in 1 .. Len(working'[w].entries) :
            Debit(y, v, i)' /\ Debit(y, w, j)' => v = w /\ i = j
      BY <2>2, <1>9 DEF WInv, Paid
    <3>2. tx' = tx /\ plan'[y] = plan[y]
      BY <2>2, <1>1, <1>4
    <3>3. HasDebit(y)' = HasDebit(y) /\ Decides(y)' = Decides(y) /\ Standing(y)' = Standing(y)
      BY <2>2, <1>10, <1>14 DEF HasDebit, Decides, Standing
    <3> QED BY <3>1, <3>2, <3>3 DEF WInv, Paid
  <2> QED BY <2>1, <2>2
<1> QED BY <1>7, <1>8, <1>15 DEF WInv

\* A commit makes what was posted everyone's; a decision that stood open stands committed.
LEMMA CommitPaid ==
  ASSUME IInv, WInv, NEW x \in Txs, Commit(x) PROVE WInv'
<1> USE Ledgers
<1>1. /\ tx[x].status = "open" /\ plan[x] = <<>>
      /\ UNCHANGED <<working, plan, charged, cancelling>>
      /\ \A y \in Txs : /\ tx'[y].request = tx[y].request
                        /\ tx'[y].status = IF y = x THEN "committed" ELSE tx[y].status
      /\ \A u \in Users : /\ stored'[u] = IF lock[u] = x THEN working[u] ELSE stored[u]
                          /\ lock'[u] = IF lock[u] = x THEN Nobody ELSE lock[u]
      /\ \A w \in Requests : request'[w].status = IF tx[x].request = w THEN "approved"
                                                  ELSE request[w].status
  BY DEF IInv, TypeOK, Commit, Unlocked, Mine
<1>2. \A y \in Txs : /\ HasDebit(y)' <=> HasDebit(y)
                     /\ Decides(y)' <=> Decides(y)
                     /\ Standing(y)' <=> Standing(y)
  BY <1>1 DEF HasDebit, Debit, Decides, Standing
<1>3. Kept'
  <2> SUFFICES ASSUME NEW u \in Users
      PROVE /\ lock'[u] = Nobody => working'[u] = stored'[u]
            /\ lock'[u] # Nobody => tx'[lock'[u]].status = "open"
            /\ \A i \in 1 .. Len(stored'[u].entries) : tx'[stored'[u].entries[i].tx].status = "committed"
            /\ \A i \in 1 .. Len(working'[u].entries) :
                 i > Len(stored'[u].entries) => working'[u].entries[i].tx = lock'[u]
    BY DEF Kept
  <2>1. CASE lock[u] = x
    <3>1. stored'[u] = working[u] /\ lock'[u] = Nobody /\ working'[u] = working[u]
      BY <1>1, <2>1
    <3>2. \A i \in 1 .. Len(working[u].entries) : tx'[working[u].entries[i].tx].status = "committed"
      <4> TAKE i \in 1 .. Len(working[u].entries)
      <4>1. CASE i <= Len(stored[u].entries)
        <5>1. i \in 1 .. Len(stored[u].entries) /\ working[u].entries[i] = stored[u].entries[i]
          BY <4>1
        <5> QED BY <5>1, <1>1 DEF WInv, Kept
      <4>2. CASE i > Len(stored[u].entries)
        BY <4>2, <2>1, <1>1 DEF WInv, Kept
      <4> QED BY <4>1, <4>2
    <3>3. \A i \in 1 .. Len(working[u].entries) : ~(i > Len(working[u].entries))
      OBVIOUS
    <3> QED BY <3>1, <3>2, <3>3
  <2>2. CASE lock[u] # x
    <3>1. stored'[u] = stored[u] /\ lock'[u] = lock[u] /\ working'[u] = working[u]
      BY <1>1, <2>2
    <3>2. lock[u] # Nobody => lock[u] \in Txs
      BY DEF IInv, TypeOK
    <3>3. \A i \in 1 .. Len(stored[u].entries) : tx'[stored[u].entries[i].tx].status = "committed"
      <4> TAKE i \in 1 .. Len(stored[u].entries)
      <4>1. stored[u].entries[i].tx \in Txs
        OBVIOUS
      <4>2. tx[stored[u].entries[i].tx].status = "committed"
        BY DEF WInv, Kept
      <4> QED BY <4>1, <4>2, <1>1
    <3>4. lock[u] # Nobody => tx'[lock[u]].status = "open"
      BY <3>2, <2>2, <1>1 DEF WInv, Kept
    <3> QED BY <3>1, <3>3, <3>4 DEF WInv, Kept
  <2> QED BY <2>1, <2>2
<1>4. Decided'
  <2>1. \A y \in Txs : Decides(y)' => request'[tx'[y].request].status \notin {"none", "asking"}
    <3> SUFFICES ASSUME NEW y \in Txs, Decides(y)
                 PROVE  request'[tx[y].request].status \notin {"none", "asking"}
      BY <1>1, <1>2
    <3>1. tx[y].request \in Requests
      BY DEF IInv, TypeOK, Decides
    <3> QED BY <3>1, <1>1 DEF WInv, Decided
  <2>2. \A y \in Txs : Decides(y)' /\ tx'[y].status = "committed" =>
          request'[tx'[y].request].status \in {"approved", "cancelled"}
    <3> SUFFICES ASSUME NEW y \in Txs, Decides(y), tx'[y].status = "committed"
                 PROVE  request'[tx[y].request].status \in {"approved", "cancelled"}
      BY <1>1, <1>2
    <3>1. tx[y].request \in Requests
      BY DEF IInv, TypeOK, Decides
    <3> QED BY <3>1, <1>1 DEF WInv, Decided
  <2>3. \A y, z \in Txs : Decides(y)' /\ tx'[y].request = tx'[z].request /\ Standing(y)' /\ Standing(z)'
          => y = z
    BY <1>1, <1>2 DEF WInv, Decided
  <2>4. \A w \in Requests : request'[w].status = "approved" =>
          \E y \in Txs : tx'[y].request = w /\ tx'[y].status = "committed"
    <3> SUFFICES ASSUME NEW w \in Requests, request'[w].status = "approved"
                 PROVE  \E y \in Txs : tx'[y].request = w /\ tx'[y].status = "committed"
      OBVIOUS
    <3>1. CASE tx[x].request = w
      BY <3>1, <1>1
    <3>2. CASE tx[x].request # w
      <4>1. PICK y \in Txs : tx[y].request = w /\ tx[y].status = "committed"
        BY <3>2, <1>1 DEF WInv, Decided
      <4> QED BY <4>1, <1>1
    <3> QED BY <3>1, <3>2
  <2>5. \A w \in cancelling' : request'[w].status \notin {"none", "asking"}
    <3> SUFFICES ASSUME NEW w \in cancelling PROVE request'[w].status \notin {"none", "asking"}
      BY <1>1
    <3>1. w \in Requests
      BY DEF IInv, TypeOK
    <3> QED BY <3>1, <1>1 DEF WInv, Decided
  <2> QED BY <2>1, <2>2, <2>3, <2>4, <2>5 DEF Decided
<1>5. Paid'
  <2>1. \A y \in Txs, u, v \in Users :
          \A i \in 1 .. Len(working'[u].entries), j \in 1 .. Len(working'[v].entries) :
            Debit(y, u, i)' /\ Debit(y, v, j)' => u = v /\ i = j
    BY <1>1 DEF WInv, Paid, Debit
  <2>2. \A y \in Txs : tx'[y].status # "open" => plan'[y] = <<>>
    BY <1>1 DEF WInv, Paid
  <2>3. \A y \in Txs : PlanFits(Decides(y)', plan'[y])
    BY <1>1, <1>2 DEF WInv, Paid, PlanFits
  <2>4. \A y \in Txs : /\ HasDebit(y)' => Decides(y)' /\ Standing(y)' /\ plan'[y] = <<>>
                       /\ Decides(y)' /\ Standing(y)' /\ plan'[y] = <<>> => HasDebit(y)'
    BY <1>1, <1>2 DEF WInv, Paid
  <2> QED BY <2>1, <2>2, <2>3, <2>4 DEF Paid, PlanFits
<1> QED BY <1>3, <1>4, <1>5 DEF WInv

\* A rollback takes back every debit of its transaction and no other's.
LEMMA RollbackPaid ==
  ASSUME IInv, WInv, NEW x \in Txs, tx[x].status = "open", Rollback(x) PROVE WInv'
<1> USE Ledgers
<1>1. /\ UNCHANGED <<stored, charged, request, cancelling>>
      /\ \A y \in Txs : /\ tx'[y].request = tx[y].request
                        /\ tx'[y].status = IF y = x THEN "rolled_back" ELSE tx[y].status
                        /\ plan'[y] = IF y = x THEN <<>> ELSE plan[y]
      /\ \A u \in Users : /\ working'[u] = IF lock[u] = x THEN stored[u] ELSE working[u]
                          /\ lock'[u] = IF lock[u] = x THEN Nobody ELSE lock[u]
  BY DEF IInv, TypeOK, Rollback, Unlocked, Mine
<1>2. \A y \in Txs : /\ Decides(y)' <=> Decides(y)
                     /\ Standing(y)' <=> Standing(y) /\ y # x
  BY <1>1 DEF Decides, Standing
<1>3. \A u \in Users : \A i \in 1 .. Len(stored[u].entries) : stored[u].entries[i].tx # x
  BY DEF WInv, Kept
<1>4. \A u \in Users : \A i \in 1 .. Len(working'[u].entries) :
        /\ i \in 1 .. Len(working[u].entries)
        /\ working'[u].entries[i] = working[u].entries[i]
        /\ working'[u].entries[i].tx # x
  <2> SUFFICES ASSUME NEW u \in Users, NEW i \in 1 .. Len(working'[u].entries)
      PROVE /\ i \in 1 .. Len(working[u].entries)
            /\ working'[u].entries[i] = working[u].entries[i]
            /\ working'[u].entries[i].tx # x
    OBVIOUS
  <2>1. CASE lock[u] = x
    BY <2>1, <1>1, <1>3
  <2>2. CASE lock[u] # x
    <3>1. working'[u] = working[u] /\ i \in 1 .. Len(working[u].entries)
      BY <2>2, <1>1
    <3>2. CASE i <= Len(stored[u].entries)
      BY <3>1, <3>2, <1>3
    <3>3. CASE i > Len(stored[u].entries)
      BY <3>1, <3>3, <2>2 DEF WInv, Kept
    <3> QED BY <3>1, <3>2, <3>3
  <2> QED BY <2>1, <2>2
<1>5. \A u \in Users : \A i \in 1 .. Len(working[u].entries) :
        working[u].entries[i].tx # x => i \in 1 .. Len(working'[u].entries)
  <2> SUFFICES ASSUME NEW u \in Users, NEW i \in 1 .. Len(working[u].entries),
                      working[u].entries[i].tx # x
               PROVE  i \in 1 .. Len(working'[u].entries)
    OBVIOUS
  <2>1. CASE lock[u] = x
    <3>1. ~(i > Len(stored[u].entries))
      BY <2>1 DEF WInv, Kept
    <3> QED BY <3>1, <2>1, <1>1
  <2>2. CASE lock[u] # x
    BY <2>2, <1>1
  <2> QED BY <2>1, <2>2
<1>6. Kept'
  <2> SUFFICES ASSUME NEW u \in Users
      PROVE /\ lock'[u] = Nobody => working'[u] = stored'[u]
            /\ lock'[u] # Nobody => tx'[lock'[u]].status = "open"
            /\ \A i \in 1 .. Len(stored'[u].entries) : tx'[stored'[u].entries[i].tx].status = "committed"
            /\ \A i \in 1 .. Len(working'[u].entries) :
                 i > Len(stored'[u].entries) => working'[u].entries[i].tx = lock'[u]
    BY DEF Kept
  <2>1. \A i \in 1 .. Len(stored[u].entries) :
          stored[u].entries[i].tx \in Txs /\ tx[stored[u].entries[i].tx].status = "committed"
    BY DEF WInv, Kept
  <2>2. CASE lock[u] = x
    <3>1. \A i \in 1 .. Len(stored[u].entries) : ~(i > Len(stored[u].entries))
      OBVIOUS
    <3> QED BY <2>1, <2>2, <3>1, <1>1, <1>3
  <2>3. CASE lock[u] # x
    <3>1. lock[u] # Nobody => lock[u] \in Txs
      BY DEF IInv, TypeOK
    <3> QED BY <2>1, <2>3, <3>1, <1>1, <1>3 DEF WInv, Kept
  <2> QED BY <2>2, <2>3
<1>7. Decided'
  <2>1. \A w \in Requests : request'[w].status = "approved" =>
          \E y \in Txs : tx'[y].request = w /\ tx'[y].status = "committed"
    <3> SUFFICES ASSUME NEW w \in Requests, request[w].status = "approved"
                 PROVE  \E y \in Txs : tx'[y].request = w /\ tx'[y].status = "committed"
      BY <1>1
    <3>1. PICK y \in Txs : tx[y].request = w /\ tx[y].status = "committed"
      BY DEF WInv, Decided
    <3> QED BY <3>1, <1>1
  <2>2. \A y \in Txs : tx'[y].status = "committed" <=> tx[y].status = "committed"
    BY <1>1
  <2>3. \A y, z \in Txs : Decides(y)' /\ tx'[y].request = tx'[z].request /\ Standing(y)' /\ Standing(z)'
          => y = z
    BY <1>1, <1>2 DEF WInv, Decided
  <2>4. /\ \A y \in Txs : Decides(y)' => request'[tx'[y].request].status \notin {"none", "asking"}
        /\ \A y \in Txs : Decides(y)' /\ tx'[y].status = "committed" =>
             request'[tx'[y].request].status \in {"approved", "cancelled"}
        /\ \A w \in cancelling' : request'[w].status \notin {"none", "asking"}
    BY <1>1, <1>2, <2>2 DEF WInv, Decided
  <2> QED BY <2>1, <2>3, <2>4 DEF Decided
<1>8. \A y \in Txs, u \in Users : \A i \in 1 .. Len(working'[u].entries) :
        Debit(y, u, i)' => Debit(y, u, i) /\ y # x
  BY <1>4 DEF Debit
<1>9. \A y \in Txs : HasDebit(y)' <=> HasDebit(y) /\ y # x
  <2> TAKE y \in Txs
  <2>1. ASSUME HasDebit(y)' PROVE HasDebit(y) /\ y # x
    <3>1. PICK u \in Users : \E i \in 1 .. Len(working'[u].entries) : Debit(y, u, i)'
      BY <2>1 DEF HasDebit
    <3>2. PICK i \in 1 .. Len(working'[u].entries) : Debit(y, u, i)'
      BY <3>1
    <3>3. Debit(y, u, i) /\ y # x /\ i \in 1 .. Len(working[u].entries)
      BY <3>2, <1>4, <1>8
    <3> QED BY <3>3 DEF HasDebit
  <2>2. ASSUME HasDebit(y), y # x PROVE HasDebit(y)'
    <3>1. PICK u \in Users : \E i \in 1 .. Len(working[u].entries) : Debit(y, u, i)
      BY <2>2 DEF HasDebit
    <3>2. PICK i \in 1 .. Len(working[u].entries) : Debit(y, u, i)
      BY <3>1
    <3>3. i \in 1 .. Len(working'[u].entries)
      BY <3>2, <2>2, <1>5 DEF Debit
    <3>4. Debit(y, u, i)'
      BY <3>2, <3>3, <1>4 DEF Debit
    <3> QED BY <3>3, <3>4 DEF HasDebit
  <2> QED BY <2>1, <2>2
<1>10. Paid'
  <2>1. \A y \in Txs, u, v \in Users :
          \A i \in 1 .. Len(working'[u].entries), j \in 1 .. Len(working'[v].entries) :
            Debit(y, u, i)' /\ Debit(y, v, j)' => u = v /\ i = j
    BY <1>4, <1>8 DEF WInv, Paid
  <2>2. \A y \in Txs : tx'[y].status # "open" => plan'[y] = <<>>
    BY <1>1 DEF WInv, Paid
  <2>3. \A y \in Txs : PlanFits(Decides(y)', plan'[y])
    BY <1>1, <1>2 DEF WInv, Paid, PlanFits
  <2>4. \A y \in Txs : /\ HasDebit(y)' => Decides(y)' /\ Standing(y)' /\ plan'[y] = <<>>
                       /\ Decides(y)' /\ Standing(y)' /\ plan'[y] = <<>> => HasDebit(y)'
    BY <1>1, <1>2, <1>9 DEF WInv, Paid
  <2> QED BY <2>1, <2>2, <2>3, <2>4 DEF Paid, PlanFits
<1> QED BY <1>6, <1>7, <1>10 DEF WInv

\* A step of the requests changes none but w, which no standing transaction decides
\* unless its request stays as decided as it was.
LEMMA RequestPaid ==
  ASSUME IInv, WInv, NEW w \in Requests,
         UNCHANGED <<stored, working, lock, tx, plan, charged>>,
         \A v \in Requests : v # w => request'[v].status = request[v].status,
         request'[w].status # "approved",
         \A v \in cancelling' : v \in Requests /\ request'[v].status \notin {"none", "asking"},
         \/ request[w].status \in {"none", "asking"}
         \/ request'[w].status = request[w].status
         \/ request'[w].status = "rejected" /\ request[w].status = "pending" /\ ~BeingDecided(w)
         \/ request'[w].status = "cancelled"
  PROVE  WInv'
<1>1. Kept'
  BY DEF WInv, Kept
<1>2. Paid'
  BY DEF WInv, Paid, PlanFits, HasDebit, Debit, Decides, Standing
<1>3. Decided'
  <2>1. \A x \in Txs : Decides(x) => tx[x].request \in Requests
    BY DEF IInv, TypeOK, Decides
  <2>2. \A x \in Txs : tx[x].status \in {"idle", "open", "committed", "rolled_back"}
    BY DEF IInv, TypeOK
  <2>3. \A x \in Txs : Decides(x)' => request'[tx'[x].request].status \notin {"none", "asking"}
    BY <2>1 DEF WInv, Decided, Decides
  <2>4. \A x \in Txs : Decides(x)' /\ tx'[x].status = "committed" =>
          request'[tx'[x].request].status \in {"approved", "cancelled"}
    BY <2>1 DEF WInv, Decided, Decides
  <2>5. \A x, y \in Txs : Decides(x)' /\ tx'[x].request = tx'[y].request /\ Standing(x)' /\ Standing(y)'
          => x = y
    BY DEF WInv, Decided, Decides, Standing
  <2>6. \A v \in Requests : request'[v].status = "approved" =>
          \E x \in Txs : tx'[x].request = v /\ tx'[x].status = "committed"
    BY DEF WInv, Decided
  <2> QED BY <2>3, <2>4, <2>5, <2>6 DEF Decided
<1> QED BY <1>1, <1>2, <1>3 DEF WInv

LEMMA OneFits ==
  ASSUME NEW p \in Posting
  PROVE  /\ <<p>> \in Seq(Posting) /\ <<p>> # <<>>
         /\ p.reason # "withdrawal" => PlanFits(FALSE, <<p>>)
         /\ p.reason = "withdrawal" /\ p.to # Card => PlanFits(TRUE, <<p>>)
<1>1. /\ <<p>> \in Seq(Posting) /\ <<p>> # <<>> /\ Len(<<p>>) = 1 /\ <<p>>[1] = p
      /\ \A i \in 1 .. Len(<<p>>) : <<p>>[i] = p
  OBVIOUS
<1> QED BY <1>1 DEF PlanFits

LEMMA ChainFits ==
  ASSUME NEW a \in Seq(Posting), NEW b \in Seq(Posting),
         PlanFits(FALSE, a), PlanFits(FALSE, b)
  PROVE  a \o b \in Seq(Posting) /\ PlanFits(FALSE, a \o b)
<1>1. /\ a \o b \in Seq(Posting) /\ Len(a \o b) = Len(a) + Len(b)
      /\ Len(a) \in Nat /\ Len(b) \in Nat
      /\ \A i \in 1 .. Len(a) + Len(b) : (a \o b)[i] = IF i <= Len(a) THEN a[i] ELSE b[i - Len(a)]
  OBVIOUS
<1>2. /\ \A i \in 1 .. Len(a) : a[i].reason # "withdrawal"
      /\ \A i \in 1 .. Len(b) : b[i].reason # "withdrawal"
  BY DEF PlanFits
<1>3. \A i \in 1 .. Len(a) + Len(b) : (a \o b)[i].reason # "withdrawal"
  <2> TAKE i \in 1 .. Len(a) + Len(b)
  <2>1. CASE i <= Len(a)
    BY <2>1, <1>1, <1>2
  <2>2. CASE i > Len(a)
    <3>1. i - Len(a) \in 1 .. Len(b)
      BY <2>2, <1>1
    <3> QED BY <2>2, <3>1, <1>1, <1>2
  <2> QED BY <2>1, <2>2, <1>1
<1> QED BY <1>1, <1>3 DEF PlanFits

LEMMA PurchasePaid ==
  ASSUME IInv, WInv, NEW x \in Txs, NEW u \in Users, NEW total \in Amounts,
         NEW method \in Methods, NEW payouts \in Payouts,
         Purchase(x, u, total, method, payouts)
  PROVE  WInv'
<1> DEFINE available == IF method = "gateway" THEN 0 ELSE stored[u].balance
           fromWallet == FromWallet(total, available)
           onCard == total - fromWallet
           debit == To(u, -fromWallet, "booking")
           capture == To(Card, onCard, "booking")
           first == IF fromWallet > 0 THEN <<debit>> ELSE <<>>
           second == IF onCard > 0 THEN <<capture>> ELSE <<>>
<1>1. fromWallet \in Int /\ onCard \in Int
  <2>1. available \in Int /\ total \in Int
    BY DEF IInv, TypeOK, Wallet, Amounts
  <2> QED BY <2>1 DEF FromWallet
<1>2. debit \in Posting /\ debit.reason = "booking" /\ capture \in Posting /\ capture.reason = "booking"
  BY <1>1 DEF To, Posting, Reasons
<1>3. Begin(x, Nobody, first \o second \o payouts)
  BY DEF Purchase
<1>4. <<>> \in Seq(Posting) /\ PlanFits(FALSE, <<>>)
  BY DEF PlanFits
<1> HIDE DEF fromWallet, onCard, debit, capture
<1>5. /\ first \in Seq(Posting) /\ PlanFits(FALSE, first)
      /\ second \in Seq(Posting) /\ PlanFits(FALSE, second)
  BY <1>2, <1>4, OneFits
<1>6. payouts \in Seq(Posting) /\ PlanFits(FALSE, payouts)
  <2>1. CASE payouts = <<>>
    BY <2>1, <1>4
  <2>2. CASE payouts # <<>>
    <3>1. PICK v \in Users, amount \in Amounts : payouts = <<To(v, amount, "refund")>>
      BY <2>2 DEF Payouts
    <3>2. To(v, amount, "refund") \in Posting /\ To(v, amount, "refund").reason # "withdrawal"
      BY DEF To, Posting, Amounts, Reasons
    <3> QED BY <3>1, <3>2, OneFits
  <2> QED BY <2>1, <2>2
<1> HIDE DEF first, second
<1>7. first \o second \o payouts \in Seq(Posting) /\ PlanFits(FALSE, first \o second \o payouts)
  BY <1>5, <1>6, ChainFits
<1> QED BY <1>3, <1>7, BeginPaid DEF PlanFits

LEMMA StepWInv == IInv /\ WInv /\ [Next]_vars => WInv'
<1> SUFFICES ASSUME IInv, WInv, [Next]_vars PROVE WInv'
  OBVIOUS
<1> USE WalletsAssumption
<1>1. ASSUME NEW x \in Txs, NEW p \in Posting, p.reason # "withdrawal", Begin(x, Nobody, <<p>>)
      PROVE  WInv'
  <2>1. <<p>> \in Seq(Posting) /\ PlanFits(FALSE, <<p>>)
    BY <1>1, OneFits
  <2> QED BY <1>1, <2>1, BeginPaid DEF PlanFits
<1>2. ASSUME NEW x \in Txs, NEW u \in Users, NEW amount \in Int,
             TopUp(x, u, amount) \/ Refund(x, u, amount) \/ Adjust(x, u, amount)
      PROVE  WInv'
  <2>1. \A reason \in {"topup", "refund", "adjustment"} :
          To(u, amount, reason) \in Posting /\ To(u, amount, reason).reason # "withdrawal"
    BY DEF To, Posting, Reasons
  <2> QED BY <1>1, <1>2, <2>1 DEF TopUp, Refund, Adjust
<1>3. ASSUME NEW x \in Txs, NEW w \in Requests, Approve(x, w)
      PROVE  WInv'
  <2> DEFINE p == To(request[w].user, -request[w].amount, "withdrawal")
  <2>1. request[w].user \in Users /\ request[w].amount \in Amounts
    BY <1>3 DEF IInv, Asked, Approve, Decidable
  <2>2. p \in Posting /\ p.to # Card /\ p.reason = "withdrawal"
    BY <2>1 DEF To, Posting, Amounts, Reasons
  <2>3. w # Nobody /\ Decidable(w) /\ Begin(x, w, <<p>>)
    BY <1>3 DEF Approve
  <2> HIDE DEF p
  <2>4. <<p>> \in Seq(Posting) /\ <<p>> # <<>> /\ PlanFits(TRUE, <<p>>)
    BY <2>2, OneFits
  <2> QED BY <2>3, <2>4, BeginPaid DEF PlanFits
<1>4. ASSUME NEW x \in Txs, GiveUp(x) \/ Crash(x) PROVE WInv'
  BY <1>4, RollbackPaid DEF GiveUp, Crash, Running
<1>5. \A w \in cancelling : w \in Requests /\ request[w].status \notin {"none", "asking"}
  BY DEF IInv, TypeOK, WInv, Decided
<1>6. ASSUME NEW w \in Requests, NEW u \in Users, NEW amount \in Amounts, Ask(w, u, amount)
      PROVE  WInv'
  <2>1. /\ request[w].status = "none" /\ request'[w].status = "asking" /\ cancelling' = cancelling
        /\ \A v \in Requests : v # w => request'[v].status = request[v].status
    BY <1>6 DEF IInv, TypeOK, Ask
  <2> QED BY <1>5, <1>6, <2>1, RequestPaid DEF Ask
<1>7. ASSUME NEW w \in Requests, Open(w) PROVE WInv'
  <2>1. /\ request[w].status = "asking" /\ request'[w].status = "pending" /\ cancelling' = cancelling
        /\ \A v \in Requests : v # w => request'[v].status = request[v].status
    BY <1>7 DEF IInv, TypeOK, Open
  <2> QED BY <1>5, <1>7, <2>1, RequestPaid DEF Open
<1>8. ASSUME NEW w \in Requests, Reject(w) PROVE WInv'
  <2>1. /\ request[w].status = "pending" /\ request'[w].status = "rejected" /\ cancelling' = cancelling
        /\ ~BeingDecided(w)
        /\ \A v \in Requests : v # w => request'[v].status = request[v].status
    BY <1>8 DEF IInv, TypeOK, Reject, Decidable
  <2> QED BY <1>5, <1>8, <2>1, RequestPaid DEF Reject
<1>9. ASSUME NEW w \in Requests, CancelRead(w) PROVE WInv'
  <2>1. /\ request[w].status = "pending" /\ request' = request
        /\ cancelling' = cancelling \union {w}
    BY <1>9 DEF CancelRead
  <2> QED BY <1>5, <1>9, <2>1, RequestPaid DEF CancelRead
<1>10. ASSUME NEW w \in Requests, CancelWrite(w) PROVE WInv'
  <2>1. /\ request'[w].status = "cancelled" /\ cancelling' \subseteq cancelling
        /\ \A v \in Requests : v # w => request'[v].status = request[v].status
    BY <1>10 DEF IInv, TypeOK, CancelWrite
  <2> QED BY <1>5, <1>10, <2>1, RequestPaid DEF CancelWrite
<1>11. CASE UNCHANGED vars
  BY <1>11 DEF vars, WInv, Kept, Decided, Paid, PlanFits, HasDebit, Debit, Decides, Standing
<1>12. Amounts \subseteq Int /\ \A amount \in Amounts : -amount \in Int
  BY DEF Amounts
<1> QED BY <1>2, <1>3, <1>4, <1>6, <1>7, <1>8, <1>9, <1>10, <1>11, <1>12,
           PurchasePaid, PostPaid, CapturePaid, CommitPaid DEF Next

\* The wallets, the transactions and the requests tell one story.
THEOREM SpecWInv == Spec => []WInv
BY SpecIInv, InitWInv, StepWInv, PTL DEF Spec

\* Money leaves at most once for a request, never for one that nobody approved, and
\* always for one that stands approved, whatever reviewers, cancels and crashes
\* overlap (approvalService.decide).
THEOREM SpecWithdrawnOnce == Spec => []WithdrawnOnce
<1>1. ASSUME IInv, WInv PROVE WithdrawnOnce
  <2> USE Ledgers, <1>1
  <2>1. ASSUME NEW w \in Requests, NEW p \in PaidOut(w)
        PROVE  \E u \in Users : \E i \in 1 .. Len(stored[u].entries) :
                 /\ p = <<u, i>>
                 /\ Debit(stored[u].entries[i].tx, u, i)
                 /\ stored[u].entries[i].tx \in Txs
                 /\ tx[stored[u].entries[i].tx].request = w
                 /\ tx[stored[u].entries[i].tx].status = "committed"
    <3>1. PICK u \in Users : p \in {u} \X (1 .. Len(stored[u].entries))
      BY DEF PaidOut
    <3>2. PICK i \in 1 .. Len(stored[u].entries) : p = <<u, i>>
      BY <3>1
    <3>3. stored[u].entries[i].reason = "withdrawal" /\ tx[stored[u].entries[i].tx].request = w
      BY <3>2 DEF PaidOut
    <3>4. /\ i \in 1 .. Len(working[u].entries) /\ working[u].entries[i] = stored[u].entries[i]
          /\ stored[u].entries[i].tx \in Txs
      OBVIOUS
    <3>5. tx[stored[u].entries[i].tx].status = "committed"
      BY DEF WInv, Kept
    <3> QED BY <3>2, <3>3, <3>4, <3>5 DEF Debit
  <2>2. ASSUME NEW w \in Requests, NEW p \in PaidOut(w), NEW q \in PaidOut(w) PROVE p = q
    <3>1. PICK u \in Users : \E i \in 1 .. Len(stored[u].entries) :
             /\ p = <<u, i>>
             /\ Debit(stored[u].entries[i].tx, u, i)
             /\ stored[u].entries[i].tx \in Txs
             /\ tx[stored[u].entries[i].tx].request = w
             /\ tx[stored[u].entries[i].tx].status = "committed"
      BY <2>1
    <3>2. PICK i \in 1 .. Len(stored[u].entries) :
             /\ p = <<u, i>>
             /\ Debit(stored[u].entries[i].tx, u, i)
             /\ stored[u].entries[i].tx \in Txs
             /\ tx[stored[u].entries[i].tx].request = w
             /\ tx[stored[u].entries[i].tx].status = "committed"
      BY <3>1
    <3>3. PICK v \in Users : \E j \in 1 .. Len(stored[v].entries) :
             /\ q = <<v, j>>
             /\ Debit(stored[v].entries[j].tx, v, j)
             /\ stored[v].entries[j].tx \in Txs
             /\ tx[stored[v].entries[j].tx].request = w
             /\ tx[stored[v].entries[j].tx].status = "committed"
      BY <2>1
    <3>4. PICK j \in 1 .. Len(stored[v].entries) :
             /\ q = <<v, j>>
             /\ Debit(stored[v].entries[j].tx, v, j)
             /\ stored[v].entries[j].tx \in Txs
             /\ tx[stored[v].entries[j].tx].request = w
             /\ tx[stored[v].entries[j].tx].status = "committed"
      BY <3>3
    <3> DEFINE x == stored[u].entries[i].tx
               y == stored[v].entries[j].tx
    <3>10. /\ x \in Txs /\ tx[x].request = w /\ tx[x].status = "committed" /\ Debit(x, u, i)
           /\ y \in Txs /\ tx[y].request = w /\ tx[y].status = "committed" /\ Debit(y, v, j)
      BY <3>2, <3>4
    <3> HIDE DEF x, y
    <3>5. x = y
      BY <3>10 DEF WInv, Decided, Decides, Standing
    <3>6. Debit(x, u, i) /\ Debit(x, v, j) /\ x \in Txs
      BY <3>10, <3>5
    <3>7. i \in 1 .. Len(working[u].entries) /\ j \in 1 .. Len(working[v].entries)
      BY <3>6 DEF Debit
    <3>8. u = v /\ i = j
      BY <3>6, <3>7 DEF WInv, Paid
    <3> QED BY <3>2, <3>4, <3>8
  <2>3. ASSUME NEW w \in Requests, PaidOut(w) # {}
        PROVE  request[w].status \in {"approved", "cancelled"}
    <3>1. PICK p \in PaidOut(w) : TRUE
      BY <2>3
    <3>2. PICK x \in Txs : tx[x].request = w /\ tx[x].status = "committed"
      BY <2>1
    <3> QED BY <3>2 DEF WInv, Decided, Decides
  <2>4. ASSUME NEW w \in Requests, request[w].status = "approved" PROVE PaidOut(w) # {}
    <3>1. PICK x \in Txs : tx[x].request = w /\ tx[x].status = "committed"
      BY <2>4 DEF WInv, Decided
    <3>2. HasDebit(x)
      BY <3>1 DEF WInv, Paid, Decides, Standing
    <3>3. PICK u \in Users : \E i \in 1 .. Len(working[u].entries) : Debit(x, u, i)
      BY <3>2 DEF HasDebit
    <3>4. PICK i \in 1 .. Len(working[u].entries) : Debit(x, u, i)
      BY <3>3
    <3>5. working[u].entries[i].tx = x /\ working[u].entries[i].reason = "withdrawal"
      BY <3>4 DEF Debit
    <3>6. i <= Len(stored[u].entries)
      <4> SUFFICES ASSUME i > Len(stored[u].entries) PROVE FALSE
        OBVIOUS
      <4>1. lock[u] = x
        BY <3>5 DEF WInv, Kept
      <4>2. tx[x].status = "open"
        BY <4>1 DEF WInv, Kept
      <4> QED BY <4>2, <3>1
    <3>7. i \in 1 .. Len(stored[u].entries) /\ stored[u].entries[i] = working[u].entries[i]
      BY <3>6
    <3>8. <<u, i>> \in {u} \X (1 .. Len(stored[u].entries))
      BY <3>7
    <3>9. <<u, i>> \in PaidOut(w)
      BY <3>1, <3>5, <3>7, <3>8 DEF PaidOut
    <3> QED BY <3>9
  <2> QED BY <2>2, <2>3, <2>4 DEF WithdrawnOnce
<1> QED BY <1>1, SpecIInv, SpecWInv, PTL
=============================================================================
