------------------------------ MODULE MCWallets ------------------------------
(* Wallets on a few users and transactions for TLC.                        *)
EXTENDS Wallets, TLC

\* Users, transactions and requests are interchangeable.
Symmetry == Permutations(Users) \union Permutations(Txs) \union Permutations(Requests)
=============================================================================
