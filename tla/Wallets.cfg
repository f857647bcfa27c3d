\* Two wallets, three transactions and one withdrawal, at a limit two movements reach.
SPECIFICATION Spec
CONSTANTS
  Users = {u1, u2}
  Txs = {x1, x2, x3}
  Requests = {w1}
  Nobody = Nobody
  Card = Card
  Limit = 3
  MaxAmount = 2
  Crashes = TRUE
SYMMETRY Symmetry
INVARIANTS LedgerAdds MovementsBounded WithdrawnOnce
PROPERTY AppendOnly
CHECK_DEADLOCK FALSE
