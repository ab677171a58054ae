CONSTANTS
  n = n  h = h  l = l
  c1 = c1  c2 = c2
  Process = {n, h, l}
  Liar = {l}
  Selfish = {n}
  Text = {"n", "n:50051", "n:"}
  Address = {"n:50051"}
  Listener <- MCListener
  Complete <- MCComplete
  Port = {50001, 50002}
  Call = {c1, c2}
  BanLimit = 3
  Nil = Nil
SYMMETRY MCSymmetry
SPECIFICATION Spec
INVARIANTS BanBound OnlyLiarsPorts
