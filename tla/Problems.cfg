SPECIFICATION Spec
CONSTANTS
  User = {u1}
  Ids = {9, 10}
  Char = {"<", ">", "&", "a", "(C)"}
  Reference = {"&lt;", "&gt;", "&copy"}
  Means <- MCMeans
  Headers <- MCHeaders
  Tails = {t1, t2}
  Nothing = Nothing
  Garbage = Garbage
  MaxChanges = 2
INVARIANTS TypeOK ListInOrder EditorHoldsHeader JudgedByOwnTests
