SPECIFICATION Spec
CONSTANTS
  w1 = w1
  w2 = w2
  w3 = w3
  once = once
  twice = twice
  thrice = thrice
  Jobs = {once, twice, thrice}
  Workers = {w1, w2, w3}
  NameOf <- MCNameOf
  MaxAttempts <- MCMaxAttempts
INVARIANTS
  OneRunner
  LeaseIsKept
  AttemptsBounded
PROPERTY FinishedForGood
