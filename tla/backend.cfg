SPECIFICATION Spec
CONSTANTS
  Key = {"a", "b"}
  Caller = caller
  Workers = {w}
  Size = 4
  MaxWrites = 2
  Lists <- OneAndTwo
INVARIANTS TypeOK ReadsHeld ScoredFromOwn PagesIntact
CHECK_DEADLOCK FALSE
