SPECIFICATION Spec
CONSTANTS
  Items = {1, 2, 3}
  Files <- MCFiles
  Hash <- MCHash
  Buckets = 2
  Context = 2
  Score <- MCScore
INVARIANTS NumbersAreLines KeepsCommonText MarksFewest ShowsTheChanges
PROPERTY Terminates
