CONSTANTS
  t1 = t1  t2 = t2
  Tasks <- MCTasks
  Names <- MCNames
SPECIFICATION Spec
INVARIANTS
  TypeOK
  NothingInProgressAtRest
  CompletedIsTrue
  CountsOfResults
PROPERTIES
  ComesToRest
