SPECIFICATION Spec
CONSTANTS
  MaxTasks = 2
  MaxUpdates = 2
INVARIANTS
  TypeOK
  OneAtATime
  Settled
PROPERTIES
  NoOlderNews
  TasksEnd
