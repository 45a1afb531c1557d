CONSTANTS
  Value = {v1, v2}
  Gone = Gone
  MaxPages = 3
  Layers <- SomeLayers
  Store = {"A", "B"}
  Worker = {w1, w2}
  Nobody = Nobody
SPECIFICATION MCSpec
INVARIANTS
  TypeOK
  EntriesAgree
  ThreadsReadTheirStore
PROPERTIES
  ImplementsIStorageManager
CHECK_DEADLOCK FALSE
