\* Three requests that may send one client key; streams of one frame.
SPECIFICATION Spec
CONSTANTS
  Requests = {r1, r2, r3}
  Keys = {k}
  MaxFrames = 1
INVARIANT AnsweredOnce
CHECK_DEADLOCK FALSE
