\* A poisoned event, older than a handled one; two workers, one crash or error; the relay and the
\* dispatcher read both events at once.
CONSTANTS
  Events = {1, 2}
  Handled = {2}
  Poison = {1}
  Workers = {w1, w2}
  Limit = 2
  Batch = 2
  MaxStream = 2
  MaxFaults = 1
SPECIFICATION Spec
INVARIANTS HandledOnce
PROPERTIES SettledOnAck EventsAreHandled
\* All events published: nothing is left to do.
CHECK_DEADLOCK FALSE
