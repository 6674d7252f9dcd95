\* Three sockets, three messages; clients and messages come to an end.
CONSTANTS
  Sockets = {p, q, r}
  Nobody = Nobody
  MaxMessages = 3
SPECIFICATION FairSpec
INVARIANTS InOrder DeliveredExactly
PROPERTY QueueDrains
CHECK_DEADLOCK FALSE
