SPECIFICATION Spec
CONSTANTS
  p1 = p1  p2 = p2  a1 = a1
  Publisher = {p1}
  ApiCaller = {a1}
  Kinds = {"state", "request_end"}
  Capacity = 2
  Slots = 1
  MaxEvents = 2
  Nobody = Nobody
  Closer = Closer
INVARIANTS TypeOK LedgerIsFaithful FlushCoversEarlierEvents TrackedSendersAreGone ShutdownLosesNothing
CHECK_DEADLOCK FALSE
