SPECIFICATION FairSpec
CONSTANTS
  p1 = p1  p2 = p2  a1 = a1
  Publisher = {p1, p2}
  ApiCaller = {}
  Kinds = {"state", "request_end"}
  Capacity = 1
  Slots = 1
  MaxEvents = 2
  Nobody = Nobody
  Closer = Closer
PROPERTY BackpressureEnds
CHECK_DEADLOCK FALSE
