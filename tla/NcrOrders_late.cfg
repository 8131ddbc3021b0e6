\* The smallest case: one order, whose store answers late.
SPECIFICATION Spec
CONSTANTS
  Order = {o1}
  Mapped = {o1}
  MaxRequests = 3
  MaxFaults = 0
INVARIANT LateIsReported
CHECK_DEADLOCK FALSE
