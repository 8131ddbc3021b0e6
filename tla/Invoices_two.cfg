\* Two machines, no request fails.
SPECIFICATION Spec
CONSTANTS
  Machine = {m1, m2}
  Listed = 1
  MaxDays = 1
  MaxTriggers = 2
  MaxLooks = 3
  MaxErrors = 0
\* Bounds on looks and triggers are reached.
CHECK_DEADLOCK FALSE
INVARIANT PollIsEnsured
