SPECIFICATION Spec
CONSTANTS
  Volumes = 2
  MaxPart = 2
  Slack = 1
  Gross = 3
INVARIANT CiphertextIsNotServed
CHECK_DEADLOCK FALSE
