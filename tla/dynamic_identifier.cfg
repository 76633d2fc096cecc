SPECIFICATION Spec
CONSTANTS
  Paths <- TwoPaths
  IdOf <- OneId
  MaxAppear = 2
INVARIANTS
  OnlyInstancesAreTailed
CHECK_DEADLOCK FALSE
