SPECIFICATION Spec
CONSTANTS
  Field = {"", "time", "info"}
  Regex = {"", "r"}
  MaxRules = 4
INVARIANTS
  UnnamedRulesAreIgnored
CHECK_DEADLOCK FALSE
