SPECIFICATION ScanSpec
CONSTANTS
  Reach = 2  Margin = 2  MaxSize = 5
INVARIANT HooksFound
CHECK_DEADLOCK FALSE
