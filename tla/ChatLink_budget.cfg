SPECIFICATION Spec
CONSTANTS
  Header = 2
  Message = 4
  MaxUnread = 2
  MaxRetries = 5
INVARIANT BudgetRunsOut
