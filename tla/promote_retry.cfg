CONSTANTS
  Files = {"f1"}
  Contents = {"a", "b"}
  Transactions = {"t1", "t2", "t3"}
  Descriptions = {"rent", "flat", "home"}
  ContentOf <- Held1
  RowsOf <- Statements
  Valid = {"a", "b"}
  Workers = {"w"}
  Commands = {"cli"}
  Clients = {"api"}
  Nobody = "nobody"
  MaxRuns = 2
  MaxUploads = 0
  MaxPromotes = 1
  MaxFaults = 1
SPECIFICATION Spec
INVARIANTS PromotedRunsAreCurrent
CHECK_DEADLOCK FALSE
