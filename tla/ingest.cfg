CONSTANTS
  Files = {"f1", "f2"}
  Contents = {"a", "b", "bad"}
  Transactions = {"t1", "t2", "t3"}
  Descriptions = {"rent", "flat", "home"}
  ContentOf <- Held2
  RowsOf <- Statements
  Valid = {"a", "b"}
  Workers = {"w"}
  Commands = {"cli"}
  Clients = {"api"}
  Nobody = "nobody"
  MaxRuns = 3
  MaxUploads = 1
  MaxPromotes = 1
  MaxFaults = 1
SPECIFICATION FairSpec
INVARIANTS PassedRunsArrive CurrentIsRichest MartFollowsCurrent
PROPERTIES DescriptionStands FilesArePublished
CHECK_DEADLOCK FALSE
