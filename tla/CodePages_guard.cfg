SPECIFICATION Spec
CONSTANTS
  LastPage = 11
  Entries = {e1, e2}
  EntryPage <- MCEntryPage
  Straddling = {e1}
  TextPages = {5, 6}
  AfterText = {"r"}
  Reach = 6
  PoolSize = 4
  Granularity = 2
  Requests <- MCRequests
  Hints = {e2}
  MaxHandles = 3
  MaxSessions = 2
  MaxFaults = 1
INVARIANT OverrunsFault
CHECK_DEADLOCK FALSE
