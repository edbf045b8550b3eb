\* Any number of requests on one employee, two at a time; isActive and a column to mix.
CONSTANTS
  Employees = {e1}
  Requests = {r1, r2}
  Columns = {name}
  Values = {v1, v2}
  NoRow = NoRow
  NoEmployee = NoEmployee
  NoValue = NoValue
SPECIFICATION Spec
SYMMETRY Symmetry
INVARIANTS
  CacheHoldsCommittedRows
  CommittedWasAnnounced
  IInv
PROPERTY
  TerminationSticks
