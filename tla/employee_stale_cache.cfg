\* One request after the other is enough to leave an entry behind.
CONSTANTS
  Employees = {e1}
  Requests = {r1}
  Columns = {name}
  Values = {v1, v2}
  NoRow = NoRow
  NoEmployee = NoEmployee
  NoValue = NoValue
SPECIFICATION FairSpec
PROPERTY
  StaleEntriesExpire
