SPECIFICATION PSSpec
CONSTANTS
  Employees = {e1, e2}
  Salaries = {s1, s2}
  Requests = {q1, q2, q3}
SYMMETRY Symmetry
INVARIANTS PSTypeOK StoresWhatWasSelected FailureStoresNothing
