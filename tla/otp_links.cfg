\* Two requests race for two numbers; one code and one handler are enough.
SPECIFICATION Spec
CONSTANTS
  Users = {u1, u2}
  Numbers = {n1, n2}
  Codes = {c1}
  Handlers = {h1}
  Requests = {q1, q2}
  None = None
  Absent = Absent
SYMMETRY Symmetry
INVARIANTS TypeOK LinkedByStoredCode VerifiedIsLinked  UnsentIsOnItsWay
