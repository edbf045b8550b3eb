\* Two requests overlap; of three spellings two are one address.
SPECIFICATION Spec
CONSTANTS
  Ids = {1, 2}
  Spellings <- MCSpellings
  Lower <- MCLower
  RoleNames <- MCRoleNames
  Upper <- MCUpper
  DefaultRole = "USER"
  Numbers = {n1}
  Creations <- MCCreations
  Requests = {q1, q2}
  None = None
SYMMETRY Symmetry
INVARIANTS TypeOK AddressLeadsToOneAccount GrantsWereAsked
PROPERTY UndisturbedUpdateTakesNothing
