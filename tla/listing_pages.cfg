\* Four accounts on pages of two.
SPECIFICATION Spec
CONSTANTS
  MaxUsers = 4
  Names = {1, 2, 3}
  Search = {1, 2}
  Sort <- MCSort
  PageSize = 2
  MaxPages = 3
INVARIANTS IInv CreationsHideNobody EachOnceWhenUnchanged
