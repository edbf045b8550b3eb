------------------------- MODULE MCEmployeeRecords -------------------------
(* Instances of EmployeeRecords for TLC. *)
EXTENDS EmployeeRecords, TLC

\* Requests are interchangeable, and so are the ids, the columns and the values.
Symmetry ==
  Permutations(Requests) \cup Permutations(Employees)
    \cup Permutations(Columns) \cup Permutations(Values)

=============================================================================
