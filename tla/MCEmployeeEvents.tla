--------------------------- MODULE MCEmployeeEvents --------------------------
(* EmployeeEvents with several employees announced.                         *)
EXTENDS EmployeeEvents, TLC

Symmetry == Permutations(Events)
=============================================================================
