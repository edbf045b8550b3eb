---------------------------- MODULE MCPayrollSync ----------------------------
(* PayrollSync with two employees and two salaries.                         *)
EXTENDS PayrollSync, TLC

Symmetry == Permutations(Employees) \cup Permutations(Salaries) \cup Permutations(Requests)
=============================================================================
