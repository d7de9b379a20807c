--------------------------- MODULE MCAutomationRuns ---------------------------
(* Machines and run identifiers are interchangeable. *)
EXTENDS AutomationRuns, TLC

Symmetry == Permutations(Machine) \cup Permutations(Run)
===============================================================================
