------------------------ MODULE MCConnectionSupervisor ------------------------
(* Transports and tasks are interchangeable. *)
EXTENDS ConnectionSupervisor, TLC

Symmetry == Permutations(Transport) \cup Permutations(Task)
===============================================================================
