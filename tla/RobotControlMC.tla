-------------------------- MODULE RobotControlMC --------------------------
(* RobotControl on two robots that share a gate. *)
EXTENDS RobotControl, TLC, FiniteSetsExt

\* Robots, HTTP threads and requests are interchangeable, and the run checks
\* invariants only.
Symmetry ==
    Permutations(Service) \cup Permutations(Client) \cup Permutations(Request)

\* Bound: three starts over the two robots, so that one of them starts twice.
MaxStarts == 3
FewStarts ==
    MapThenSumSet(LAMBDA s : Len(attempts[s]), Service) <= MaxStarts

=============================================================================
