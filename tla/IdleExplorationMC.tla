------------------------- MODULE IdleExplorationMC -------------------------
(* The budgets of IdleExploration for model checking.                      *)
EXTENDS IdleExploration

SmallSession == [tasks |-> 2, calls |-> 2, replans |-> 1, actions |-> 2]
SmallDuty == [tasks |-> 2, calls |-> 2, replans |-> 1, actions |-> 2]

=============================================================================
