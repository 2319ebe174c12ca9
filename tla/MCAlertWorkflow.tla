-------------------------- MODULE MCAlertWorkflow --------------------------
(* Small instances of AlertWorkflow. *)
EXTENDS AlertWorkflow, TLC

\* One role set per class of caller the routes tell apart.
MCTwoRoleSets == {{"risk_operator"}, {"supervisor"}}
MCAllRoleSets == {{"analyst"}, {"risk_operator"}, {"supervisor"}, {"risk_operator", "supervisor"}}

\* Requests and alerts are interchangeable.
MCSymmetry == Permutations(Requests) \cup Permutations(Alerts)
=============================================================================
