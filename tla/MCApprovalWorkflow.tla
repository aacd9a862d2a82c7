------------------------- MODULE MCApprovalWorkflow -------------------------
(* ApprovalWorkflow on small instances.                                     *)
EXTENDS ApprovalWorkflow, TLC

CONSTANTS clerk, clerk2, admin, small, large

\* The second clerk's limit covers small invoices only.
MCRole  == [u \in Users |-> IF u = admin THEN "TENANT_ADMIN" ELSE "AP_CLERK"]
MCLimit == [u \in Users |-> IF u = clerk2 THEN {small} ELSE Fields]

\* Every invoice belongs to the first organisation.
MCOrgOf == [i \in Invoices |-> CHOOSE o \in Orgs : TRUE]

StepOf(approver, users, rule, when) ==
  [signoff |-> FALSE, approver |-> approver, users |-> users,
   role |-> "TENANT_ADMIN", rule |-> rule, when |-> when]

Config(enabled, steps) == [enabled |-> enabled, steps |-> steps]
Off == Config(FALSE, SimpleSteps(FALSE, FALSE))

\* A team member, then the administrator.
TwoSteps == Config(TRUE, SimpleSteps(TRUE, FALSE))

\* A step for large invoices only, then the clerk and the administrator both,
\* then, for large ones, a compliance sign-off.
ThreeSteps == Config(TRUE,
  [o \in 1..3 |->
     CASE o = 1 -> StepOf("any_member", {}, "any", {large})
       [] o = 2 -> StepOf("specific_users", {clerk, admin}, "all", Fields)
       [] o = 3 -> [StepOf("capability", {}, "any", {large})
                      EXCEPT !.signoff = TRUE]])

\* What an organisation may choose from in a run.
SimpleConfigs   == {Off, TwoSteps}
AdvancedConfigs == {Off, ThreeSteps}
AllConfigs      == {Off, TwoSteps, ThreeSteps}
WorkflowsOn     == {TwoSteps, ThreeSteps}

DeciderSymmetry == Permutations(Deciders)
ServedAlike == DeciderSymmetry \cup Permutations(Submitters)
=============================================================================
