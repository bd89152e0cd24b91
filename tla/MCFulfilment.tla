---------------------------- MODULE MCFulfilment ----------------------------
(* Finite instances of RequestFulfilment for TLC. *)
EXTENDS RequestFulfilment, TLC

CONSTANTS u1, u2, u3, g1

MCMembers == [g \in {g1} |-> {u1, u2}]
MCMembersOne == [g \in {g1} |-> {u1}]

Direct(u) == [type |-> "direct", user |-> u, group |-> None, requireAll |-> FALSE]
Managers == [type |-> "manager", user |-> None, group |-> None, requireAll |-> FALSE]
AllOf(g) == [type |-> "group", user |-> None, group |-> g, requireAll |-> TRUE]
AnyOf(g) == [type |-> "group", user |-> None, group |-> g, requireAll |-> FALSE]

\* No approval; two approvers; one; a step that resolves to nobody.
MixedStepLists == {<<>>, <<AllOf(g1)>>, <<Managers>>, <<Direct(None)>>}

\* The two-step configuration of APPROVAL_WORKFLOW.md, scenario 2.
TwoStepLists == {<<Managers, AnyOf(g1)>>}

\* No approval, or one approver.
SingleStepLists == {<<>>, <<Direct(u1)>>}

TwoRequests == Permutations(Request) \cup Permutations(Case) \cup Permutations(Worker)
=============================================================================
