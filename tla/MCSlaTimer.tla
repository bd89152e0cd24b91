------------------------------ MODULE MCSlaTimer ------------------------------
(* Finite instances of SlaTimer for TLC. *)
EXTENDS SlaTimer, TLC

CONSTANT t1

MCGoalOne == t1 :> 2

Pause == StatusChanged("New", "Pending")
Resume == StatusChanged("Pending", "InProgress")
Stop == StatusChanged("InProgress", "Resolved")

MCCreated == CaseCreatedSync("bl", "Medium")
MCChanges == {Pause, Resume, Stop}

\* A field compared with a value in the rules of an SLA target.
When(field, value) ==
    {[event |-> "case.status.changed",
      conditions |-> {[field |-> <<field>>, operator |-> "equals",
                       array |-> FALSE, values |-> {value}]}]}
AtCreation == {[event |-> "case.created", conditions |-> {}]}

\* The example rules of create-target.dto.ts, with its field "status".
StatusRules ==
    [start |-> AtCreation, stop |-> When("status", "Resolved"),
     pause |-> When("status", "Pending"), resume |-> When("status", "InProgress")]

MCRules == [target \in Target |-> StatusRules]

Interchangeable == Permutations(Worker) \cup Permutations(Ticker)
=============================================================================
