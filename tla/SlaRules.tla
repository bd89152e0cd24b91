------------------------------- MODULE SlaRules -------------------------------
(***************************************************************************)
(* SlaRulesEngineService: which triggers of an SLA target match an event.  *)
(* The data of an event is a tree; it is given as a function from the      *)
(* paths of its leaves (sequences of keys) to their values.                *)
(***************************************************************************)
EXTENDS Sequences, Integers

CONSTANT Includes   \* String.includes, lower case: a set of pairs <<text, part>>

\* What a field that is not there, and a field that is an object, evaluates to.
Undefined == "undefined"
Object == "[object Object]"

Prefixes(path) == {SubSeq(path, 1, n) : n \in 1 .. Len(path)}
Own(data) == UNION {Prefixes(path) : path \in DOMAIN data}
ValueAt(data, path) == IF path \in DOMAIN data THEN data[path] ELSE Object

\* The events CaseService emits and the SLA controller hands on; the case's id,
\* the actor and the time of the change are left out.
StatusChanged(from, to) ==
    [name |-> "case.status.changed",
     data |-> [path \in {<<"before", "status">>, <<"after", "status">>} |->
                   IF path[1] = "before" THEN from ELSE to]]
CaseCreatedSync(businessLine, priority) ==
    [name |-> "case.created.sync",
     data |-> [path \in {<<"businessLineId">>, <<"priority">>} |->
                   IF path[1] = "priority" THEN priority ELSE businessLine]]

(* findKeyRecursive: the paths to the key that the depth-limited search can *)
(* find; the payloads here never have two of them.                          *)
MaxDepth == 4
FoundBelow(data, key) ==
    {path \in Own(data) : Len(path) <= MaxDepth /\ path[Len(path)] = key}

(* getFieldValue: the path itself; a single key is also looked for below the *)
(* usual wrappers, in this order, and then anywhere.                         *)
Wrappers == <<"after", "before", "data", "payload">>

GetFieldValue(data, field) ==
    LET wrapped == {i \in DOMAIN Wrappers : <<Wrappers[i]>> \o field \in Own(data)}
        first == CHOOSE i \in wrapped : \A j \in wrapped : i <= j
        below == FoundBelow(data, field[1])
    IN  IF field \in Own(data) THEN ValueAt(data, field)
        ELSE IF Len(field) # 1 THEN Undefined
        ELSE IF wrapped # {} THEN ValueAt(data, <<Wrappers[first]>> \o field)
        ELSE IF below # {} THEN ValueAt(data, CHOOSE path \in below : TRUE)
        ELSE Undefined

(* evaluateCondition.  condition.values holds the elements of an array, or *)
(* the one value when condition.array is FALSE.                            *)
EvaluateCondition(condition, data) ==
    LET value == GetFieldValue(data, condition.field) IN
    CASE condition.operator = "equals"     -> ~condition.array /\ condition.values = {value}
      [] condition.operator = "not_equals" -> condition.array \/ condition.values # {value}
      [] condition.operator = "in"         -> condition.array /\ value \in condition.values
      [] condition.operator = "not_in"     -> condition.array /\ value \notin condition.values
      [] condition.operator = "contains"   ->
             \E part \in condition.values : <<value, part>> \in Includes
      [] OTHER -> FALSE

EvaluateTrigger(trigger, event) ==
    /\ \/ trigger.event = event.name
       \/ trigger.event = "case.created" /\ event.name = "case.created.sync"
    /\ \A condition \in trigger.conditions : EvaluateCondition(condition, event.data)

\* findMatchingTriggers(...).length > 0
AnyTrigger(triggers, event) == \E trigger \in triggers : EvaluateTrigger(trigger, event)
=============================================================================
