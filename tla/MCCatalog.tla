----------------------------- MODULE MCCatalog -----------------------------
(* Two administrators and one user, one card and two workflows.            *)
EXTENDS Catalog

CONSTANTS kind, detail, w1, w2

MCChoice == {{}, {"a"}, {"a", "b"}}

Condition(field, operator) ==
    [field |-> field, operator |-> operator, value |-> "a"]
Always == [operator |-> "AND", conditions |-> {}]

\* The detail is asked for when the kind has an "a" and is more, or when
\* there is none or it is just "a".
Detail(operator, condition1, condition2) ==
    [f \in Field |-> IF f = detail
                     THEN [operator |-> operator,
                           conditions |-> {Condition(kind, condition1),
                                           Condition(kind, condition2)}]
                     ELSE Always]

\* The second schema knows no kind and lets no such field through.
MCSchemas ==
    {[required |-> {detail}, properties |-> Field, additional |-> {},
      shown |-> Detail("AND", "contains", "notEquals")],
     [required |-> {detail}, properties |-> {detail}, additional |-> {},
      shown |-> Detail("OR", "isEmpty", "equals")]}

\* A default kind may show the detail that a form without a kind hides.
NoDefaults == [f \in Field |-> Absent]
MCDefaultForms ==
    {NoDefaults, [f \in Field |-> IF f = kind THEN {"a", "b"} ELSE Absent]}

MCForms ==
    {form \in Form : form[detail] \in {Absent, {"a"}} /\ form[kind] # {}}

MCCardRows ==
    [active : {TRUE}, schema : MCSchemas, defaults : {NoDefaults},
     workflow : {None}]

MCWorkflowRows ==
    LET Row(ofLine, order, name, conditions) ==
            [ofLine |-> ofLine, active |-> TRUE, order |-> order,
             name |-> name, conditions |-> conditions]
        whenA == {Condition(kind, "equals")}
    IN  {Row(TRUE, 1, 2, whenA), Row(TRUE, 2, 1, {}), Row(FALSE, 1, 1, {})}

\* A workflow is switched off, or moved to where the other stands.
MCWorkflowEdits == {[active |-> FALSE], [order |-> 1, name |-> 2]}

MCCardEdits ==
    {[active |-> FALSE], [workflow |-> w1]}
        \cup [defaults : MCDefaultForms \ {NoDefaults}]
        \cup [schema : MCSchemas]

Symmetric == Permutations(Editor)
=============================================================================
