------------------------------ MODULE Catalog ------------------------------
(***************************************************************************)
(* The catalog: administrators edit request cards, their approval steps,   *)
(* workflows and business lines while users submit forms                   *)
(* (modules/catalog/catalog.service.ts, modules/workflow/                  *)
(* workflow.service.ts, modules/business-line/business-line.service.ts,    *)
(* and createRequest of modules/request/request.service.ts up to the       *)
(* saved request, from where RequestFulfilment goes on).  One action is    *)
(* one database operation with the synchronous code after it.              *)
(*                                                                         *)
(* A form gives each field the set of strings chosen for it: {} stands for *)
(* the empty string and the empty list, a set of one for a string, a       *)
(* larger set for a list.  Schemas keep what a submission can tell apart:  *)
(* the required fields, the fields that are properties, the conditions     *)
(* under which a property is shown, and what other fields may hold.        *)
(***************************************************************************)
EXTENDS Naturals, FiniteSets, Sequences, SequencesExt

CONSTANTS
    Editor,      \* the administrators' calls in progress
    Submitter,   \* the users' submissions in progress
    Card,        \* request cards
    Workflow,    \* workflows
    Field,       \* the fields of the forms
    Choice,      \* what a form may give a field
    Forms,       \* the forms that are sent
    Schemas,     \* the schemas a card may have
    DefaultForms,\* the defaults a card may have
    CardRows,    \* the cards that are created
    WorkflowRows,\* the workflows that are created
    WorkflowEdits,\* the updates of a workflow: records of the columns given
    CardEdits,   \* the updates of a card: records of the columns given
    Absent,      \* the form has no such field
    None,        \* no row, no value
    MaxEdits,    \* bound on administrators' calls
    MaxRequests  \* bound on request numbers

VARIABLES
    cards,     \* request_card: [active, schema, defaults, workflow] or None
    steps,     \* approval_steps: the cards that have some
    workflows, \* workflow: a row or None
    lineActive,\* business_line.active of the line all this belongs to
    requests,  \* the saved requests
    nextNumber,\* request_number_seq
    editing,   \* the administrators' calls
    sub,       \* the submissions
    edits      \* administrators' calls so far

vars == <<cards, steps, workflows, lineActive, requests, nextNumber,
          editing, sub, edits>>

CardRow == [active : BOOLEAN, schema : Schemas, defaults : DefaultForms,
            workflow : Workflow \cup {None}]
\* Names are numbers here, for their order; two workflows may share one.
WorkflowRow == [ofLine : BOOLEAN, active : BOOLEAN, order : Nat, name : Nat,
                conditions : {row.conditions : row \in WorkflowRows}]
Form == [Field -> Choice \cup {Absent}]

ASSUME FormsAreForms == Forms \subseteq Form /\ DefaultForms \subseteq Form
ASSUME RowsAreRows == CardRows \subseteq CardRow /\ WorkflowRows \subseteq WorkflowRow
ASSUME NoneIsNoRow == None \notin CardRow \cup WorkflowRow
ASSUME WorkflowsAreFinite == IsFiniteSet(Workflow) /\ None \notin Workflow
ASSUME SchemasHaveFields ==
    \A schema \in Schemas : schema.required \cup schema.properties \subseteq Field

\* A value that an update gives is one of its column (the DTOs' validators).
ASSUME EditsFit ==
    /\ \A dto \in CardEdits :
           /\ "active" \in DOMAIN dto => dto.active \in BOOLEAN
           /\ "schema" \in DOMAIN dto => dto.schema \in Schemas
           /\ "defaults" \in DOMAIN dto => dto.defaults \in DefaultForms
           /\ "workflow" \in DOMAIN dto => dto.workflow \in Workflow
    /\ \A dto \in WorkflowEdits :
           /\ "ofLine" \in DOMAIN dto => dto.ofLine \in BOOLEAN
           /\ "active" \in DOMAIN dto => dto.active \in BOOLEAN
           /\ "order" \in DOMAIN dto => dto.order \in Nat
           /\ "name" \in DOMAIN dto => dto.name \in Nat
           /\ "conditions" \in DOMAIN dto =>
                  \E row \in WorkflowRows : dto.conditions = row.conditions

----------------------------------------------------------------------------
(* The conditions of forms and of workflows.                               *)

EvaluateCondition(condition, form) ==
    LET value == form[condition.field]
        empty == value \in {Absent, {}}
    IN  CASE condition.operator = "equals"     -> value = {condition.value}
          [] condition.operator = "notEquals"  -> value # {condition.value}
          [] condition.operator = "contains"   ->
                 ~empty /\ condition.value \in value
          [] condition.operator = "isEmpty"    -> empty
          [] condition.operator = "isNotEmpty" -> ~empty
          [] OTHER                             -> TRUE

\* A field without conditions is always shown.
EvaluateConditionalLogic(logic, form) ==
    \/ logic.conditions = {}
    \/ /\ logic.operator = "AND"
       /\ \A k \in logic.conditions : EvaluateCondition(k, form)
    \/ /\ logic.operator # "AND"
       /\ \E k \in logic.conditions : EvaluateCondition(k, form)

\* Mutant: the fields that are shown are dropped, not the hidden ones.
HiddenShown(schema, form) ==
    {f \in schema.properties : EvaluateConditionalLogic(schema.shown[f], form)}

HiddenFields(schema, form) ==
    {f \in schema.properties : ~EvaluateConditionalLogic(schema.shown[f], form)}

\* ajv's `required`: a property that is there, whatever it holds.
Validates(schema, form) ==
    \A f \in schema.required \ HiddenFields(schema, form) : form[f] # Absent

\* ajv's removeAdditional "failing": a field that is no property goes when
\* the schema's additionalProperties does not accept what it holds.
WithoutFailing(schema, form) ==
    [f \in Field |->
        IF f \in schema.properties \/ form[f] \in schema.additional
        THEN form[f] ELSE Absent]

Merge(defaults, form) ==
    [f \in Field |-> IF form[f] # Absent THEN form[f] ELSE defaults[f]]

\* A workflow's conditions hold all together; values that are no numbers
\* are neither greater nor less than another.
Matches(row, metadata) ==
    \A k \in row.conditions :
        LET value == metadata[k.field]
        IN  CASE k.operator = "equals"   -> value = {k.value}
              [] k.operator = "contains" -> value # Absent /\ k.value \in value
              [] OTHER                   -> FALSE

\* The order of the query: evaluationOrder, then name.
Precedes(v, w) ==
    \/ workflows[v].order < workflows[w].order
    \/ /\ workflows[v].order = workflows[w].order
       /\ workflows[v].name < workflows[w].name

\* Mutant: workflows come by name only.
SortedByName(ws) ==
    {found \in SetToSeqs(ws) :
        \A i, j \in DOMAIN found :
            i < j => workflows[found[i]].name <= workflows[found[j]].name}

\* The lists the query may give: workflows of one order and one name come
\* in any order.
Sorted(ws) ==
    {found \in SetToSeqs(ws) :
        \A i, j \in DOMAIN found : i < j => ~Precedes(found[j], found[i])}

\* getWorkflowForRouting: the first match, or the first, or none.  The card
\* the request is for has no part in it.
WorkflowForRouting(found, metadata) ==
    LET match == SelectInSeq(found, LAMBDA w : Matches(workflows[w], metadata))
    IN  IF found = <<>> THEN None
        ELSE found[IF match = 0 THEN 1 ELSE match]

----------------------------------------------------------------------------
IdleEdit == [pc |-> "idle", op |-> None, target |-> None, dto |-> <<>>,
             row |-> None, steps |-> None]
IdleSubmit == [pc |-> "idle", card |-> None, schema |-> None, form |-> None,
               metadata |-> None, number |-> 0, workflow |-> None]

Init ==
    /\ workflows \in [Workflow -> WorkflowRows \cup {None}]
    /\ cards \in [Card -> {row \in CardRows :
                           row.workflow # None => workflows[row.workflow] # None}
                              \cup {None}]
    /\ steps \in SUBSET {c \in Card : cards[c] # None}
    /\ lineActive = TRUE
    /\ requests = {}
    /\ nextNumber = 1
    /\ editing = [e \in Editor |-> IdleEdit]
    /\ sub = [s \in Submitter |-> IdleSubmit]
    /\ edits = 0

Begins(e) ==
    /\ editing[e].pc = "idle"
    /\ edits < MaxEdits
    /\ edits' = edits + 1

Goes(e, pc) == editing' = [editing EXCEPT ![e].pc = pc]
Ends(e) == editing' = [editing EXCEPT ![e] = IdleEdit]
Resumes(e, pc) == editing[e].pc = pc /\ UNCHANGED edits

----------------------------------------------------------------------------
(* Request cards.                                                          *)

\* The foreign key of a card's workflow: workflows are never deleted.
Refers(workflow) == workflow # None => workflows[workflow] # None

\* createRequestCard: the card first, its approval steps in a second save.
CreateRequestCard(e, c, row, withSteps) ==
    /\ Begins(e)
    /\ cards[c] = None
    /\ Refers(row.workflow)
    /\ cards' = [cards EXCEPT ![c] = row]
    /\ IF withSteps
       THEN editing' = [editing EXCEPT ![e] =
                [IdleEdit EXCEPT !.pc = "steps", !.op = "create", !.target = c]]
       ELSE UNCHANGED editing
    /\ UNCHANGED <<steps, workflows, lineActive, requests, nextNumber, sub>>

CreateApprovalSteps(e) ==
    /\ Resumes(e, "steps")
    /\ steps' = steps \cup {editing[e].target}
    /\ IF editing[e].op = "create" THEN Ends(e) ELSE Goes(e, "update")
    /\ UNCHANGED <<cards, workflows, lineActive, requests, nextNumber, sub>>

\* updateRequestCard finds the card, replaces the steps when some list is
\* given (None: not given), and then updates the columns given.
LoadRequestCard(e, c, dto, newSteps) ==
    /\ Begins(e)
    /\ cards[c] # None
    /\ editing' = [editing EXCEPT ![e] =
           [pc |-> IF newSteps = None THEN "update" ELSE "clear",
            op |-> "update", target |-> c, dto |-> dto, row |-> cards[c],
            steps |-> newSteps]]
    /\ UNCHANGED <<cards, steps, workflows, lineActive, requests, nextNumber,
                   sub>>

ClearApprovalSteps(e) ==
    /\ Resumes(e, "clear")
    /\ steps' = steps \ {editing[e].target}
    /\ Goes(e, IF editing[e].steps THEN "steps" ELSE "update")
    /\ UNCHANGED <<cards, workflows, lineActive, requests, nextNumber, sub>>

\* Mutant: the loaded card is saved with the columns given laid over it.
UpdatedWhole(row, dto, loaded) ==
    [column \in DOMAIN row |->
        IF column \in DOMAIN dto THEN dto[column] ELSE loaded[column]]

\* Mutant: a column that is not given is written as null.
UpdatedNulls(row, dto, loaded) ==
    [column \in DOMAIN row |->
        IF column \in DOMAIN dto THEN dto[column] ELSE None]

\* `update()` touches the columns given and no others.
Updated(row, dto, loaded) ==
    [column \in DOMAIN row |->
        IF column \in DOMAIN dto THEN dto[column] ELSE row[column]]

UpdateRequestCard(e) ==
    LET c == editing[e].target
    IN  /\ Resumes(e, "update")
        /\ "workflow" \in DOMAIN editing[e].dto =>
               Refers(editing[e].dto.workflow)
        /\ cards' = [cards EXCEPT ![c] =
                         Updated(@, editing[e].dto, editing[e].row)]
        /\ Ends(e)
        /\ UNCHANGED <<steps, workflows, lineActive, requests, nextNumber, sub>>

----------------------------------------------------------------------------
(* Workflows and the business line: found, changed, saved as a whole.      *)

CreateWorkflow(e, w, row) ==
    /\ Begins(e)
    /\ workflows[w] = None
    /\ workflows' = [workflows EXCEPT ![w] = row]
    /\ UNCHANGED <<cards, steps, lineActive, requests, nextNumber, editing, sub>>

LoadWorkflow(e, w, dto) ==
    /\ Begins(e)
    /\ workflows[w] # None
    /\ editing' = [editing EXCEPT ![e] =
           [IdleEdit EXCEPT !.pc = "workflow", !.op = "update", !.target = w,
                            !.row = Updated(workflows[w], dto, workflows[w])]]
    /\ UNCHANGED <<cards, steps, workflows, lineActive, requests, nextNumber,
                   sub>>

SaveWorkflow(e) ==
    /\ Resumes(e, "workflow")
    /\ workflows' = [workflows EXCEPT ![editing[e].target] = editing[e].row]
    /\ Ends(e)
    /\ UNCHANGED <<cards, steps, lineActive, requests, nextNumber, sub>>

\* deactivate is an update; nothing that a submission does looks at it.
LoadLine(e, active) ==
    /\ Begins(e)
    /\ editing' = [editing EXCEPT ![e] =
           [IdleEdit EXCEPT !.pc = "line", !.op = "update",
                            !.row = [active |-> active]]]
    /\ UNCHANGED <<cards, steps, workflows, lineActive, requests, nextNumber,
                   sub>>

SaveLine(e) ==
    /\ Resumes(e, "line")
    /\ lineActive' = editing[e].row.active
    /\ Ends(e)
    /\ UNCHANGED <<cards, steps, workflows, requests, nextNumber, sub>>

----------------------------------------------------------------------------
(* A submission.                                                           *)

Waits(s, pc) == sub[s].pc = pc
Drops(s) == sub' = [sub EXCEPT ![s] = IdleSubmit]

\* submitRequest validates the form as it came, which takes the failing
\* fields out of it, and lays the rest over the card's defaults afterwards.
Submit(s, c, form) ==
    /\ Waits(s, "idle")
    /\ nextNumber <= MaxRequests
    /\ cards[c] # None /\ cards[c].active
    /\ Validates(cards[c].schema, form)
    /\ sub' = [sub EXCEPT ![s] =
           [IdleSubmit EXCEPT !.pc = "card", !.card = c,
                              !.schema = cards[c].schema,
                              !.form = form,
                              !.metadata = Merge(cards[c].defaults,
                                  WithoutFailing(cards[c].schema, form))]]
    /\ UNCHANGED <<cards, steps, workflows, lineActive, requests, nextNumber,
                   editing, edits>>

\* createRequest looks for the card once more; the business line and the
\* service it reads before are never deleted.
FindCard(s) ==
    /\ Waits(s, "card")
    /\ IF cards[sub[s].card].active
       THEN sub' = [sub EXCEPT ![s].pc = "number"]
       ELSE Drops(s)
    /\ UNCHANGED <<cards, steps, workflows, lineActive, requests, nextNumber,
                   editing, edits>>

NextNumber(s) ==
    /\ Waits(s, "number")
    /\ sub' = [sub EXCEPT ![s].pc = "workflow", ![s].number = nextNumber]
    /\ nextNumber' = nextNumber + 1
    /\ UNCHANGED <<cards, steps, workflows, lineActive, requests, editing, edits>>

ChooseWorkflow(s) ==
    /\ Waits(s, "workflow")
    /\ \E found \in Sorted({w \in Workflow : /\ workflows[w] # None
                                           /\ workflows[w].ofLine
                                           /\ workflows[w].active}) :
           sub' = [sub EXCEPT ![s].pc = "save",
                      ![s].workflow = WorkflowForRouting(found, sub[s].metadata)]
    /\ UNCHANGED <<cards, steps, workflows, lineActive, requests, nextNumber,
                   editing, edits>>

SaveRequest(s) ==
    /\ Waits(s, "save")
    /\ requests' = requests \cup
           {[number |-> sub[s].number, schema |-> sub[s].schema,
             form |-> sub[s].form, metadata |-> sub[s].metadata]}
    /\ Drops(s)
    /\ UNCHANGED <<cards, steps, workflows, lineActive, nextNumber, editing,
                   edits>>

----------------------------------------------------------------------------
(* A database error ends a call where it stands; a stop ends all of them.  *)

EditFails(e) ==
    /\ editing[e].pc # "idle"
    /\ Ends(e)
    /\ UNCHANGED <<cards, steps, workflows, lineActive, requests, nextNumber,
                   sub, edits>>

Crash ==
    /\ editing' = [e \in Editor |-> IdleEdit]
    /\ sub' = [s \in Submitter |-> IdleSubmit]
    /\ UNCHANGED <<cards, steps, workflows, lineActive, requests, nextNumber,
                   edits>>

EditCatalog(e) ==
    \/ \E c \in Card :
           \/ \E row \in CardRows, withSteps \in BOOLEAN :
                  CreateRequestCard(e, c, row, withSteps)
           \/ \E dto \in CardEdits, newSteps \in BOOLEAN \cup {None} :
                  LoadRequestCard(e, c, dto, newSteps)
    \/ CreateApprovalSteps(e) \/ ClearApprovalSteps(e) \/ UpdateRequestCard(e)
    \/ \E w \in Workflow :
           \/ \E row \in WorkflowRows : CreateWorkflow(e, w, row)
           \/ \E dto \in WorkflowEdits : LoadWorkflow(e, w, dto)
    \/ SaveWorkflow(e)
    \/ \E active \in BOOLEAN : LoadLine(e, active)
    \/ SaveLine(e)
    \/ EditFails(e)

SubmitStep(s) ==
    \/ \E c \in Card, form \in Forms : Submit(s, c, form)
    \/ FindCard(s) \/ NextNumber(s) \/ ChooseWorkflow(s) \/ SaveRequest(s)

Next ==
    \/ \E e \in Editor : EditCatalog(e)
    \/ \E s \in Submitter : SubmitStep(s)
    \/ Crash

Spec == Init /\ [][Next]_vars

----------------------------------------------------------------------------
\* Rows, calls and submissions stay well formed, and no two requests have
\* one number, whatever calls end half way (updateRequestCard builds its
\* update column by column).
TypeOK ==
    /\ cards \in [Card -> CardRow \cup {None}]
    /\ steps \subseteq {c \in Card : cards[c] # None}
    /\ \A w \in Workflow : workflows[w] # None => workflows[w] \in WorkflowRow
    /\ lineActive \in BOOLEAN
    /\ \A q \in requests :
           /\ q.schema \in Schemas /\ q.form \in Form /\ q.metadata \in Form
           /\ q.number < nextNumber
    /\ \A q, r \in requests : q.number = r.number => q = r
    /\ \A e \in Editor :
           editing[e].pc \in {"idle", "steps", "clear", "update", "workflow",
                              "line"}
    /\ \A s \in Submitter :
           /\ sub[s].pc \in {"idle", "card", "number", "workflow", "save"}
           /\ sub[s].workflow \in Workflow \cup {None}

\* Two administrators who update different columns of one card both get
\* what they asked for: a column of a card changes only to what a pending
\* update gives for that very column (updateRequestCard, which uses
\* `update()` and not a save of the card it loaded).
OnlyGivenColumnsChange ==
    [][\A c \in Card :
           cards[c] # None =>
               \A column \in DOMAIN cards[c] :
                   cards'[c][column] # cards[c][column] =>
                       \E e \in Editor :
                           /\ editing[e].target = c /\ editing[e].op = "update"
                           /\ column \in DOMAIN editing[e].dto
                           /\ cards'[c][column] = editing[e].dto[column]]_vars

\* A required property that the stored answers show is among them, unless
\* an answer its conditions look at is not the one sent, by a default or
\* because ajv took it out: submitRequest checks the form before it merges
\* the defaults.  q.schema is the schema the card had at the check.
StoredFormComplete ==
    \A q \in requests : \A f \in q.schema.required \cap q.schema.properties :
        LET logic == q.schema.shown[f]
        IN  (/\ EvaluateConditionalLogic(logic, q.metadata)
             /\ \A k \in logic.conditions :
                    q.metadata[k.field] = q.form[k.field])
            => q.metadata[f] # Absent

\* The workflow a request gets when its card names none is active and of its
\* line.  No such workflow that matches comes before it, by evaluation order
\* and then by name; when it does not match itself none does, and none at all
\* comes before it.  Only a line without active workflows gives none
\* (getWorkflowForRouting).  Of a card that names a workflow nothing is stated:
\* docs/WORKFLOW_BASED_ROUTING.md:156 promises that one, and the code does not
\* read the column.
RoutedToFirstMatching ==
    [][\A s \in Submitter :
           /\ sub[s].pc = "workflow" /\ sub'[s].pc = "save"
           /\ cards[sub[s].card].workflow = None
           =>
               LET mine      == {w \in Workflow : /\ workflows[w] # None
                                                  /\ workflows[w].ofLine
                                                  /\ workflows[w].active}
                   matching  == {w \in mine :
                                    Matches(workflows[w], sub[s].metadata)}
                   chosen    == sub'[s].workflow
                   rivals    == IF matching = {} THEN mine ELSE matching
               IN  IF mine = {} THEN chosen = None
                   ELSE chosen \in rivals
                        /\ ~\E v \in rivals : Precedes(v, chosen)]_vars
=============================================================================
