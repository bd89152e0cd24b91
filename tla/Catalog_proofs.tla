--------------------------- MODULE Catalog_proofs ---------------------------
(***************************************************************************)
(* What Catalog keeps for every set of cards, workflows, schemas, forms    *)
(* and calls: rows stay well formed and request numbers differ, the form   *)
(* that is stored is complete, an update touches its own columns, and a    *)
(* request goes to the first workflow that matches.                        *)
(***************************************************************************)
EXTENDS Catalog, TLAPS, FiniteSetTheorems

----------------------------------------------------------------------------
(* The inductive invariant.                                                *)

RowsInv ==
    /\ cards \in [Card -> CardRow \cup {None}]
    /\ steps \subseteq {c \in Card : cards[c] # None}
    /\ workflows \in [Workflow -> WorkflowRow \cup {None}]
    /\ lineActive \in BOOLEAN

\* What an administrator's call holds on to between two of its steps.
EditHolds(edit, table) ==
    /\ edit.pc \in {"steps", "clear", "update"} =>
           edit.target \in Card /\ table[edit.target] # None
    /\ edit.pc = "steps" /\ edit.op # "create" =>
           edit.op = "update" /\ edit.dto \in CardEdits
    /\ edit.pc \in {"clear", "update"} =>
           edit.op = "update" /\ edit.dto \in CardEdits
    /\ edit.pc = "workflow" =>
           edit.target \in Workflow /\ edit.row \in WorkflowRow
    /\ edit.pc = "line" => edit.row \in [active : BOOLEAN]

EditRecord ==
    [pc : {"idle", "steps", "clear", "update", "workflow", "line"},
     op : {"create", "update", None},
     target : Card \cup Workflow \cup {None},
     dto : CardEdits \cup {<<>>},
     row : CardRow \cup WorkflowRow \cup [active : BOOLEAN] \cup {None},
     steps : BOOLEAN \cup {None}]

EditsInv ==
    /\ editing \in [Editor -> EditRecord]
    /\ \A e \in Editor : EditHolds(editing[e], cards)

\* StoredFormComplete of one answer.
Complete(schema, form, metadata) ==
    \A f \in schema.required \cap schema.properties :
        (/\ EvaluateConditionalLogic(schema.shown[f], metadata)
         /\ \A k \in schema.shown[f].conditions :
                metadata[k.field] = form[k.field])
        => metadata[f] # Absent

SubmitRecord ==
    [pc : {"idle", "card", "number", "workflow", "save"},
     card : Card \cup {None},
     schema : Schemas \cup {None},
     form : Form \cup {None},
     metadata : Form \cup {None},
     number : Nat,
     workflow : Workflow \cup {None}]

\* What a submission that has passed the validation holds on to.
SubmitHolds(entry) ==
    entry.pc # "idle" =>
        /\ entry.schema \in Schemas
        /\ entry.form \in Form /\ entry.metadata \in Form
        /\ Complete(entry.schema, entry.form, entry.metadata)

SubsInv ==
    /\ sub \in [Submitter -> SubmitRecord]
    /\ \A s \in Submitter : SubmitHolds(sub[s])

RequestsInv ==
    \A q \in requests :
        /\ q.schema \in Schemas /\ q.form \in Form /\ q.metadata \in Form
        /\ Complete(q.schema, q.form, q.metadata)

\* A number is drawn once: whoever holds one, holds it alone.
Numbered(s) == sub[s].pc \in {"workflow", "save"}

NumbersInv ==
    /\ nextNumber \in Nat
    /\ \A q \in requests : q.number \in Nat /\ q.number < nextNumber
    /\ \A q, r \in requests : q.number = r.number => q = r
    /\ \A s \in Submitter : Numbered(s) =>
           /\ sub[s].number < nextNumber
           /\ \A q \in requests : q.number # sub[s].number
           /\ \A t \in Submitter : Numbered(t) /\ t # s =>
                  sub[t].number # sub[s].number

IInv == RowsInv /\ EditsInv /\ SubsInv /\ RequestsInv /\ NumbersInv

----------------------------------------------------------------------------
(* The workflows in the order of the query.                                *)

\* A list of the query holds every workflow of the set, none after one it
\* precedes (getWorkflowForRouting orders by evaluationOrder and name).
LEMMA SortedList ==
    ASSUME NEW ws, ws \subseteq Workflow, NEW found \in Sorted(ws)
    PROVE  /\ Cardinality(ws) \in Nat
           /\ found \in [1 .. Cardinality(ws) -> ws]
           /\ \A w \in ws : \E i \in 1 .. Cardinality(ws) : found[i] = w
           /\ \A i, j \in 1 .. Cardinality(ws) :
                  i < j => ~Precedes(found[j], found[i])
<1> DEFINE n == Cardinality(ws)
<1>1. IsFiniteSet(ws) /\ n \in Nat
  BY WorkflowsAreFinite, FS_Subset, FS_CardinalityType
<1>2. /\ found \in SetToSeqs(ws)
      /\ \A i, j \in DOMAIN found : i < j => ~Precedes(found[j], found[i])
  BY DEF Sorted
<1>3. /\ found \in [1 .. n -> ws]
      /\ \A i, j \in 1 .. n : i # j => found[i] # found[j]
  BY <1>2 DEF SetToSeqs
<1> HIDE DEF n
<1>4. found \in Injection(1 .. n, ws)
  BY <1>3 DEF Injection, IsInjective
<1>5. found \in Surjection(1 .. n, ws)
  <2>1. IsFiniteSet(1 .. n) /\ Cardinality(1 .. n) = n
    BY <1>1, FS_Interval
  <2> QED
    BY <1>1, <1>4, <2>1, FS_Injection DEF n
<1>6. \A w \in ws : \E i \in 1 .. n : found[i] = w
  BY <1>5 DEF Surjection
<1>7. \A i, j \in 1 .. n : i < j => ~Precedes(found[j], found[i])
  BY <1>2, <1>3
<1> QED
  BY <1>1, <1>3, <1>6, <1>7 DEF n

\* A set of positions has a first one.
LEMMA FirstPosition ==
    ASSUME NEW I, I \subseteq Nat, I # {}
    PROVE  Min(I) \in I /\ \A i \in I : Min(I) <= i
<1>1. PICK m \in I : \A i \in I : ~(<<i, m>> \in OpToRel(<, Nat))
  BY NatLessThanWellFounded, WFMin
<1>2. \A i \in I : m <= i
  <2> TAKE i \in I
  <2>1. i \in Nat /\ m \in Nat
    OBVIOUS
  <2>2. ~(i < m)
    BY <1>1, <2>1 DEF OpToRel
  <2> QED
    BY <2>1, <2>2
<1> QED
  BY <1>2 DEF Min

\* getWorkflowForRouting gives the first workflow that matches, the first
\* of all when none does, and none when there is none.
LEMMA FirstMatch ==
    ASSUME NEW metadata, RowsInv,
           NEW found \in Sorted({w \in Workflow : /\ workflows[w] # None
                                                 /\ workflows[w].ofLine
                                                 /\ workflows[w].active})
    PROVE  LET mine      == {w \in Workflow : /\ workflows[w] # None
                                              /\ workflows[w].ofLine
                                              /\ workflows[w].active}
               matching  == {w \in mine : Matches(workflows[w], metadata)}
               chosen    == WorkflowForRouting(found, metadata)
               rivals    == IF matching = {} THEN mine ELSE matching
           IN  IF mine = {} THEN chosen = None
               ELSE chosen \in rivals /\ ~\E v \in rivals : Precedes(v, chosen)
<1> DEFINE mine   == {w \in Workflow : /\ workflows[w] # None
                                       /\ workflows[w].ofLine
                                       /\ workflows[w].active}
           n      == Cardinality(mine)
           I      == {i \in 1 .. n : Matches(workflows[found[i]], metadata)}
           chosen == WorkflowForRouting(found, metadata)
<1>0. found \in Sorted(mine)
  OBVIOUS
<1>1. /\ mine \subseteq Workflow
      /\ \A w \in mine : workflows[w].order \in Nat /\ workflows[w].name \in Nat
  BY DEF RowsInv, WorkflowRow
<1>2. /\ n \in Nat
      /\ found \in [1 .. n -> mine]
      /\ \A w \in mine : \E i \in 1 .. n : found[i] = w
      /\ \A i, j \in 1 .. n : i < j => ~Precedes(found[j], found[i])
  <2> HIDE DEF mine
  <2> QED
    BY <1>0, <1>1, SortedList
<1>3. Len(found) = n
  <2> HIDE DEF mine, n
  <2> QED
    BY <1>2
<1>4. \A i, j \in 1 .. n : Precedes(found[i], found[j]) => i < j
  <2> TAKE i, j \in 1 .. n
  <2> HIDE DEF n
  <2>1. i \in Nat /\ j \in Nat
    BY <1>2
  <2>2. found[i] \in mine
    BY <1>2
  <2>3. workflows[found[i]].order \in Nat /\ workflows[found[i]].name \in Nat
    <3> HIDE DEF mine
    <3> QED
      BY <2>2, <1>1
  <2>4. i = j => ~Precedes(found[i], found[j])
    <3> HIDE DEF mine
    <3> QED
      BY <2>3 DEF Precedes
  <2> QED
    BY <2>1, <2>4, <1>2
<1>5. chosen = IF found = <<>> THEN None
               ELSE found[IF I = {} THEN 1 ELSE IF Min(I) = 0 THEN 1 ELSE Min(I)]
  BY <1>3 DEF WorkflowForRouting, SelectInSeq
<1> DEFINE matching == {w \in mine : Matches(workflows[w], metadata)}
           rivals   == IF matching = {} THEN mine ELSE matching
<1>6. CASE mine = {}
  <2>1. n = 0
    BY <1>6, FS_EmptySet
  <2> HIDE DEF n, mine, chosen
  <2>2. found = <<>>
    BY <1>2, <2>1
  <2>3. chosen = None
    BY <1>5, <2>2
  <2> QED
    BY <1>6, <2>3 DEF chosen, mine
<1>7. CASE mine # {}
  <2> HIDE DEF n, mine, chosen
  <2>1. n > 0
    BY <1>2, <1>7
  <2>2. found # <<>>
    BY <1>3, <2>1
  <2>3. CASE I = {}
    <3>1. chosen = found[1] /\ 1 \in 1 .. n
      BY <1>2, <1>5, <2>1, <2>2, <2>3
    <3>2. matching = {}
      BY <1>2, <2>3
    <3>3. chosen \in mine
      BY <3>1, <1>2
    <3>4. ASSUME NEW v \in mine, Precedes(v, chosen)
          PROVE  FALSE
      <4>1. PICK i \in 1 .. n : found[i] = v
        BY <1>2
      <4> QED
        BY <4>1, <3>1, <3>4, <1>4
    <3> QED
      BY <3>2, <3>3, <3>4, <1>7 DEF chosen, mine
  <2>4. CASE I # {}
    <3>1. Min(I) \in I /\ \A i \in I : Min(I) <= i
      <4>1. I \subseteq Nat
        BY <1>2
      <4> HIDE DEF I
      <4> QED
        BY <2>4, <4>1, FirstPosition
    <3> DEFINE m == Min(I)
    <3> HIDE DEF m
    <3>2. /\ m \in 1 .. n /\ Matches(workflows[found[m]], metadata)
          /\ \A i \in I : m <= i
      BY <3>1 DEF m
    <3>3. chosen = found[m]
      <4> HIDE DEF I
      <4> QED
        BY <3>2, <1>2, <1>5, <2>2, <2>4 DEF m
    <3>4. chosen \in matching
      BY <3>2, <3>3, <1>2
    <3>5. ASSUME NEW v \in matching, Precedes(v, chosen)
          PROVE  FALSE
      <4>1. PICK i \in 1 .. n : found[i] = v
        BY <1>2
      <4>2. i \in I
        BY <4>1
      <4> QED
        BY <4>1, <4>2, <3>2, <3>3, <3>5, <1>2, <1>4
    <3> QED
      BY <3>4, <3>5, <1>7 DEF chosen, mine
  <2> QED
    BY <2>3, <2>4
<1> QED
  BY <1>6, <1>7

----------------------------------------------------------------------------
(* Forms and rows.                                                         *)

\* A condition looks at one field.
LEMMA SameAnswer ==
    ASSUME NEW k, NEW a, NEW b, a[k.field] = b[k.field]
    PROVE  EvaluateCondition(k, a) = EvaluateCondition(k, b)
BY DEF EvaluateCondition

\* A field's logic looks at the fields of its conditions.
LEMMA SameLogic ==
    ASSUME NEW logic, NEW a, NEW b, \A k \in logic.conditions : a[k.field] = b[k.field],
           EvaluateConditionalLogic(logic, a)
    PROVE  EvaluateConditionalLogic(logic, b)
<1>1. \A k \in logic.conditions : EvaluateCondition(k, a) => EvaluateCondition(k, b)
  BY SameAnswer
<1> QED
  BY <1>1 DEF EvaluateConditionalLogic

\* What is left of a form is a form, and has what the properties had.
LEMMA KeptIsForm ==
    ASSUME NEW schema, NEW form \in Form
    PROVE  /\ WithoutFailing(schema, form) \in Form
           /\ \A f \in schema.properties \cap Field :
                  WithoutFailing(schema, form)[f] = form[f]
BY DEF Form, WithoutFailing

\* Defaults laid under a form make a form (submitRequest).
LEMMA MergeIsForm ==
    ASSUME NEW d \in Form, NEW form \in Form
    PROVE  Merge(d, form) \in Form
BY DEF Form, Merge

\* A form that validates is complete once the defaults are laid under it.
LEMMA MergeIsComplete ==
    ASSUME NEW schema \in Schemas, NEW d \in Form, NEW form \in Form,
           Validates(schema, form)
    PROVE  Complete(schema, form, Merge(d, WithoutFailing(schema, form)))
<1> DEFINE metadata == Merge(d, WithoutFailing(schema, form))
<1> SUFFICES ASSUME NEW f \in schema.required \cap schema.properties,
                    EvaluateConditionalLogic(schema.shown[f], metadata),
                    \A k \in schema.shown[f].conditions :
                        metadata[k.field] = form[k.field]
             PROVE  metadata[f] # Absent
  BY DEF Complete
<1>1. f \in Field
  BY SchemasHaveFields
<1>2. EvaluateConditionalLogic(schema.shown[f], form)
  <2> HIDE DEF metadata
  <2> QED
    BY SameLogic
<1>3. form[f] # Absent
  BY <1>1, <1>2 DEF Validates, HiddenFields
<1>4. WithoutFailing(schema, form)[f] = form[f]
  BY <1>1, KeptIsForm
<1> HIDE DEF WithoutFailing
<1> QED
  BY <1>1, <1>3, <1>4 DEF Merge

\* An update gives a card a row of a card: the columns given are of their
\* types and the others stay (updateRequestCard).
LEMMA UpdatedCard ==
    ASSUME NEW row \in CardRow, NEW dto \in CardEdits, NEW loaded
    PROVE  Updated(row, dto, loaded) \in CardRow
<1>1. DOMAIN row = {"active", "schema", "defaults", "workflow"}
  BY DEF CardRow
<1> DEFINE new == Updated(row, dto, loaded)
<1>2. new = [column \in {"active", "schema", "defaults", "workflow"} |->
                IF column \in DOMAIN dto THEN dto[column] ELSE row[column]]
  BY <1>1 DEF Updated
<1>3. /\ row.active \in BOOLEAN /\ row.schema \in Schemas
      /\ row.defaults \in DefaultForms /\ row.workflow \in Workflow \cup {None}
  BY DEF CardRow
<1>4. new = [active |-> new.active, schema |-> new.schema,
             defaults |-> new.defaults, workflow |-> new.workflow]
  BY <1>2
<1>5. /\ new.active \in BOOLEAN /\ new.schema \in Schemas
      /\ new.defaults \in DefaultForms /\ new.workflow \in Workflow \cup {None}
  BY <1>2, <1>3, EditsFit
<1> HIDE DEF new
<1>6. new \in CardRow
  BY <1>4, <1>5 DEF CardRow
<1> QED
  BY <1>6 DEF new

LEMMA UpdatedWorkflow ==
    ASSUME NEW row \in WorkflowRow, NEW dto \in WorkflowEdits, NEW loaded
    PROVE  Updated(row, dto, loaded) \in WorkflowRow
<1>1. DOMAIN row = {"ofLine", "active", "order", "name", "conditions"}
  BY DEF WorkflowRow
<1> DEFINE new == Updated(row, dto, loaded)
           Conditions == {r.conditions : r \in WorkflowRows}
<1>2. new = [column \in {"ofLine", "active", "order", "name", "conditions"} |->
                IF column \in DOMAIN dto THEN dto[column] ELSE row[column]]
  BY <1>1 DEF Updated
<1>3. /\ row.ofLine \in BOOLEAN /\ row.active \in BOOLEAN
      /\ row.order \in Nat /\ row.name \in Nat /\ row.conditions \in Conditions
  BY DEF WorkflowRow
<1>4. new = [ofLine |-> new.ofLine, active |-> new.active,
             order |-> new.order, name |-> new.name,
             conditions |-> new.conditions]
  BY <1>2
<1>5. /\ new.ofLine \in BOOLEAN /\ new.active \in BOOLEAN
      /\ new.order \in Nat /\ new.name \in Nat /\ new.conditions \in Conditions
  BY <1>2, <1>3, EditsFit
<1> HIDE DEF new
<1>6. new \in WorkflowRow
  BY <1>4, <1>5 DEF WorkflowRow
<1> QED
  BY <1>6 DEF new

----------------------------------------------------------------------------
(* Init, and what leaves a part of the invariant alone.                    *)

LEMMA IdleEditHolds ==
    IdleEdit \in EditRecord /\ \A table : EditHolds(IdleEdit, table)
BY DEF IdleEdit, EditRecord, EditHolds

LEMMA IdleSubmitHolds == IdleSubmit \in SubmitRecord /\ SubmitHolds(IdleSubmit)
BY DEF IdleSubmit, SubmitRecord, SubmitHolds

LEMMA InitInv == Init => IInv
<1> SUFFICES ASSUME Init PROVE IInv
  OBVIOUS
<1>1. RowsInv
  BY RowsAreRows DEF Init, RowsInv
<1>2. EditsInv
  BY IdleEditHolds DEF Init, EditsInv
<1>3. SubsInv
  BY IdleSubmitHolds DEF Init, SubsInv
<1>4. RequestsInv
  BY DEF Init, RequestsInv
<1>5. NumbersInv
  BY DEF Init, NumbersInv, Numbered, IdleSubmit
<1> QED
  BY <1>1, <1>2, <1>3, <1>4, <1>5 DEF IInv

\* Cards are never deleted.
CardsStay == \A c \in Card : cards[c] # None => cards'[c] # None

LEMMA EditsKept ==
    ASSUME EditsInv, CardsStay, UNCHANGED editing
    PROVE  EditsInv'
BY DEF EditsInv, EditHolds, CardsStay

LEMMA EditsSet ==
    ASSUME EditsInv, CardsStay, NEW e \in Editor, NEW x \in EditRecord,
           EditHolds(x, cards'), editing' = [editing EXCEPT ![e] = x]
    PROVE  EditsInv'
<1>1. editing' \in [Editor -> EditRecord]
  BY DEF EditsInv
<1>2. ASSUME NEW d \in Editor
      PROVE  EditHolds(editing'[d], cards')
  <2>1. CASE d = e
    BY <2>1 DEF EditsInv
  <2>2. CASE d # e
    <3>1. editing'[d] = editing[d] /\ EditHolds(editing[d], cards)
      BY <2>2 DEF EditsInv
    <3> QED
      BY <3>1 DEF EditHolds, CardsStay
  <2> QED
    BY <2>1, <2>2
<1> QED
  BY <1>1, <1>2 DEF EditsInv

LEMMA EditEnds ==
    ASSUME EditsInv, CardsStay, NEW e \in Editor, Ends(e)
    PROVE  EditsInv'
<1>1. editing' = [editing EXCEPT ![e] = IdleEdit]
  BY DEF Ends
<1> QED
  BY <1>1, IdleEditHolds, EditsSet

\* A call that goes on keeps what it holds.
LEMMA EditGoes ==
    ASSUME EditsInv, CardsStay, NEW e \in Editor, NEW pc, Goes(e, pc),
           \/ pc = "steps" /\ editing[e].pc = "clear"
           \/ pc = "update" /\ editing[e].pc \in {"clear", "steps"}
                            /\ editing[e].op # "create"
    PROVE  EditsInv'
<1> DEFINE x == [editing[e] EXCEPT !.pc = pc]
<1>1. editing[e] \in EditRecord /\ EditHolds(editing[e], cards)
  BY DEF EditsInv
<1>2. x \in EditRecord
  BY <1>1 DEF EditRecord
<1>3. /\ x.pc = pc /\ x.op = editing[e].op /\ x.target = editing[e].target
      /\ x.dto = editing[e].dto /\ x.row = editing[e].row
  BY <1>1 DEF EditRecord
<1>4. editing' = [editing EXCEPT ![e] = x]
  BY DEF Goes, EditsInv
<1> HIDE DEF x
<1>5. EditHolds(x, cards')
  BY <1>1, <1>3 DEF EditHolds, CardsStay
<1> QED
  BY <1>2, <1>4, <1>5, EditsSet

\* Nothing but a card's creation and update touches the cards.
LEMMA RowsKept ==
    ASSUME RowsInv, UNCHANGED <<cards, steps, workflows, lineActive>>
    PROVE  RowsInv' /\ CardsStay
BY DEF RowsInv, CardsStay

LEMMA NumbersKept ==
    ASSUME NumbersInv, UNCHANGED <<requests, nextNumber>>,
           \A s \in Submitter :
               Numbered(s)' => Numbered(s) /\ sub'[s].number = sub[s].number
    PROVE  NumbersInv'
BY DEF NumbersInv, Numbered

\* An administrator's step leaves submissions and requests alone.
LEMMA OnlyEdit ==
    ASSUME IInv, UNCHANGED <<sub, requests, nextNumber>>, RowsInv', EditsInv'
    PROVE  IInv'
<1>1. SubsInv'
  BY DEF IInv, SubsInv
<1>2. RequestsInv'
  BY DEF IInv, RequestsInv
<1>3. NumbersInv'
  BY NumbersKept DEF IInv, Numbered
<1> QED
  BY <1>1, <1>2, <1>3 DEF IInv

\* A submission's step leaves the catalog and the calls alone.
LEMMA OnlySubmit ==
    ASSUME IInv, UNCHANGED <<cards, steps, workflows, lineActive, editing>>,
           SubsInv', RequestsInv', NumbersInv'
    PROVE  IInv'
BY RowsKept, EditsKept DEF IInv

----------------------------------------------------------------------------
(* The administrators' steps, one lemma per action.                        *)

LEMMA CreateRequestCardInv ==
    ASSUME IInv, NEW e \in Editor, NEW c \in Card, NEW row \in CardRows,
           NEW withSteps \in BOOLEAN, CreateRequestCard(e, c, row, withSteps)
    PROVE  IInv'
<1>1. row \in CardRow /\ row # None
  BY RowsAreRows, NoneIsNoRow
<1>2. RowsInv' /\ CardsStay
  BY <1>1 DEF CreateRequestCard, RowsInv, CardsStay, IInv
<1>3. EditsInv'
  <2>1. CASE withSteps
    <3> DEFINE x == [IdleEdit EXCEPT !.pc = "steps", !.op = "create", !.target = c]
    <3>1. x \in EditRecord
      BY DEF IdleEdit, EditRecord
    <3>2. x.pc = "steps" /\ x.op = "create" /\ x.target = c
      BY DEF IdleEdit
    <3>3. editing' = [editing EXCEPT ![e] = x] /\ cards'[c] # None
      BY <1>1, <2>1 DEF CreateRequestCard, RowsInv, IInv
    <3> HIDE DEF x
    <3>4. EditHolds(x, cards')
      BY <3>2, <3>3 DEF EditHolds
    <3> QED
      BY <1>2, <3>1, <3>3, <3>4, EditsSet DEF IInv
  <2>2. CASE ~withSteps
    BY <1>2, <2>2, EditsKept DEF CreateRequestCard, IInv
  <2> QED
    BY <2>1, <2>2
<1> QED
  BY <1>2, <1>3, OnlyEdit DEF CreateRequestCard

LEMMA CreateApprovalStepsInv ==
    ASSUME IInv, NEW e \in Editor, CreateApprovalSteps(e)
    PROVE  IInv'
<1>1. editing[e].pc = "steps" /\ EditHolds(editing[e], cards)
  BY DEF CreateApprovalSteps, Resumes, IInv, EditsInv
<1>2. RowsInv' /\ CardsStay
  BY <1>1 DEF CreateApprovalSteps, EditHolds, RowsInv, CardsStay, IInv
<1>3. EditsInv'
  <2>1. CASE editing[e].op = "create"
    BY <1>2, <2>1, EditEnds DEF CreateApprovalSteps, IInv
  <2>2. CASE editing[e].op # "create"
    BY <1>1, <1>2, <2>2, EditGoes DEF CreateApprovalSteps, IInv
  <2> QED
    BY <2>1, <2>2
<1> QED
  BY <1>2, <1>3, OnlyEdit DEF CreateApprovalSteps

LEMMA LoadRequestCardInv ==
    ASSUME IInv, NEW e \in Editor, NEW c \in Card, NEW dto \in CardEdits,
           NEW newSteps \in BOOLEAN \cup {None},
           LoadRequestCard(e, c, dto, newSteps)
    PROVE  IInv'
<1> DEFINE x == [pc |-> IF newSteps = None THEN "update" ELSE "clear",
                 op |-> "update", target |-> c, dto |-> dto, row |-> cards[c],
                 steps |-> newSteps]
<1>1. RowsInv' /\ CardsStay
  BY RowsKept DEF LoadRequestCard, IInv
<1>2. cards[c] \in CardRow /\ cards'[c] # None
  BY DEF LoadRequestCard, IInv, RowsInv
<1>3. x \in EditRecord
  BY <1>2 DEF EditRecord
<1>4. /\ x.pc \in {"update", "clear"} /\ x.op = "update"
      /\ x.target = c /\ x.dto = dto
  OBVIOUS
<1>5. editing' = [editing EXCEPT ![e] = x]
  BY DEF LoadRequestCard
<1> HIDE DEF x
<1>6. EditHolds(x, cards')
  BY <1>2, <1>4 DEF EditHolds
<1>7. EditsInv'
  BY <1>1, <1>3, <1>5, <1>6, EditsSet DEF IInv
<1> QED
  BY <1>1, <1>7, OnlyEdit DEF LoadRequestCard

LEMMA ClearApprovalStepsInv ==
    ASSUME IInv, NEW e \in Editor, ClearApprovalSteps(e)
    PROVE  IInv'
<1>1. editing[e].pc = "clear" /\ EditHolds(editing[e], cards)
  BY DEF ClearApprovalSteps, Resumes, IInv, EditsInv
<1>2. RowsInv' /\ CardsStay
  BY DEF ClearApprovalSteps, RowsInv, CardsStay, IInv
<1>3. editing[e].op # "create"
  BY <1>1 DEF EditHolds
<1>4. Goes(e, "steps") \/ Goes(e, "update")
  BY DEF ClearApprovalSteps
<1>5. EditsInv'
  BY <1>1, <1>2, <1>3, <1>4, EditGoes DEF IInv
<1> QED
  BY <1>2, <1>5, OnlyEdit DEF ClearApprovalSteps

LEMMA UpdateRequestCardInv ==
    ASSUME IInv, NEW e \in Editor, UpdateRequestCard(e)
    PROVE  IInv'
<1> DEFINE c == editing[e].target
           new == Updated(cards[c], editing[e].dto, editing[e].row)
<1>1. editing[e].pc = "update" /\ EditHolds(editing[e], cards)
  BY DEF UpdateRequestCard, Resumes, IInv, EditsInv
<1>2. c \in Card /\ cards[c] \in CardRow /\ editing[e].dto \in CardEdits
  BY <1>1 DEF EditHolds, IInv, RowsInv
<1>3. new \in CardRow
  BY <1>2, UpdatedCard
<1>4. cards' = [cards EXCEPT ![c] = new]
  BY DEF UpdateRequestCard
<1>5. new # None
  BY <1>3, NoneIsNoRow
<1> HIDE DEF new, c
<1>6. RowsInv' /\ CardsStay
  BY <1>2, <1>3, <1>4, <1>5 DEF UpdateRequestCard, RowsInv, CardsStay, IInv
<1>7. EditsInv'
  BY <1>6, EditEnds DEF UpdateRequestCard, IInv
<1> QED
  BY <1>6, <1>7, OnlyEdit DEF UpdateRequestCard

LEMMA CreateWorkflowInv ==
    ASSUME IInv, NEW e \in Editor, NEW w \in Workflow, NEW row \in WorkflowRows,
           CreateWorkflow(e, w, row)
    PROVE  IInv'
<1>1. RowsInv' /\ CardsStay
  BY RowsAreRows DEF CreateWorkflow, IInv, RowsInv, CardsStay
<1>2. EditsInv'
  BY <1>1, EditsKept DEF CreateWorkflow, IInv
<1> QED
  BY <1>1, <1>2, OnlyEdit DEF CreateWorkflow

LEMMA LoadWorkflowInv ==
    ASSUME IInv, NEW e \in Editor, NEW w \in Workflow, NEW dto \in WorkflowEdits,
           LoadWorkflow(e, w, dto)
    PROVE  IInv'
<1> DEFINE new == Updated(workflows[w], dto, workflows[w])
           x == [IdleEdit EXCEPT !.pc = "workflow", !.op = "update", !.target = w,
                                 !.row = new]
<1>1. new \in WorkflowRow
  <2>1. workflows[w] \in WorkflowRow
    BY DEF LoadWorkflow, IInv, RowsInv
  <2> QED
    BY <2>1, UpdatedWorkflow
<1>2. RowsInv' /\ CardsStay
  BY RowsKept DEF LoadWorkflow, IInv
<1>3. editing' = [editing EXCEPT ![e] = x]
  BY DEF LoadWorkflow
<1> HIDE DEF new
<1>4. x \in EditRecord
  BY <1>1 DEF IdleEdit, EditRecord
<1>5. x.pc = "workflow" /\ x.target = w /\ x.row = new
  BY DEF IdleEdit
<1> HIDE DEF x
<1>6. EditHolds(x, cards')
  BY <1>1, <1>5 DEF EditHolds
<1>7. EditsInv'
  BY <1>2, <1>3, <1>4, <1>6, EditsSet DEF IInv
<1> QED
  BY <1>2, <1>7, OnlyEdit DEF LoadWorkflow

LEMMA SaveWorkflowInv ==
    ASSUME IInv, NEW e \in Editor, SaveWorkflow(e)
    PROVE  IInv'
<1>1. editing[e].target \in Workflow /\ editing[e].row \in WorkflowRow
  BY DEF SaveWorkflow, Resumes, IInv, EditsInv, EditHolds
<1>2. RowsInv' /\ CardsStay
  BY <1>1 DEF SaveWorkflow, IInv, RowsInv, CardsStay
<1>3. EditsInv'
  BY <1>2, EditEnds DEF SaveWorkflow, IInv
<1> QED
  BY <1>2, <1>3, OnlyEdit DEF SaveWorkflow

LEMMA LoadLineInv ==
    ASSUME IInv, NEW e \in Editor, NEW active \in BOOLEAN, LoadLine(e, active)
    PROVE  IInv'
<1> DEFINE x == [IdleEdit EXCEPT !.pc = "line", !.op = "update",
                                 !.row = [active |-> active]]
<1>1. RowsInv' /\ CardsStay
  BY RowsKept DEF LoadLine, IInv
<1>2. x \in EditRecord
  BY DEF IdleEdit, EditRecord
<1>3. x.pc = "line" /\ x.row \in [active : BOOLEAN]
  BY DEF IdleEdit
<1>4. editing' = [editing EXCEPT ![e] = x]
  BY DEF LoadLine
<1> HIDE DEF x
<1>5. EditHolds(x, cards')
  BY <1>3 DEF EditHolds
<1>6. EditsInv'
  BY <1>1, <1>2, <1>4, <1>5, EditsSet DEF IInv
<1> QED
  BY <1>1, <1>6, OnlyEdit DEF LoadLine

LEMMA SaveLineInv ==
    ASSUME IInv, NEW e \in Editor, SaveLine(e)
    PROVE  IInv'
<1>1. editing[e].row \in [active : BOOLEAN]
  BY DEF SaveLine, Resumes, IInv, EditsInv, EditHolds
<1>2. RowsInv' /\ CardsStay
  BY <1>1 DEF SaveLine, IInv, RowsInv, CardsStay
<1>3. EditsInv'
  BY <1>2, EditEnds DEF SaveLine, IInv
<1> QED
  BY <1>2, <1>3, OnlyEdit DEF SaveLine

LEMMA EditFailsInv ==
    ASSUME IInv, NEW e \in Editor, EditFails(e)
    PROVE  IInv'
<1>1. RowsInv' /\ CardsStay
  BY RowsKept DEF EditFails, IInv
<1>2. EditsInv'
  BY <1>1, EditEnds DEF EditFails, IInv
<1> QED
  BY <1>1, <1>2, OnlyEdit DEF EditFails

LEMMA EditCatalogInv ==
    ASSUME IInv, NEW e \in Editor, EditCatalog(e)
    PROVE  IInv'
BY CreateRequestCardInv, LoadRequestCardInv, CreateApprovalStepsInv,
   ClearApprovalStepsInv, UpdateRequestCardInv, CreateWorkflowInv,
   LoadWorkflowInv, SaveWorkflowInv, LoadLineInv, SaveLineInv, EditFailsInv
   DEF EditCatalog

----------------------------------------------------------------------------
(* The steps of a submission, one lemma per action.                        *)

LEMMA SubSet ==
    ASSUME SubsInv, NEW s \in Submitter, NEW x \in SubmitRecord, SubmitHolds(x),
           sub' = [sub EXCEPT ![s] = x]
    PROVE  SubsInv'
BY DEF SubsInv

\* A number that nobody new holds, and that all others hold as before.
LEMMA NumbersSet ==
    ASSUME SubsInv, NumbersInv, UNCHANGED <<requests, nextNumber>>,
           NEW s \in Submitter, NEW x, sub' = [sub EXCEPT ![s] = x],
           x.pc \in {"workflow", "save"} =>
               Numbered(s) /\ x.number = sub[s].number
    PROVE  NumbersInv'
<1>1. \A t \in Submitter :
          Numbered(t)' => Numbered(t) /\ sub'[t].number = sub[t].number
  BY DEF SubsInv, Numbered
<1> QED
  BY <1>1, NumbersKept

LEMMA SubmitInv ==
    ASSUME IInv, NEW s \in Submitter, NEW c \in Card, NEW form \in Forms,
           Submit(s, c, form)
    PROVE  IInv'
<1> DEFINE metadata == Merge(cards[c].defaults,
                             WithoutFailing(cards[c].schema, form))
           x == [IdleSubmit EXCEPT !.pc = "card", !.card = c,
                                   !.schema = cards[c].schema,
                                   !.form = form, !.metadata = metadata]
<1>1. /\ cards[c].schema \in Schemas /\ cards[c].defaults \in Form
      /\ form \in Form
  BY FormsAreForms DEF Submit, IInv, RowsInv, CardRow
<1>2. metadata \in Form /\ Complete(cards[c].schema, form, metadata)
  BY <1>1, KeptIsForm, MergeIsForm, MergeIsComplete DEF Submit
<1>3. sub' = [sub EXCEPT ![s] = x]
  BY DEF Submit
<1> HIDE DEF metadata
<1>4. x \in SubmitRecord
  BY <1>1, <1>2 DEF IdleSubmit, SubmitRecord
<1>5. /\ x.pc = "card" /\ x.schema = cards[c].schema /\ x.form = form
      /\ x.metadata = metadata
  BY DEF IdleSubmit
<1> HIDE DEF x
<1>6. SubmitHolds(x)
  BY <1>1, <1>2, <1>5 DEF SubmitHolds
<1>7. SubsInv'
  BY <1>3, <1>4, <1>6, SubSet DEF IInv
<1>8. NumbersInv'
  BY <1>3, <1>5, NumbersSet DEF Submit, IInv
<1>9. RequestsInv'
  BY DEF Submit, IInv, RequestsInv
<1> QED
  BY <1>7, <1>8, <1>9, OnlySubmit DEF Submit

\* A submission that is dropped leaves its number unused.
LEMMA DropInv ==
    ASSUME SubsInv, NumbersInv, NEW s \in Submitter, Drops(s),
           UNCHANGED <<requests, nextNumber>>
    PROVE  SubsInv' /\ NumbersInv'
<1>1. sub' = [sub EXCEPT ![s] = IdleSubmit] /\ IdleSubmit.pc = "idle"
  BY DEF Drops, IdleSubmit
<1>2. SubsInv'
  BY <1>1, IdleSubmitHolds, SubSet
<1>3. NumbersInv'
  BY <1>1, NumbersSet
<1> QED
  BY <1>2, <1>3

LEMMA FindCardInv ==
    ASSUME IInv, NEW s \in Submitter, FindCard(s)
    PROVE  IInv'
<1>1. RequestsInv'
  BY DEF FindCard, IInv, RequestsInv
<1>2. CASE Drops(s)
  <2>1. SubsInv' /\ NumbersInv'
    BY <1>2, DropInv DEF FindCard, IInv
  <2> QED
    BY <1>1, <2>1, OnlySubmit DEF FindCard
<1>3. CASE sub' = [sub EXCEPT ![s].pc = "number"]
  <2> DEFINE x == [sub[s] EXCEPT !.pc = "number"]
  <2>1. sub[s] \in SubmitRecord /\ SubmitHolds(sub[s]) /\ sub[s].pc = "card"
    BY DEF FindCard, Waits, IInv, SubsInv
  <2>2. x \in SubmitRecord
    BY <2>1 DEF SubmitRecord
  <2>3. /\ x.pc = "number" /\ x.schema = sub[s].schema
        /\ x.form = sub[s].form /\ x.metadata = sub[s].metadata
    BY <2>1 DEF SubmitRecord
  <2>4. sub' = [sub EXCEPT ![s] = x]
    BY <1>3 DEF IInv, SubsInv
  <2> HIDE DEF x
  <2>5. SubmitHolds(x)
    BY <2>1, <2>3 DEF SubmitHolds
  <2>6. SubsInv'
    BY <2>2, <2>4, <2>5, SubSet DEF IInv
  <2>7. NumbersInv'
    BY <2>3, <2>4, NumbersSet DEF FindCard, IInv
  <2> QED
    BY <1>1, <2>6, <2>7, OnlySubmit DEF FindCard
<1> QED
  BY <1>2, <1>3 DEF FindCard

LEMMA NextNumberInv ==
    ASSUME IInv, NEW s \in Submitter, NextNumber(s)
    PROVE  IInv'
<1> DEFINE x == [[sub[s] EXCEPT !.pc = "workflow"] EXCEPT !.number = nextNumber]
<1>1. sub[s] \in SubmitRecord /\ SubmitHolds(sub[s]) /\ sub[s].pc = "number"
  BY DEF NextNumber, Waits, IInv, SubsInv
<1>2. nextNumber \in Nat /\ nextNumber' = nextNumber + 1
  BY DEF NextNumber, IInv, NumbersInv
<1>3. x \in SubmitRecord
  BY <1>1, <1>2 DEF SubmitRecord
<1>4. /\ x.pc = "workflow" /\ x.number = nextNumber
      /\ x.schema = sub[s].schema /\ x.form = sub[s].form
      /\ x.metadata = sub[s].metadata
  BY <1>1 DEF SubmitRecord
<1>5. sub' = [sub EXCEPT ![s] = x]
  BY DEF NextNumber, IInv, SubsInv
<1> HIDE DEF x
<1>6. SubmitHolds(x)
  BY <1>1, <1>4 DEF SubmitHolds
<1>7. SubsInv'
  BY <1>3, <1>5, <1>6, SubSet DEF IInv
<1>8. RequestsInv'
  BY DEF NextNumber, IInv, RequestsInv
<1>9. NumbersInv'
  <2>1. /\ sub'[s] = x
        /\ \A t \in Submitter : t # s => sub'[t] = sub[t]
    BY <1>5 DEF IInv, SubsInv
  <2>2. UNCHANGED requests
    BY DEF NextNumber
  <2>3. \A t \in Submitter : sub[t].number \in Nat
    BY DEF IInv, SubsInv, SubmitRecord
  <2>4. \A t \in Submitter : t # s /\ Numbered(t)' =>
            Numbered(t) /\ sub'[t].number = sub[t].number
    BY <2>1 DEF Numbered
  <2>5. \A q \in requests : q.number \in Nat /\ q.number < nextNumber
    BY DEF IInv, NumbersInv
  <2>6. ASSUME NEW t \in Submitter, Numbered(t)'
        PROVE  /\ sub'[t].number < nextNumber'
               /\ \A q \in requests' : q.number # sub'[t].number
               /\ \A u \in Submitter : Numbered(u)' /\ u # t =>
                      sub'[u].number # sub'[t].number
    <3>1. \A u \in Submitter : u # s /\ Numbered(u)' =>
              sub'[u].number < nextNumber /\ sub'[u].number \in Nat
      BY <2>1, <2>3, <2>4 DEF IInv, NumbersInv
    <3>2. CASE t = s
      BY <3>1, <3>2, <1>2, <1>4, <2>1, <2>2, <2>5
    <3>3. CASE t # s
      <4>1. Numbered(t) /\ sub'[t].number = sub[t].number
        BY <3>3, <2>4, <2>6
      <4>2. \A u \in Submitter : u # s /\ Numbered(u)' /\ u # t =>
                sub'[u].number # sub'[t].number
        BY <4>1, <2>4 DEF IInv, NumbersInv
      <4>3. sub'[s].number # sub'[t].number
        BY <3>1, <3>3, <2>6, <1>2, <1>4, <2>1
      <4>4. \A q \in requests' : q.number # sub'[t].number
        BY <4>1, <2>2 DEF IInv, NumbersInv
      <4> QED
        BY <3>1, <3>3, <4>2, <4>3, <4>4, <2>6, <1>2
    <3> QED
      BY <3>2, <3>3
  <2>7. \A q \in requests' : q.number \in Nat /\ q.number < nextNumber'
    BY <2>2, <2>5, <1>2
  <2>8. nextNumber' \in Nat
    BY <1>2
  <2>9. \A q, r \in requests' : q.number = r.number => q = r
    BY <2>2 DEF IInv, NumbersInv
  <2> QED
    BY <2>6, <2>7, <2>8, <2>9 DEF NumbersInv
<1> QED
  BY <1>7, <1>8, <1>9, OnlySubmit DEF NextNumber

LEMMA ChooseWorkflowInv ==
    ASSUME IInv, NEW s \in Submitter, ChooseWorkflow(s)
    PROVE  IInv'
<1>0. PICK found \in Sorted({w \in Workflow : /\ workflows[w] # None
                                              /\ workflows[w].ofLine
                                              /\ workflows[w].active}) :
          sub' = [sub EXCEPT ![s].pc = "save",
                     ![s].workflow = WorkflowForRouting(found, sub[s].metadata)]
  BY DEF ChooseWorkflow
<1> DEFINE chosen == WorkflowForRouting(found, sub[s].metadata)
           x == [[sub[s] EXCEPT !.pc = "save"] EXCEPT !.workflow = chosen]
<1>1. sub[s] \in SubmitRecord /\ SubmitHolds(sub[s]) /\ sub[s].pc = "workflow"
  BY DEF ChooseWorkflow, Waits, IInv, SubsInv
<1>2. chosen \in Workflow \cup {None}
  BY FirstMatch DEF IInv
<1>3. sub' = [sub EXCEPT ![s] = x]
  BY <1>0 DEF IInv, SubsInv
<1> HIDE DEF chosen
<1>4. x \in SubmitRecord
  BY <1>1, <1>2 DEF SubmitRecord
<1>5. /\ x.pc = "save" /\ x.number = sub[s].number
      /\ x.schema = sub[s].schema /\ x.form = sub[s].form
      /\ x.metadata = sub[s].metadata
  BY <1>1 DEF SubmitRecord
<1> HIDE DEF x
<1>6. SubmitHolds(x)
  BY <1>1, <1>5 DEF SubmitHolds
<1>7. SubsInv'
  BY <1>3, <1>4, <1>6, SubSet DEF IInv
<1>8. NumbersInv'
  BY <1>1, <1>3, <1>5, NumbersSet DEF ChooseWorkflow, IInv, Numbered
<1>9. RequestsInv'
  BY DEF ChooseWorkflow, IInv, RequestsInv
<1> QED
  BY <1>7, <1>8, <1>9, OnlySubmit DEF ChooseWorkflow

LEMMA SaveRequestInv ==
    ASSUME IInv, NEW s \in Submitter, SaveRequest(s)
    PROVE  IInv'
<1> DEFINE new == [number |-> sub[s].number, schema |-> sub[s].schema,
                   form |-> sub[s].form, metadata |-> sub[s].metadata]
<1>1. /\ sub[s] \in SubmitRecord /\ SubmitHolds(sub[s]) /\ sub[s].pc = "save"
      /\ sub[s].number \in Nat
  BY DEF SaveRequest, Waits, IInv, SubsInv, SubmitRecord
<1>2. /\ new.number = sub[s].number /\ new.schema = sub[s].schema
      /\ new.form = sub[s].form /\ new.metadata = sub[s].metadata
  OBVIOUS
<1>3. /\ requests' = requests \cup {new}
      /\ sub' = [sub EXCEPT ![s] = IdleSubmit]
      /\ nextNumber' = nextNumber
  BY DEF SaveRequest, Drops
<1> HIDE DEF new
<1>4. SubsInv'
  BY <1>3, IdleSubmitHolds, SubSet DEF IInv
<1>5. RequestsInv'
  BY <1>1, <1>2, <1>3 DEF IInv, RequestsInv, SubmitHolds
<1>6. NumbersInv'
  <2>1. \A t \in Submitter : Numbered(t)' =>
            Numbered(t) /\ t # s /\ sub'[t] = sub[t]
    BY <1>3 DEF IInv, SubsInv, Numbered, IdleSubmit
  <2>2. /\ new.number < nextNumber /\ new.number \in Nat
        /\ \A q \in requests : q.number # new.number
        /\ \A t \in Submitter : Numbered(t) /\ t # s =>
               sub[t].number # new.number
    BY <1>1, <1>2 DEF IInv, NumbersInv, Numbered
  <2>3. \A q \in requests' : q.number \in Nat /\ q.number < nextNumber'
    BY <1>3, <2>2 DEF IInv, NumbersInv
  <2>4. \A q, r \in requests' : q.number = r.number => q = r
    BY <1>3, <2>2 DEF IInv, NumbersInv
  <2>5. ASSUME NEW t \in Submitter, Numbered(t)'
        PROVE  /\ sub'[t].number < nextNumber'
               /\ \A q \in requests' : q.number # sub'[t].number
               /\ \A u \in Submitter : Numbered(u)' /\ u # t =>
                      sub'[u].number # sub'[t].number
    BY <1>3, <2>1, <2>2, <2>5 DEF IInv, NumbersInv
  <2>6. nextNumber' \in Nat
    BY <1>3 DEF IInv, NumbersInv
  <2> QED
    BY <2>3, <2>4, <2>5, <2>6 DEF NumbersInv
<1> QED
  BY <1>4, <1>5, <1>6, OnlySubmit DEF SaveRequest

LEMMA SubmitStepInv ==
    ASSUME IInv, NEW s \in Submitter, SubmitStep(s)
    PROVE  IInv'
BY SubmitInv, FindCardInv, NextNumberInv, ChooseWorkflowInv, SaveRequestInv
   DEF SubmitStep

\* The process stops: calls and submissions are forgotten, rows stay.
LEMMA CrashInv ==
    ASSUME IInv, Crash
    PROVE  IInv'
<1>1. RowsInv'
  BY RowsKept DEF Crash, IInv
<1>2. EditsInv'
  BY IdleEditHolds DEF Crash, EditsInv
<1>3. SubsInv'
  BY IdleSubmitHolds DEF Crash, SubsInv
<1>4. RequestsInv'
  BY DEF Crash, IInv, RequestsInv
<1>5. NumbersInv'
  <2>1. \A s \in Submitter : ~Numbered(s)'
    BY DEF Crash, Numbered, IdleSubmit
  <2> QED
    BY <2>1, NumbersKept DEF Crash, IInv
<1> QED
  BY <1>1, <1>2, <1>3, <1>4, <1>5 DEF IInv

LEMMA StepInv == IInv /\ [Next]_vars => IInv'
<1> SUFFICES ASSUME IInv, [Next]_vars PROVE IInv'
  OBVIOUS
<1>1. CASE Next
  BY <1>1, EditCatalogInv, SubmitStepInv, CrashInv DEF Next
<1>2. CASE UNCHANGED vars
  <2>1. RowsInv' /\ EditsInv'
    BY <1>2, RowsKept, EditsKept DEF vars, IInv
  <2> QED
    BY <1>2, <2>1, OnlyEdit DEF vars
<1> QED
  BY <1>1, <1>2

THEOREM Invariance == Spec => []IInv
BY InitInv, StepInv, PTL DEF Spec

----------------------------------------------------------------------------
(* Rows, calls and submissions stay well formed and no two requests have    *)
(* one number, whatever calls end half way (catalog.service.ts,             *)
(* workflow.service.ts, business-line.service.ts, request.service.ts).      *)
THEOREM CatalogTyped == Spec => []TypeOK
<1>1. IInv => TypeOK
  <2> SUFFICES ASSUME IInv PROVE TypeOK
    OBVIOUS
  <2>1. /\ cards \in [Card -> CardRow \cup {None}]
        /\ steps \subseteq {c \in Card : cards[c] # None}
        /\ \A w \in Workflow : workflows[w] # None => workflows[w] \in WorkflowRow
        /\ lineActive \in BOOLEAN
    BY DEF IInv, RowsInv
  <2>2. /\ \A q \in requests :
               /\ q.schema \in Schemas /\ q.form \in Form /\ q.metadata \in Form
               /\ q.number < nextNumber
        /\ \A q, r \in requests : q.number = r.number => q = r
    BY DEF IInv, RequestsInv, NumbersInv
  <2>3. \A e \in Editor :
            editing[e].pc \in {"idle", "steps", "clear", "update", "workflow",
                               "line"}
    BY DEF IInv, EditsInv, EditRecord
  <2>4. \A s \in Submitter :
            /\ sub[s].pc \in {"idle", "card", "number", "workflow", "save"}
            /\ sub[s].workflow \in Workflow \cup {None}
    BY DEF IInv, SubsInv, SubmitRecord
  <2> QED
    BY <2>1, <2>2, <2>3, <2>4 DEF TypeOK
<1> QED
  BY <1>1, Invariance, PTL

(* A required field that the stored answers show is among them, unless a    *)
(* default filled in an answer the field's conditions look at, also when    *)
(* card and schema are edited between validation and save (submitRequest).  *)
THEOREM StoredFormsComplete == Spec => []StoredFormComplete
<1>1. IInv => StoredFormComplete
  BY DEF IInv, RequestsInv, Complete, StoredFormComplete
<1> QED
  BY <1>1, Invariance, PTL

\* What one step may do to the columns of the cards.
OnlyGivenColumns ==
    \A c \in Card :
        cards[c] # None =>
            \A column \in DOMAIN cards[c] :
                cards'[c][column] # cards[c][column] =>
                    \E e \in Editor :
                        /\ editing[e].target = c /\ editing[e].op = "update"
                        /\ column \in DOMAIN editing[e].dto
                        /\ cards'[c][column] = editing[e].dto[column]

(* Two administrators who update different columns of one card both get     *)
(* what they asked for: a column changes only to what a pending update      *)
(* gives for that very column (updateRequestCard).                          *)
THEOREM UpdatesTouchTheirColumns == Spec => OnlyGivenColumnsChange
<1>1. IInv /\ [Next]_vars => [OnlyGivenColumns]_vars
  <2> SUFFICES ASSUME IInv, Next,
                      NEW c \in Card, cards[c] # None,
                      NEW column \in DOMAIN cards[c],
                      cards'[c][column] # cards[c][column]
               PROVE  \E e \in Editor :
                          /\ editing[e].target = c /\ editing[e].op = "update"
                          /\ column \in DOMAIN editing[e].dto
                          /\ cards'[c][column] = editing[e].dto[column]
    BY DEF OnlyGivenColumns
  <2>1. cards' # cards
    OBVIOUS
  <2>2. \/ \E e \in Editor, d \in Card, row \in CardRows, withSteps \in BOOLEAN :
               CreateRequestCard(e, d, row, withSteps)
        \/ \E e \in Editor : UpdateRequestCard(e)
    <3>1. ASSUME NEW s \in Submitter, SubmitStep(s)
          PROVE  FALSE
      BY <2>1, <3>1 DEF SubmitStep, Submit, FindCard, NextNumber,
                        ChooseWorkflow, SaveRequest
    <3>2. ~Crash
      BY <2>1 DEF Crash
    <3>3. PICK e \in Editor : EditCatalog(e)
      BY <3>1, <3>2 DEF Next
    <3> QED
      BY <2>1, <3>3 DEF EditCatalog, LoadRequestCard, CreateApprovalSteps,
            ClearApprovalSteps, CreateWorkflow, LoadWorkflow, SaveWorkflow,
            LoadLine, SaveLine, EditFails
  <2>3. ASSUME NEW e \in Editor, NEW d \in Card, NEW row \in CardRows,
               NEW withSteps \in BOOLEAN, CreateRequestCard(e, d, row, withSteps)
        PROVE  FALSE
    BY <2>3 DEF CreateRequestCard, IInv, RowsInv
  <2>4. ASSUME NEW e \in Editor, UpdateRequestCard(e)
        PROVE  \E d \in Editor :
                   /\ editing[d].target = c /\ editing[d].op = "update"
                   /\ column \in DOMAIN editing[d].dto
                   /\ cards'[c][column] = editing[d].dto[column]
    <3>1. editing[e].pc = "update" /\ EditHolds(editing[e], cards)
      BY <2>4 DEF UpdateRequestCard, Resumes, IInv, EditsInv
    <3>2. editing[e].op = "update" /\ editing[e].target \in Card
      BY <3>1 DEF EditHolds
    <3>3. cards' = [cards EXCEPT ![editing[e].target] =
                        Updated(cards[editing[e].target], editing[e].dto,
                                editing[e].row)]
      BY <2>4 DEF UpdateRequestCard
    <3>4. editing[e].target = c
      BY <3>2, <3>3 DEF IInv, RowsInv
    <3>5. cards'[c][column] = IF column \in DOMAIN editing[e].dto
                              THEN editing[e].dto[column] ELSE cards[c][column]
      BY <3>3, <3>4 DEF IInv, RowsInv, Updated
    <3> QED
      BY <3>2, <3>4, <3>5
  <2> QED
    BY <2>2, <2>3, <2>4
<1>2. OnlyGivenColumnsChange <=> [][OnlyGivenColumns]_vars
  BY DEF OnlyGivenColumnsChange, OnlyGivenColumns
<1> QED
  BY <1>1, <1>2, Invariance, PTL DEF Spec

\* What one step may do to the workflow of a submission.
FirstMatching ==
    \A s \in Submitter :
        /\ sub[s].pc = "workflow" /\ sub'[s].pc = "save"
        /\ cards[sub[s].card].workflow = None
        =>
            LET mine      == {w \in Workflow : /\ workflows[w] # None
                                               /\ workflows[w].ofLine
                                               /\ workflows[w].active}
                matching  == {w \in mine :
                                 Matches(workflows[w], sub[s].metadata)}
                chosen    == sub'[s].workflow
                rivals    == IF matching = {} THEN mine ELSE matching
            IN  IF mine = {} THEN chosen = None
                ELSE chosen \in rivals /\ ~\E v \in rivals : Precedes(v, chosen)

(* The workflow a request gets whose card names none is active and of its   *)
(* line; none that matches comes before it, by evaluation order and then by *)
(* name, and none at all when it does not match itself; only a line without *)
(* active workflows gives none (getWorkflowForRouting of                    *)
(* workflow.service.ts).  The proof makes no use of the condition.          *)
THEOREM RequestsGoToTheFirstMatch == Spec => RoutedToFirstMatching
<1>1. IInv /\ [Next]_vars => [FirstMatching]_vars
  <2> SUFFICES ASSUME IInv, Next, NEW s \in Submitter,
                      sub[s].pc = "workflow", sub'[s].pc = "save"
               PROVE  LET mine     == {w \in Workflow : /\ workflows[w] # None
                                                        /\ workflows[w].ofLine
                                                        /\ workflows[w].active}
                          matching == {w \in mine :
                                          Matches(workflows[w], sub[s].metadata)}
                          chosen   == sub'[s].workflow
                          rivals   == IF matching = {} THEN mine ELSE matching
                      IN  IF mine = {} THEN chosen = None
                          ELSE /\ chosen \in rivals
                               /\ ~\E v \in rivals : Precedes(v, chosen)
    BY DEF FirstMatching
  <2>1. ChooseWorkflow(s)
    <3>1. sub \in [Submitter -> SubmitRecord]
      BY DEF IInv, SubsInv
    <3>2. sub'[s] # sub[s]
      OBVIOUS
    <3>3. ASSUME NEW e \in Editor, EditCatalog(e)
          PROVE  FALSE
      BY <3>2, <3>3 DEF EditCatalog, CreateRequestCard, LoadRequestCard,
            CreateApprovalSteps, ClearApprovalSteps, UpdateRequestCard,
            CreateWorkflow, LoadWorkflow, SaveWorkflow, LoadLine, SaveLine,
            EditFails
    <3>4. ~Crash
      BY DEF Crash, IdleSubmit
    <3>5. PICK t \in Submitter : SubmitStep(t)
      BY <3>3, <3>4 DEF Next
    <3>6. sub'[t].pc # "idle" /\ t = s
      BY <3>1, <3>2, <3>5 DEF SubmitStep, Submit, FindCard, NextNumber,
            ChooseWorkflow, SaveRequest, Drops, IdleSubmit
    <3> QED
      BY <3>1, <3>5, <3>6 DEF SubmitStep, Submit, FindCard, NextNumber,
            SaveRequest, Drops, IdleSubmit, Waits
  <2>2. PICK found \in Sorted({w \in Workflow : /\ workflows[w] # None
                                                 /\ workflows[w].ofLine
                                                 /\ workflows[w].active}) :
            sub'[s].workflow = WorkflowForRouting(found, sub[s].metadata)
    <3>1. sub \in [Submitter -> SubmitRecord]
      BY DEF IInv, SubsInv
    <3>2. sub[s] \in SubmitRecord
      BY <3>1
    <3> QED
      BY <2>1, <3>1, <3>2 DEF ChooseWorkflow, SubmitRecord
  <2> QED
    BY <2>2, FirstMatch DEF IInv
<1>2. RoutedToFirstMatching <=> [][FirstMatching]_vars
  BY DEF RoutedToFirstMatching, FirstMatching
<1> QED
  BY <1>1, <1>2, Invariance, PTL DEF Spec
=============================================================================
