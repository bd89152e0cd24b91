CONSTANTS
    Editor = {e1, e2}
    Submitter = {s1}
    Card = {c1}
    Workflow = {w1, w2}
    w1 = w1
    w2 = w2
    Field = {kind, detail}
    kind = kind
    detail = detail
    Choice <- MCChoice
    Forms <- MCForms
    CardRows <- MCCardRows
    Schemas <- MCSchemas
    DefaultForms <- MCDefaultForms
    WorkflowRows <- MCWorkflowRows
    WorkflowEdits <- MCWorkflowEdits
    CardEdits <- MCCardEdits
    Absent = Absent
    None = None
    MaxEdits = 2
    MaxRequests = 1
SYMMETRY Symmetric
SPECIFICATION Spec
INVARIANTS
    TypeOK
    StoredFormComplete
PROPERTIES
    OnlyGivenColumnsChange
    RoutedToFirstMatching
CHECK_DEADLOCK FALSE
