\* Two handlers work on calls, mails and edits of templates and channels, three in all.
SPECIFICATION Spec

CONSTANTS
    None = None
    k1 = k1
    k2 = k2
    m1 = m1
    m2 = m2
    h1 = h1
    h2 = h2
    s1 = s1
    s2 = s2
    l1 = l1
    l2 = l2
    Case <- MCCase
    Existing <- MCExisting
    Targets = {"InProgress", "Closed"}
    Handler <- MCHandler
    Message <- MCMessage
    Refers <- MCRefers
    Subject <- MCSubject
    Channel <- TwoChannels
    Made <- TwoChannels
    Line <- TwoLines
    Key = "status.changed"
    MaxCalls = 3

SYMMETRY Interchangeable

INVARIANTS
    TypeOK
    StatusIsTold
    CommentedOnce
    LinkedIsCommented
    ThreadIsFollowed
    MailsUseAnsweredEdit
    OneDefaultChannel

CHECK_DEADLOCK FALSE
