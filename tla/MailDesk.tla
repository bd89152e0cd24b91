------------------------------ MODULE MailDesk ------------------------------
(***************************************************************************)
(* The mail side of the case desk (src/modules/email, src/modules/notify): *)
(* mails coming in become comments of cases, and events of cases become    *)
(* mails, rendered from templates that are cached in memory.               *)
(*                                                                         *)
(* Mails come in through the administrators' simulate route; the polling   *)
(* of mailboxes fetches nothing yet.  A mail no case is found for ends at  *)
(* the routing rules, which fail: they ask the channel for a business line *)
(* that is not loaded with it.  The template is the one of a business line *)
(* and key; the other ones have rows and cache entries of their own.       *)
(***************************************************************************)
EXTENDS CaseDesk

CONSTANTS
    Message,
    Refers,      \* the messages each message names in references and inReplyTo
    Subject,     \* the case whose number is in its subject, or None
    Key,         \* the kind of event the template is for
    Channel,     \* the channels mail comes in and goes out through
    Made,        \* those there are from the start, for mail coming in
    Line         \* the business lines the channels are of

ASSUME MessageAssumption ==
    /\ Refers \in [Message -> SUBSET Message]
    /\ Subject \in [Message -> Case \cup {None}]
    /\ Key \in EventType /\ None \notin Message
ASSUME ChannelAssumption == Made \subseteq Channel /\ None \notin Line

VARIABLES
    row,         \* the row of each message: the call that saved it, channel, case
    comment,     \* the comments of messages, with the call that made each
    gone,        \* rows of messages deleted with their channel (history)
    unthreaded,  \* calls that knew a message without a case, or none (history)
    template,    \* the row of the template: the call it is of, and how often saved
    cache,       \* the version of the template in memory, or None
    notice,      \* notifications of Key under way
    answered,    \* an answered edit no older version is being fetched across (history)
    channel,     \* the row of each channel
    moved,       \* lines that a default was moved to from another line or kind (history)
    overlapped   \* two channel edits were under way at the same time (history)

mailVars == << row, comment, gone, unthreaded >>
templateVars == << template, cache, notice, answered >>
channelVars == << channel, moved, overlapped >>
vars == << caseVars, mailVars, templateVars, channelVars >>

NoRow == [id |-> 0, channel |-> None, case |-> None]

Init ==
    /\ CaseInit
    /\ row = [m \in Message |-> NoRow]
    /\ comment = {} /\ gone = {} /\ unthreaded = {}
    /\ template = [stored |-> TRUE, id |-> 0, version |-> 0]
    /\ cache = None
    /\ notice = {}
    /\ answered = 0
    /\ \E l \in Line :
         channel = [c \in Channel |-> IF c \in Made
                                     THEN [NoChannel EXCEPT !.stored = TRUE, !.line = l]
                                     ELSE NoChannel]
    /\ moved = {} /\ overlapped = FALSE

-----------------------------------------------------------------------------
(* Mails coming in (email-ingest.worker.ts). *)

Linked(m) == row[m].case # None

\* processMessage looks whether the message was seen before.
Deliver(h) ==
    /\ \E m \in Message, c \in {x \in Channel : channel[x].stored} :
         Begins(h, IF row[m].id = 0
                   THEN [Idle EXCEPT !.pc = "mail", !.mail = m, !.channel = c]
                   ELSE Idle)
    /\ UNCHANGED << status, audit, appending, lost, mailVars >>

\* Mutant: the message id is not unique in the table.
SaveMessageAgain(h) ==
    LET r == handler[h] IN
    /\ r.pc = "mail"
    /\ row' = [row EXCEPT ![r.mail] = [id |-> r.id, channel |-> r.channel, case |-> None]]
    /\ Goes(h, [r EXCEPT !.pc = "thread"])
    /\ UNCHANGED << status, audit, appending, lost, comment, gone, unthreaded >>

(* Of two deliveries of one message the second fails on the unique index;   *)
(* one on a channel that was deleted since fails on its foreign key.        *)
SaveMessage(h) ==
    LET r == handler[h] IN
    /\ r.pc = "mail"
    /\ IF row[r.mail].id = 0 /\ channel[r.channel].stored
       THEN /\ row' = [row EXCEPT ![r.mail] =
                         [id |-> r.id, channel |-> r.channel, case |-> None]]
            /\ Goes(h, [r EXCEPT !.pc = "thread"])
       ELSE UNCHANGED row /\ Ends(h)
    /\ UNCHANGED << status, audit, appending, lost, comment, gone, unthreaded >>

\* Mutant: a case number in the subject comes first.
FindCaseBySubject(m, r) ==
    IF Subject[m] # None THEN Subject[m]
    ELSE IF r # None /\ Linked(r) THEN row[r].case ELSE None

\* The case of the message that was found, or else the one in the subject.
FindCase(m, r) == IF r # None /\ Linked(r) THEN row[r].case ELSE Subject[m]

(* One of the messages it refers to is found, whichever the database gives; *)
(* the case is looked up, and the mail without one is left as it is.        *)
Thread(h) ==
    LET m == handler[h].mail
        known == {r \in Refers[m] : row[r].id # 0}
    IN
    /\ handler[h].pc = "thread"
    /\ \E r \in IF known = {} THEN {None} ELSE known :
         LET k == FindCase(m, r) IN
         IF k # None /\ status[k] # None
         THEN Goes(h, [handler[h] EXCEPT !.pc = "comment", !.case = k])
         ELSE Ends(h)
    /\ unthreaded' = IF known # {} /\ \A r \in known : Linked(r) THEN unthreaded
                     ELSE unthreaded \cup {handler[h].id}
    /\ UNCHANGED << status, audit, appending, lost, row, comment, gone >>

CommentOf(h) == [id |-> handler[h].id, mail |-> handler[h].mail, case |-> handler[h].case]

\* Of all rows only the one of this call is linked, if it is still there.
LinkRow(h) == IF row[handler[h].mail].id = handler[h].id
              THEN [row EXCEPT ![handler[h].mail].case = handler[h].case] ELSE row

\* Mutant: the message is linked to its case before the comment is saved.
AddCommentLast(h) ==
    /\ handler[h].pc = "comment"
    /\ IF row[handler[h].mail] # LinkRow(h)[handler[h].mail]
       THEN row' = LinkRow(h) /\ UNCHANGED comment /\ Goes(h, handler[h])
       ELSE comment' = comment \cup {CommentOf(h)} /\ UNCHANGED row /\ Ends(h)
    /\ UNCHANGED << status, audit, appending, lost, gone, unthreaded >>

AddComment(h) ==
    /\ handler[h].pc = "comment"
    /\ comment' = comment \cup {CommentOf(h)}
    /\ Goes(h, [handler[h] EXCEPT !.pc = "link"])
    /\ UNCHANGED << status, audit, appending, lost, row, gone, unthreaded >>

LinkMessage(h) ==
    /\ handler[h].pc = "link"
    /\ row' = LinkRow(h)
    /\ Ends(h)
    /\ UNCHANGED << status, audit, appending, lost, comment, gone, unthreaded >>

-----------------------------------------------------------------------------
(* The template and its cache (template.service.ts). *)

(* create goes straight to its save; update reads the row, and fails when   *)
(* there is none.                                                           *)
EditTemplate(h) ==
    /\ \/ Begins(h, [Idle EXCEPT !.pc = "template", !.template = begun + 1])
       \/ /\ template.stored
          /\ Begins(h, [Idle EXCEPT !.pc = "template", !.template = template.id])
    /\ UNCHANGED << status, audit, appending, lost, templateVars >>

(* Business line and key are unique: the save fails when there is another   *)
(* row of them.  A row deleted since it was read is inserted again.  The    *)
(* answer is taken up later.                                                *)
SaveTemplate(h) ==
    LET r == handler[h] IN
    /\ r.pc = "template"
    /\ IF template.stored /\ template.id # r.template
       THEN Ends(h) /\ UNCHANGED template
       ELSE /\ template' = [stored |-> TRUE, id |-> r.template,
                            version |-> template.version + 1]
            /\ Goes(h, [r EXCEPT !.pc = "saved"])
    /\ UNCHANGED << status, audit, appending, lost, cache, notice, answered >>

\* A deleted template stays in the cache.
RemoveTemplate(h) ==
    /\ template.stored
    /\ Begins(h, Idle)
    /\ template' = [template EXCEPT !.stored = FALSE]
    /\ UNCHANGED << status, audit, appending, lost, cache, notice, answered >>

Fetching == {n \in notice : n.pc = "fetched"}

\* Mutant: the edit leaves the cache as it is.
InvalidateNothing(h) ==
    /\ handler[h].pc = "saved"
    /\ answered' = IF \A n \in Fetching : n.version = template.version
                   THEN template.version ELSE answered
    /\ Ends(h)
    /\ UNCHANGED << status, audit, appending, lost, template, cache, notice >>

Invalidate(h) ==
    /\ handler[h].pc = "saved"
    /\ cache' = None
    /\ answered' = IF \A n \in Fetching : n.version = template.version
                   THEN template.version ELSE answered
    /\ Ends(h)
    /\ UNCHANGED << status, audit, appending, lost, template, notice >>

-----------------------------------------------------------------------------
(* The channels mail is sent through (channels-admin.service.ts). *)

ChannelRow == [stored : {TRUE}, line : Line, smtp : BOOLEAN, default : BOOLEAN]

\* The channels mail of line l is sent through, one of which is taken.
IsDefault(e) == e.stored /\ e.smtp /\ e.default
Defaults(l) == {c \in Channel : channel[c].line = l /\ IsDefault(channel[c])}

EditsChannel(h) == handler[h].pc \in {"clear", "clearing", "channel"}

(* create and update: a channel that asks to be the default is an SMTP one, *)
(* and first clears the defaults of the line it is of, which is the line it *)
(* was of before an update; without asking it keeps being one or not.       *)
EditChannel(h) ==
    /\ \E c \in Channel, new \in ChannelRow, asks \in BOOLEAN :
         LET e == channel[c]
             creates == e = NoChannel
             clears == IF creates THEN new.line ELSE e.line
         IN
         /\ e.stored \/ creates
         /\ IF asks THEN new.smtp /\ new.default ELSE new.default => e.default
         /\ Begins(h, [Idle EXCEPT !.pc = IF asks THEN "clear" ELSE "channel",
                                   !.channel = c, !.edit = new, !.line = clears])
         /\ moved' = IF IsDefault(new) /\ ~(IF asks THEN clears = new.line
                                           ELSE IsDefault(e) /\ e.line = new.line)
                     THEN moved \cup {new.line} ELSE moved
    /\ overlapped' = (overlapped \/ \E g \in Handler : EditsChannel(g))
    /\ UNCHANGED << status, audit, appending, lost, channel >>

\* Mutant: update clears the line of the dto, which names none.
FindDefaultsOfNone(h) ==
    /\ handler[h].pc = "clear"
    /\ Goes(h, [handler[h] EXCEPT !.pc = "clearing"])
    /\ UNCHANGED << status, audit, appending, lost, channelVars >>

FindDefaults(h) ==
    /\ handler[h].pc = "clear"
    /\ Goes(h, [handler[h] EXCEPT !.pc = "clearing", !.defaults = Defaults(handler[h].line)])
    /\ UNCHANGED << status, audit, appending, lost, channelVars >>

\* The rows that were found are saved one by one, as they were found.
ClearDefault(h) ==
    /\ handler[h].pc = "clearing"
    /\ \E c \in handler[h].defaults :
         /\ channel' = [channel EXCEPT ![c] = [stored |-> TRUE, line |-> handler[h].line,
                                              smtp |-> TRUE, default |-> FALSE]]
         /\ Goes(h, [handler[h] EXCEPT !.defaults = @ \ {c}])
    /\ UNCHANGED << status, audit, appending, lost, moved, overlapped >>

SaveChannel(h) ==
    /\ handler[h].pc \in {"clearing", "channel"} /\ handler[h].defaults = {}
    /\ channel' = [channel EXCEPT ![handler[h].channel] = handler[h].edit]
    /\ Ends(h)
    /\ UNCHANGED << status, audit, appending, lost, moved, overlapped >>

\* The messages that came in through it go with it.
RemoveChannel(h) ==
    /\ Begins(h, Idle)
    /\ \E c \in {x \in Channel : channel[x].stored} :
         LET its == {m \in Message : row[m].channel = c} IN
         /\ channel' = [channel EXCEPT ![c].stored = FALSE]
         /\ row' = [m \in Message |-> IF m \in its THEN NoRow ELSE row[m]]
         /\ gone' = gone \cup {row[m].id : m \in its}
    /\ UNCHANGED << status, audit, appending, lost, comment, unthreaded, moved, overlapped >>

-----------------------------------------------------------------------------
(* Notifications (notify.worker.ts, email-sender.service.ts). *)

Moves(n, to) == notice' = (notice \ {n}) \cup {to}
Drops(n) == notice' = notice \ {n}

\* The case and the user were read, and render looks into the cache.
Render(n) ==
    /\ n.pc = "start"
    /\ Moves(n, IF cache = None THEN [n EXCEPT !.pc = "fetch", !.floor = answered]
                ELSE [n EXCEPT !.pc = "send", !.floor = answered, !.version = cache])
    /\ UNCHANGED << template, cache, answered >>

\* The database reads the row; a missing template is an error.
Fetch(n) ==
    /\ n.pc = "fetch"
    /\ IF template.stored
       THEN Moves(n, [n EXCEPT !.pc = "fetched", !.version = template.version])
       ELSE Drops(n)
    /\ UNCHANGED << template, cache, answered >>

Keep(n) ==
    /\ n.pc = "fetched"
    /\ cache' = n.version
    /\ Moves(n, [n EXCEPT !.pc = "send"])
    /\ UNCHANGED << template, answered >>

\* The mail goes through a default channel; without one the sending fails.
Send(n) ==
    /\ n.pc = "send"
    /\ Drops(n)
    /\ UNCHANGED << template, cache, answered >>

(* A step before fails, or there is nobody to send to; nothing is tried     *)
(* again.                                                                   *)
GiveUp(n) == n.pc # "send" /\ Drops(n) /\ UNCHANGED << template, cache, answered >>

Notify(n) == Render(n) \/ Fetch(n) \/ Keep(n) \/ Send(n) \/ GiveUp(n)

\* A listener of the worker starts with each event of Key.
NoticesOf(A) ==
    {[id |-> a.id, pc |-> "start", version |-> None, floor |-> 0] :
       a \in {x \in A : x.event.type = Key}}

-----------------------------------------------------------------------------
\* The process stops: what is in memory goes.
Crash ==
    /\ \E h \in Handler : handler[h].pc # "idle"
    /\ handler' = [h \in Handler |-> Idle]
    /\ appending' = {}
    /\ lost' = lost \cup appending \cup UNION {Unsaid(h) : h \in Handler}
    /\ cache' = None
    /\ notice' = {}
    /\ answered' = 0
    /\ UNCHANGED << status, audit, begun, template, mailVars, channelVars >>

Next ==
    \/ /\ CaseStep
       /\ notice' = notice \cup NoticesOf(appending' \ appending)
       /\ UNCHANGED << mailVars, template, cache, answered, channelVars >>
    \/ \E h \in Handler :
         \/ /\ Deliver(h) \/ SaveMessage(h) \/ Thread(h) \/ AddComment(h) \/ LinkMessage(h)
            /\ UNCHANGED << templateVars, channelVars >>
         \/ /\ \/ EditTemplate(h) \/ SaveTemplate(h) \/ RemoveTemplate(h) \/ Invalidate(h)
            /\ UNCHANGED << mailVars, channelVars >>
         \/ /\ EditChannel(h) \/ FindDefaults(h) \/ ClearDefault(h) \/ SaveChannel(h)
            /\ UNCHANGED << mailVars, templateVars >>
         \/ RemoveChannel(h) /\ UNCHANGED templateVars
    \/ (\E n \in notice : Notify(n)) /\ UNCHANGED << caseVars, mailVars, channelVars >>
    \/ Crash

Spec == Init /\ [][Next]_vars

-----------------------------------------------------------------------------
(* What is promised. *)

TypeOK ==
    /\ CaseTypeOK
    /\ handler \in [Handler ->
         [pc : {"idle", "save", "write", "emit", "mail", "thread", "comment", "link",
                "template", "saved", "clear", "clearing", "channel"},
          id : 0..MaxCalls, case : Case \cup {None}, found : CaseStatus \cup {None},
          new : CaseStatus \cup {None}, tells : BOOLEAN, mail : Message \cup {None},
          template : 0..MaxCalls, channel : Channel \cup {None},
          edit : ChannelRow \cup {NoChannel}, line : Line \cup {None},
          defaults : SUBSET Channel]]
    /\ row \in [Message -> [id : 0..MaxCalls, channel : Channel \cup {None},
                            case : Case \cup {None}]]
    /\ comment \subseteq [id : 1..MaxCalls, mail : Message, case : Case]
    /\ gone \subseteq 0..MaxCalls /\ unthreaded \subseteq 1..MaxCalls
    /\ template \in [stored : BOOLEAN, id : 0..MaxCalls, version : Nat]
    /\ cache \in Nat \cup {None}
    /\ notice \subseteq [id : 1..MaxCalls, pc : {"start", "fetch", "fetched", "send"},
                         version : Nat \cup {None}, floor : Nat]
    /\ answered \in Nat
    /\ channel \in [Channel -> [stored : BOOLEAN, line : Line \cup {None},
                                smtp : BOOLEAN, default : BOOLEAN]]
    /\ moved \subseteq Line /\ overlapped \in BOOLEAN

(* However often and however concurrently a message is delivered, whatever  *)
(* fails on the way and whichever channels are deleted with the messages    *)
(* they brought: of two comments of one message, the row of one is gone.    *)
CommentedOnce ==
    \A x, y \in comment : x.mail = y.mail /\ x # y => x.id \in gone \/ y.id \in gone

\* A message is linked only to the case that has its comment.
LinkedIsCommented ==
    \A m \in Message :
       Linked(m) => [id |-> row[m].id, mail |-> m, case |-> row[m].case] \in comment

(* A mail all of whose known references have a case becomes a comment of    *)
(* one of these, whatever case its subject names.                           *)
ThreadIsFollowed ==
    \A x \in comment : x.id \notin unthreaded =>
       \E y \in comment : y.mail \in Refers[x.mail] /\ y.case = x.case

(* A notification rendered after an edit of the template was answered uses  *)
(* that edit or a later one, unless an older row was being fetched across   *)
(* it: that fetch keeps the older row in the cache for good.                *)
MailsUseAnsweredEdit == \A n \in notice : n.pc = "send" => n.version >= n.floor

(* Edits of channels that never overlap leave a business line one default  *)
(* channel at most, even when one of them fails half way; but a line to     *)
(* which a default was moved from another line or kind may have two, and    *)
(* so it may after edits at the same time.                                  *)
OneDefaultChannel ==
    ~overlapped => \A l \in Line \ moved : Cardinality(Defaults(l)) <= 1
=============================================================================
