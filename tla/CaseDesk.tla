------------------------------ MODULE CaseDesk ------------------------------
(***************************************************************************)
(* Cases as the agents work on them (src/modules/case/case.service.ts) and *)
(* the trail the audit listener keeps of them (src/modules/audit).         *)
(*                                                                         *)
(* A call reads a row and saves the whole of it: the save selects the row  *)
(* again and writes the columns that differ.  The event of it is emitted   *)
(* when the save has answered, and appended to the audit trail by a        *)
(* listener whose failure is only logged.  Handlers, which MailDesk        *)
(* shares, interleave, fail and stop between any two of these steps.       *)
(***************************************************************************)
EXTENDS Naturals, FiniteSets

CONSTANTS
    Case,
    Existing,    \* the cases there are from the start
    Targets,     \* the statuses the calls ask for
    Handler,     \* calls and mails being handled at the same time
    MaxCalls,    \* calls, mails and edits begun in all
    None

ASSUME ExistingAssumption == Existing \subseteq Case
ASSUME CallsAssumption == MaxCalls \in Nat

CaseStatus == {"New", "WaitingApproval", "InProgress", "Pending", "Resolved", "Closed"}

ASSUME TargetsAssumption == Targets \subseteq CaseStatus
ASSUME NoneAssumption == None \notin CaseStatus \cup Case

(* The events the trail is read for here; updates and assignments have rows *)
(* of the same kind.  after is the status that a status event tells.        *)
EventType == {"created", "status.changed"}
Record == [case : Case, type : EventType, after : CaseStatus \cup {None}]
Event(k, type, after) == [case |-> k, type |-> type, after |-> after]

VARIABLES
    status,      \* the column of each case; None before the case is created
    audit,       \* the rows of the audit trail, with the call they are of
    appending,   \* events, with the call they are of, yet to be appended
    handler,     \* the calls under way
    begun,       \* calls, mails and edits begun so far
    lost         \* events that will not be appended any more (history)

caseVars == << status, audit, appending, handler, begun, lost >>

\* The row of a channel that was never there.
NoChannel == [stored |-> FALSE, line |-> None, smtp |-> FALSE, default |-> FALSE]

Idle == [pc |-> "idle", id |-> 0, case |-> None, found |-> None, new |-> None,
         tells |-> FALSE, mail |-> None, template |-> 0, channel |-> None,
         edit |-> NoChannel, line |-> None, defaults |-> {}]

CaseInit ==
    /\ status = [k \in Case |-> IF k \in Existing THEN "New" ELSE None]
    /\ audit = {[id |-> 0, event |-> Event(k, "created", None)] : k \in Existing}
    /\ appending = {}
    /\ handler = [h \in Handler |-> Idle]
    /\ begun = 0
    /\ lost = {}

-----------------------------------------------------------------------------
\* A handler takes up a call: the record of it, with the call's number.
Begins(h, r) ==
    /\ handler[h].pc = "idle" /\ begun < MaxCalls
    /\ begun' = begun + 1
    /\ handler' = [handler EXCEPT ![h] = [r EXCEPT !.id = begun + 1]]
Goes(h, r) == handler' = [handler EXCEPT ![h] = r] /\ UNCHANGED begun
Ends(h) == Goes(h, Idle)

(* The business line is there, and the number comes from a sequence: the    *)
(* row is inserted, and its event is yet to be emitted.                     *)
CreateCase(h) ==
    \E k \in Case :
       /\ status[k] = None
       /\ status' = [status EXCEPT ![k] = "New"]
       /\ Begins(h, [Idle EXCEPT !.pc = "emit", !.case = k, !.tells = TRUE])
       /\ UNCHANGED << audit, appending, lost >>

\* The statuses changeStatus takes a case to (validateStatusTransition).
Allowed(from) ==
    CASE from = "New" -> CaseStatus
      [] from \in {"InProgress", "Pending"} -> CaseStatus \ {"New"}
      [] from = "Resolved" -> CaseStatus \ {"New", "WaitingApproval", "Pending"}
      [] OTHER -> {}

LoadCase(h, k, new, tells) ==
    /\ status[k] # None
    /\ Begins(h, [Idle EXCEPT !.pc = "save", !.case = k, !.new = new, !.tells = tells])
    /\ UNCHANGED << status, audit, appending, lost >>

\* Mutant: the state before is captured by reference, so nothing has changed.
DiffersAliased(new, before) == FALSE

\* Whether updateCase tells of a status; it compares it with the one it read.
Differs(new, before) == new # before

\* Mutant: the status of the dto is assigned even when it is undefined.
LoadForUpdateUndefined(h) ==
    \E k \in Case : \E new \in Targets \cup {None} :
       LoadCase(h, k, new, Differs(new, status[k]))

\* updateCase takes any status, or none; changeStatus an allowed one.
LoadForUpdate(h) ==
    \E k \in Case : \E new \in Targets \cup {status[k]} :
       LoadCase(h, k, new, Differs(new, status[k]))
LoadForChange(h) ==
    \E k \in Case : \E new \in Targets \cap Allowed(status[k]) : LoadCase(h, k, new, TRUE)

\* assignCase saves the row it read with the status it had then.
LoadForAssign(h) == \E k \in Case : LoadCase(h, k, status[k], FALSE)

\* The save selects the row once more.
SelectCase(h) ==
    /\ handler[h].pc = "save"
    /\ Goes(h, [handler[h] EXCEPT !.pc = "write", !.found = status[handler[h].case]])
    /\ UNCHANGED << status, audit, appending, lost >>

\* The status is written when it is not the one that was found.
WriteCase(h) ==
    LET r == handler[h] IN
    /\ r.pc = "write"
    /\ status' = IF r.new = r.found THEN status ELSE [status EXCEPT ![r.case] = r.new]
    /\ Goes(h, [r EXCEPT !.pc = "emit"])
    /\ UNCHANGED << audit, appending, lost >>

\* The events that handler h has yet to emit.
Unsaid(h) ==
    LET r == handler[h] IN
    IF r.pc # "emit" \/ ~r.tells THEN {}
    ELSE {[id |-> r.id, event |-> IF r.new = None THEN Event(r.case, "created", None)
                                  ELSE Event(r.case, "status.changed", r.new)]}

\* The save has answered; the listeners of the event start.
Emit(h) ==
    /\ handler[h].pc = "emit"
    /\ appending' = appending \cup Unsaid(h)
    /\ Ends(h)
    /\ UNCHANGED << status, audit, lost >>

Append ==
    \E a \in appending :
       /\ appending' = appending \ {a}
       /\ audit' = audit \cup {a}
       /\ UNCHANGED << status, handler, begun, lost >>

\* The listener logs the error and keeps nothing.
AppendFails ==
    \E a \in appending :
       /\ appending' = appending \ {a}
       /\ lost' = lost \cup {a}
       /\ UNCHANGED << status, audit, handler, begun >>

(* A database call of a handler fails, or its answer does not arrive; what  *)
(* it did before stays, and nothing is emitted.                             *)
Fails(h) ==
    /\ handler[h].pc # "idle"
    /\ Ends(h)
    /\ lost' = lost \cup Unsaid(h)
    /\ UNCHANGED << status, audit, appending >>

CaseStep ==
    \/ \E h \in Handler :
         \/ CreateCase(h) \/ LoadForUpdate(h) \/ LoadForChange(h) \/ LoadForAssign(h)
         \/ SelectCase(h) \/ WriteCase(h) \/ Emit(h) \/ Fails(h)
    \/ Append \/ AppendFails

-----------------------------------------------------------------------------
Said == [id : 0..MaxCalls, event : Record]

CaseTypeOK ==
    /\ status \in [Case -> CaseStatus \cup {None}]
    /\ \A k \in Existing : status[k] # None
    /\ audit \subseteq Said /\ appending \subseteq Said /\ lost \subseteq Said
    /\ begun \in 0..MaxCalls

Told == audit \cup appending \cup lost \cup UNION {Unsaid(h) : h \in Handler}

(* However calls overlap and overwrite each other's rows, a case is only    *)
(* ever in a status that an event is made of: it is on the trail, on its    *)
(* way there, or a failure or a stop lost it.                               *)
StatusIsTold ==
    \A k \in Case : status[k] \notin {None, "New"} =>
       \E a \in Told : a.event = Event(k, "status.changed", status[k])
=============================================================================
