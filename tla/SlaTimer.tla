------------------------------- MODULE SlaTimer -------------------------------
(***************************************************************************)
(* SLA timers: SlaService creates them when a case is created and stops,   *)
(* pauses and resumes them on the case's events; SlaWorker.tick counts the *)
(* running ones down and breaches those that reach zero.                   *)
(*                                                                         *)
(* One Node.js process: an action is one database operation and the code   *)
(* up to the next await.  setInterval does not wait for the previous tick, *)
(* and every event starts a handler of its own, so any number of them hold *)
(* copies of the same timer, and Repository.save writes back every column  *)
(* of a copy.                                                              *)
(***************************************************************************)
EXTENDS SlaRules, FiniteSets

CONSTANTS
    Case, Target,
    Worker,      \* event handlers that can be in flight at one time
    Ticker,      \* overlapping executions of tick
    None,
    Goal,        \* [Target -> milliseconds]: goalMs
    Rules,       \* [Target -> [start, stop, pause, resume : sets of triggers]]
    Created,     \* the event initForCase evaluates the start triggers on
    Changes,     \* the events CaseService emits for an existing case
    Take,        \* how many running timers a tick takes: 200
    MaxInt,      \* the largest value of an int column: 2^31 - 1
    MaxTime,     \* bound: the clock stops there
    MaxChanges,  \* bound: events after the creation of a case
    MaxFaults    \* bound: crashes and failed saves

ASSUME GoalAssumption == Goal \in [Target -> Nat \ {0}]
ASSUME NoneAssumption == None \notin Case /\ None \notin Target
ASSUME BoundAssumption ==
    Take \in Nat /\ MaxInt \in Nat /\ MaxTime \in Nat /\ MaxChanges \in Nat /\ MaxFaults \in Nat

VARIABLES
    clock,
    targets,   \* table sla_target: "unused", "live", "removed"
    timers,    \* table sla_timer: a function on the pairs that have a row
    opened,    \* the cases that exist
    handlers,  \* initForCase and processSlaEvent in flight
    ticks,     \* executions of tick in flight
    changes,   \* counts events, up to MaxChanges
    faults     \* counts faults, up to MaxFaults

vars == <<clock, targets, timers, opened, handlers, ticks, changes, faults>>

Time == Nat
Pair == Case \X Target
Status == {"Running", "Paused", "Met", "Breached"}
Terminal == {"Met", "Breached"}

\* The columns of sla_timer.  stoppedAt, breachedAt and resumedAt, which only
\* date the changes of status, are left out.
Row == [status : Status, startedAt : Time, lastTickAt : Time, remaining : Int,
        pausedAt : Time \cup {None}, totalPaused : Int]

NewTimer(target, now) ==
    [status |-> "Running", startedAt |-> now, lastTickAt |-> now,
     remaining |-> Goal[target], pausedAt |-> None, totalPaused |-> 0]

\* An int column refuses what does not fit; the save fails.
Storable(row) == row.remaining <= MaxInt /\ row.totalPaused <= MaxInt

\* A handler without a row to save.
NoRow == [status |-> "Running", startedAt |-> 0, lastTickAt |-> 0, remaining |-> 0,
          pausedAt |-> None, totalPaused |-> 0]
IdleHandler == [pc |-> "idle", case |-> None, event |-> Created, todo |-> {},
                target |-> None, now |-> 0, row |-> NoRow]
NoBatch == [t \in {} |-> NoRow]
IdleTick == [pc |-> "idle", now |-> 0, batch |-> NoBatch]

\* findMatchingTriggers, for each target, kind of trigger and event.
Triggered ==
    [target \in Target, action \in {"start", "stop", "pause", "resume"},
     event \in Changes \cup {Created} |-> AnyTrigger(Rules[target][action], event)]

Live == {target \in Target : targets[target] = "live"}

Init ==
    /\ clock = 0
    /\ targets \in [Target -> {"unused", "live"}]
    /\ timers = NoBatch
    /\ opened = {}
    /\ handlers = [w \in Worker |-> IdleHandler]
    /\ ticks = [k \in Ticker |-> IdleTick]
    /\ changes = 0
    /\ faults = 0

-----------------------------------------------------------------------------
(* The event handlers of SlaController. *)

Become(w, h) == handlers' = [handlers EXCEPT ![w] = h]

\* The handler is done with a target and goes on with the others.
Continue(w, target) ==
    LET rest == handlers[w].todo \ {target} IN
    Become(w, IF rest = {} THEN IdleHandler
                           ELSE [handlers[w] EXCEPT !.pc = "next", !.todo = rest,
                                                    !.target = None, !.row = NoRow])

\* CaseService.createCase emits 'case.created' once for each case.
CaseCreated(w, c) ==
    /\ handlers[w].pc = "idle"
    /\ c \notin opened
    /\ opened' = opened \cup {c}
    /\ Become(w, [IdleHandler EXCEPT !.pc = "find", !.case = c])
    /\ UNCHANGED <<clock, targets, timers, ticks, changes, faults>>

CaseChanged(w, c, event) ==
    /\ handlers[w].pc = "idle"
    /\ c \in opened
    /\ changes < MaxChanges
    /\ changes' = changes + 1
    /\ Become(w, [IdleHandler EXCEPT !.pc = "find", !.case = c, !.event = event])
    /\ UNCHANGED <<clock, targets, timers, opened, ticks, faults>>

(* Both handlers load the active targets and take them one after the other; *)
(* initForCase reads the time here, for all the timers it creates.          *)
FindTargets(w) ==
    /\ handlers[w].pc = "find"
    /\ Become(w, IF Live = {} THEN IdleHandler
                 ELSE [handlers[w] EXCEPT !.pc = "next", !.todo = Live,
                                          !.now = IF handlers[w].event = Created THEN clock ELSE 0])
    /\ UNCHANGED <<clock, targets, timers, opened, ticks, changes, faults>>

(* initForCase: skip a target that has a timer or no matching start trigger. *)
FindTimer(w) ==
    LET h == handlers[w] IN
    /\ h.pc = "next" /\ h.event = Created
    /\ \E target \in h.todo :
           IF <<h.case, target>> \in DOMAIN timers
                   \/ ~Triggered[target, "start", Created]
             THEN Continue(w, target)
             ELSE Become(w, [h EXCEPT !.pc = "insert", !.target = target])
    /\ UNCHANGED <<clock, targets, timers, opened, ticks, changes, faults>>

\* The insert fails when its target is gone, and the handler with it.
InsertTimer(w) ==
    LET h == handlers[w]  t == <<h.case, h.target>> IN
    /\ h.pc = "insert"
    /\ IF h.target \in Live /\ t \notin DOMAIN timers
         THEN /\ timers' = [x \in DOMAIN timers \cup {t} |->
                                IF x = t THEN NewTimer(h.target, h.now) ELSE timers[x]]
              /\ Continue(w, h.target)
         ELSE Become(w, IdleHandler) /\ UNCHANGED timers
    /\ UNCHANGED <<clock, targets, opened, ticks, changes, faults>>

\* Mutant: stopTimer(timer, 'Stopped').
StoppedUnmet(row) == [row EXCEPT !.status = "Stopped"]

\* stopTimer, pauseTimer and resumeTimer on the loaded row.
Stopped(row) == [row EXCEPT !.status = "Met"]
Paused(row) == [row EXCEPT !.status = "Paused", !.pausedAt = clock]
TotalPaused(row) ==
    row.totalPaused + (IF row.pausedAt = None THEN 0 ELSE clock - row.pausedAt)
Resumed(row) == [row EXCEPT !.status = "Running", !.totalPaused = TotalPaused(row)]

\* Mutant: without the return for terminal states.
ReactionsUnchecked(target, event, row) ==
    IF Triggered[target, "stop", event] THEN {Stopped(row)} ELSE {}

(* processTargetForEvent: a stop trigger comes before a pause trigger, and *)
(* that before a resume trigger.                                           *)
Reactions(target, event, row) ==
    IF row.status \in Terminal THEN {}
    ELSE IF Triggered[target, "stop", event] THEN {Stopped(row)}
    ELSE IF Triggered[target, "pause", event] /\ row.status = "Running" THEN {Paused(row)}
    ELSE IF Triggered[target, "resume", event] /\ row.status = "Paused" THEN {Resumed(row)}
    ELSE {}

(* An event that comes before the timer is inserted is dropped. *)
LoadTimer(w) ==
    LET h == handlers[w] IN
    /\ h.pc = "next" /\ h.event # Created
    /\ \E target \in h.todo :
           LET t == <<h.case, target>>
               reactions == IF t \in DOMAIN timers THEN Reactions(target, h.event, timers[t])
                                                   ELSE {}
           IN  \/ /\ reactions = {}
                  /\ Continue(w, target)
               \/ \E row \in reactions :
                      Become(w, [h EXCEPT !.pc = "save", !.target = target, !.row = row])
    /\ UNCHANGED <<clock, targets, timers, opened, ticks, changes, faults>>

(* resumeTimer sets pausedAt to undefined, which save leaves as it is in the *)
(* table.  A removed target, or a value that does not fit, fails the save;   *)
(* the exception ends the handler, with the other targets unprocessed.       *)
SaveTimer(w) ==
    LET h == handlers[w]  t == <<h.case, h.target>> IN
    /\ h.pc = "save"
    /\ IF t \in DOMAIN timers /\ Storable(h.row)
         THEN /\ timers' = [timers EXCEPT ![t] =
                               [h.row EXCEPT !.pausedAt = IF h.row.status = "Running"
                                                            THEN timers[t].pausedAt ELSE @]]
              /\ Continue(w, h.target)
         ELSE Become(w, IdleHandler) /\ UNCHANGED timers
    /\ UNCHANGED <<clock, targets, opened, ticks, changes, faults>>

-----------------------------------------------------------------------------
(* SlaWorker.tick. *)

Advance ==
    /\ clock < MaxTime
    /\ clock' = clock + 1
    /\ UNCHANGED <<targets, timers, opened, handlers, ticks, changes, faults>>

\* now is read before the query.
StartTick(k) ==
    /\ ticks[k].pc = "idle"
    /\ ticks' = [ticks EXCEPT ![k] = [@ EXCEPT !.pc = "find", !.now = clock]]
    /\ UNCHANGED <<clock, targets, timers, opened, handlers, changes, faults>>

Running == {t \in DOMAIN timers : timers[t].status = "Running"}

(* Up to Take running timers, in no particular order. *)
FindRunning(k) ==
    /\ ticks[k].pc = "find"
    /\ \E found \in SUBSET Running :
           /\ Cardinality(found) <= Take
           /\ found = Running \/ Cardinality(found) = Take
           /\ ticks' = [ticks EXCEPT ![k] =
                           IF found = {} THEN IdleTick
                           ELSE [@ EXCEPT !.pc = "save", !.batch = [t \in found |-> timers[t]]]]
    /\ UNCHANGED <<clock, targets, timers, opened, handlers, changes, faults>>

\* Mutants: lastTickAt is not moved; a timer at zero is not breached.
TickedAgain(row, now) ==
    LET left == row.remaining - (now - row.lastTickAt) IN
    IF left > 0 THEN [row EXCEPT !.remaining = left]
                ELSE [row EXCEPT !.remaining = 0, !.lastTickAt = now, !.status = "Breached"]
TickedUnbreached(row, now) ==
    LET left == row.remaining - (now - row.lastTickAt) IN
    [row EXCEPT !.remaining = IF left > 0 THEN left ELSE 0, !.lastTickAt = now]

Ticked(row, now) ==
    LET left == row.remaining - (now - row.lastTickAt) IN
    IF left > 0 THEN [row EXCEPT !.remaining = left, !.lastTickAt = now]
                ELSE [row EXCEPT !.remaining = 0, !.lastTickAt = now, !.status = "Breached"]

(* The copies are saved one by one; a failing save ends the tick. *)
SaveTick(k) ==
    LET batch == ticks[k].batch IN
    /\ ticks[k].pc = "save"
    /\ \E t \in DOMAIN batch :
           LET row == Ticked(batch[t], ticks[k].now)
               rest == DOMAIN batch \ {t}
               saved == t \in DOMAIN timers /\ Storable(row)
           IN  /\ timers' = IF saved THEN [timers EXCEPT ![t] = row] ELSE timers
               /\ ticks' = [ticks EXCEPT ![k] =
                               IF rest = {} \/ ~saved THEN IdleTick
                               ELSE [@ EXCEPT !.batch = [x \in rest |-> batch[x]]]]
    /\ UNCHANGED <<clock, targets, opened, handlers, changes, faults>>

-----------------------------------------------------------------------------
(* Targets come and go; their timers go with them (ON DELETE CASCADE). *)
CreateTarget(target) ==
    /\ targets[target] = "unused"
    /\ targets' = [targets EXCEPT ![target] = "live"]
    /\ UNCHANGED <<clock, timers, opened, handlers, ticks, changes, faults>>

RemoveTarget(target) ==
    /\ target \in Live
    /\ targets' = [targets EXCEPT ![target] = "removed"]
    /\ timers' = [t \in {x \in DOMAIN timers : x[2] # target} |-> timers[t]]
    /\ UNCHANGED <<clock, opened, handlers, ticks, changes, faults>>

Fault ==
    /\ faults < MaxFaults
    /\ faults' = faults + 1

Crash ==
    /\ Fault
    /\ handlers' = [w \in Worker |-> IdleHandler]
    /\ ticks' = [k \in Ticker |-> IdleTick]
    /\ UNCHANGED <<clock, targets, timers, opened, changes>>

(* The database refuses a save: the handler, or the tick, ends with it. *)
HandlerFails(w) ==
    /\ Fault
    /\ handlers[w].pc \in {"insert", "save"}
    /\ Become(w, IdleHandler)
    /\ UNCHANGED <<clock, targets, timers, opened, ticks, changes>>

TickFails(k) ==
    /\ Fault
    /\ ticks[k].pc = "save"
    /\ ticks' = [ticks EXCEPT ![k] = IdleTick]
    /\ UNCHANGED <<clock, targets, timers, opened, handlers, changes>>

-----------------------------------------------------------------------------
HandlerStep(w) ==
    FindTargets(w) \/ FindTimer(w) \/ InsertTimer(w) \/ LoadTimer(w) \/ SaveTimer(w)

TickStep(k) == StartTick(k) \/ FindRunning(k) \/ SaveTick(k)

Next ==
    \/ \E w \in Worker, c \in Case :
           CaseCreated(w, c) \/ \E event \in Changes : CaseChanged(w, c, event)
    \/ \E w \in Worker : HandlerStep(w) \/ HandlerFails(w)
    \/ \E k \in Ticker : TickStep(k) \/ TickFails(k)
    \/ \E target \in Target : CreateTarget(target) \/ RemoveTarget(target)
    \/ Advance \/ Crash

(* Time passes, the interval keeps firing, and the event loop resumes what *)
(* waits for a query.                                                      *)
Fairness ==
    /\ WF_vars(Advance)
    /\ \A w \in Worker : WF_vars(HandlerStep(w))
    /\ \A k \in Ticker : WF_vars(TickStep(k))

Spec == Init /\ [][Next]_vars
FairSpec == Spec /\ Fairness

-----------------------------------------------------------------------------
(* Properties. *)

(* Every variable stays in the set of values the tables and handlers allow. *)
Handler == [pc : {"idle", "find", "next", "insert", "save"}, case : Case \cup {None},
            event : Changes \cup {Created}, todo : SUBSET Target,
            target : Target \cup {None}, now : Time, row : Row]
IsTimers(f) == DOMAIN f \subseteq Pair /\ f \in [DOMAIN f -> Row]

TypeOK ==
    /\ clock \in Time
    /\ targets \in [Target -> {"unused", "live", "removed"}]
    /\ IsTimers(timers)
    /\ opened \subseteq Case
    /\ handlers \in [Worker -> Handler]
    /\ \A k \in Ticker : /\ ticks[k].pc \in {"idle", "find", "save"}
                         /\ ticks[k].now \in Time
                         /\ IsTimers(ticks[k].batch)
    /\ changes \in Nat /\ faults \in Nat

(* No stretch of time is counted twice or lost while a timer has not been    *)
(* paused, however ticks overlap, fail or save stale copies: what is left of *)
(* it is its goal less the time from its start to its last tick, and when it *)
(* is breached it has used it all.                                           *)
CountsTo(target, row) ==
    LET counted == row.lastTickAt - row.startedAt IN
    IF row.status = "Breached" THEN row.remaining = 0 /\ counted >= Goal[target]
                               ELSE row.remaining = Goal[target] - counted /\ row.remaining > 0

Countdown ==
    \A t \in DOMAIN timers : timers[t].pausedAt = None => CountsTo(t[2], timers[t])

(* What docs/DYNAMIC_SLA_SYSTEM.md says of Paused, that the time doesn't     *)
(* count: a timer is breached only when it has run for all of its goal.      *)
PausedTimeIsFree ==
    \A t \in DOMAIN timers :
        LET row == timers[t] IN
        row.status = "Breached" =>
            row.lastTickAt - row.startedAt - row.totalPaused >= Goal[t[2]]

(* A timer that has met or breached its target, and that no tick or handler  *)
(* still holds a copy of, is settled: no later event or tick takes it up.    *)
InHand(t) ==
    \/ \E w \in Worker : handlers[w].pc = "save" /\ <<handlers[w].case, handlers[w].target>> = t
    \/ \E k \in Ticker : t \in DOMAIN ticks[k].batch

Settled(t) == t \in DOMAIN timers /\ timers[t].status \in Terminal /\ ~InHand(t)

SettledStaysSettled ==
    [][\A t \in Pair : Settled(t) /\ t \in DOMAIN timers' =>
           Settled(t)' /\ timers'[t] = timers[t]]_vars

(* A running timer is stopped, paused, breached or removed in the end, since *)
(* the worker keeps counting it.                                             *)
RunningEventuallyEnds ==
    \A t \in Pair :
        t \in Running /\ timers[t].startedAt + Goal[t[2]] <= MaxTime ~> t \notin Running
=============================================================================
