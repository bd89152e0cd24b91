---------------------------- MODULE SlaTimer_proofs ----------------------------
(***************************************************************************)
(* Proofs about SLA timers, for any cases, targets, rules, goals, number   *)
(* of handlers and overlapping ticks: type correctness, the countdown, and *)
(* that a settled timer stays settled.                                     *)
(***************************************************************************)
EXTENDS SlaTimer, TLAPS

\* The tables of timers, and the copies a tick holds, as one set.
Timers == UNION {[S -> Row] : S \in SUBSET Pair}
TickRecord == [pc : {"idle", "find", "save"}, now : Time, batch : Timers]

\* A handler knows its case and, while it has a row to save, its target.
Placed(h) ==
    /\ h.pc # "idle" => h.case \in Case
    /\ h.pc \in {"insert", "save"} => h.target \in Target

Typed ==
    /\ clock \in Time
    /\ targets \in [Target -> {"unused", "live", "removed"}]
    /\ timers \in Timers
    /\ opened \subseteq Case
    /\ handlers \in [Worker -> Handler]
    /\ \A w \in Worker : Placed(handlers[w])
    /\ ticks \in [Ticker -> TickRecord]
    /\ changes \in Nat /\ faults \in Nat

LEMMA TimersAreTyped ==
    ASSUME NEW f PROVE f \in Timers <=> IsTimers(f)
BY DEF Timers, IsTimers

LEMMA BlankTyped == NoRow \in Row /\ NoBatch \in Timers /\ IdleHandler \in Handler
                        /\ Placed(IdleHandler) /\ IdleTick \in TickRecord
<1>1. NoRow \in Row
  BY DEF NoRow, Row, Status, Time
<1>2. NoBatch \in Timers
  <2>1. NoBatch \in [{} -> Row]
    BY DEF NoBatch
  <2> QED BY <2>1 DEF Timers
<1>3. IdleHandler \in Handler /\ Placed(IdleHandler)
  BY <1>1 DEF IdleHandler, Handler, Placed, Time
<1>4. IdleTick \in TickRecord
  BY <1>2 DEF IdleTick, TickRecord, Time
<1> QED BY <1>1, <1>2, <1>3, <1>4

LEMMA NewTimerTyped ==
    ASSUME NEW target \in Target, NEW now \in Time PROVE NewTimer(target, now) \in Row
BY GoalAssumption DEF NewTimer, Row, Status, Time

\* A row replaced in, or added to, a table of timers.
LEMMA TimersUpdated ==
    ASSUME NEW f \in Timers, NEW t \in Pair, NEW row \in Row
    PROVE  /\ t \in DOMAIN f => [f EXCEPT ![t] = row] \in Timers
           /\ [x \in DOMAIN f \cup {t} |-> IF x = t THEN row ELSE f[x]] \in Timers
<1>1. DOMAIN f \subseteq Pair /\ f \in [DOMAIN f -> Row]
  BY TimersAreTyped DEF IsTimers
<1>2. ASSUME t \in DOMAIN f PROVE [f EXCEPT ![t] = row] \in Timers
  <2>1. [f EXCEPT ![t] = row] \in [DOMAIN f -> Row]
    BY <1>1
  <2> QED BY <1>1, <2>1 DEF Timers
<1>3. [x \in DOMAIN f \cup {t} |-> IF x = t THEN row ELSE f[x]] \in [DOMAIN f \cup {t} -> Row]
  BY <1>1
<1>4. DOMAIN f \cup {t} \in SUBSET Pair
  BY <1>1
<1> QED BY <1>2, <1>3, <1>4 DEF Timers

LEMMA TimersRestricted ==
    ASSUME NEW f \in Timers, NEW S, S \subseteq DOMAIN f
    PROVE  [t \in S |-> f[t]] \in Timers
<1>1. DOMAIN f \subseteq Pair /\ f \in [DOMAIN f -> Row]
  BY TimersAreTyped DEF IsTimers
<1>2. [t \in S |-> f[t]] \in [S -> Row] /\ S \in SUBSET Pair
  BY <1>1
<1> QED BY <1>2 DEF Timers

LEMMA TimerTyped ==
    ASSUME NEW f \in Timers, NEW t \in DOMAIN f PROVE t \in Pair /\ f[t] \in Row
BY TimersAreTyped DEF IsTimers

LEMMA ReactionsTyped ==
    ASSUME clock \in Time, NEW target \in Target, NEW event, NEW row0 \in Row,
           NEW row \in Reactions(target, event, row0)
    PROVE  row \in Row
<1>1. Stopped(row0) \in Row
  BY DEF Stopped, Row, Status
<1>2. Paused(row0) \in Row
  BY DEF Paused, Row, Status
<1>3. Resumed(row0) \in Row
  <2>1. TotalPaused(row0) \in Int
    <3>1. row0.totalPaused \in Int /\ row0.pausedAt \in Time \cup {None}
      BY DEF Row
    <3>2. CASE row0.pausedAt = None
      BY <3>1, <3>2 DEF TotalPaused
    <3>3. CASE row0.pausedAt # None
      BY <3>1, <3>3 DEF TotalPaused, Time
    <3> QED BY <3>2, <3>3
  <2> QED BY <2>1 DEF Resumed, Row, Status
<1> QED BY <1>1, <1>2, <1>3 DEF Reactions

LEMMA TickedTyped ==
    ASSUME NEW now \in Time, NEW row \in Row PROVE Ticked(row, now) \in Row
<1> DEFINE left == row.remaining - (now - row.lastTickAt)
<1>1. left \in Int
  BY DEF Row, Time
<1>2. Ticked(row, now) = IF left > 0
        THEN [row EXCEPT !.remaining = left, !.lastTickAt = now]
        ELSE [row EXCEPT !.remaining = 0, !.lastTickAt = now, !.status = "Breached"]
  BY DEF Ticked
<1> HIDE DEF left
<1>3. [row EXCEPT !.remaining = left, !.lastTickAt = now] \in Row
  BY <1>1 DEF Row
<1>4. [row EXCEPT !.remaining = 0, !.lastTickAt = now, !.status = "Breached"] \in Row
  <2>1. 0 \in Int /\ "Breached" \in Status
    BY DEF Status
  <2> QED BY <2>1 DEF Row
<1> QED BY <1>2, <1>3, <1>4

LEMMA ContinueTyped ==
    ASSUME Typed, NEW w \in Worker, NEW target, handlers[w].pc # "idle", Continue(w, target)
    PROVE  handlers' \in [Worker -> Handler] /\ \A v \in Worker : Placed(handlers[v])'
<1> DEFINE h == [handlers[w] EXCEPT !.pc = "next", !.todo = handlers[w].todo \ {target},
                                    !.target = None, !.row = NoRow]
<1>1. h \in Handler /\ Placed(h)
  BY BlankTyped DEF Typed, Handler, Placed
<1>2. handlers' = [handlers EXCEPT ![w] = IdleHandler] \/ handlers' = [handlers EXCEPT ![w] = h]
  BY DEF Continue, Become
<1> QED BY <1>1, <1>2, BlankTyped DEF Typed

LEMMA BecomeTyped ==
    ASSUME Typed, NEW w \in Worker, NEW h \in Handler, Placed(h), Become(w, h)
    PROVE  handlers' \in [Worker -> Handler] /\ \A v \in Worker : Placed(handlers[v])'
BY DEF Typed, Become

LEMMA TypedInit == Init => Typed
BY BlankTyped DEF Init, Typed, Time

LEMMA TypedNext == Typed /\ [Next]_vars => Typed'
<1> SUFFICES ASSUME Typed, [Next]_vars PROVE Typed'
  OBVIOUS
<1> USE DEF Typed
<1>1. ASSUME NEW w \in Worker, NEW c \in Case, CaseCreated(w, c) PROVE Typed'
  <2> DEFINE h == [IdleHandler EXCEPT !.pc = "find", !.case = c]
  <2>1. h \in Handler /\ Placed(h)
    BY BlankTyped DEF Handler, Placed, IdleHandler
  <2> QED BY <1>1, <2>1, BecomeTyped DEF CaseCreated
<1>2. ASSUME NEW w \in Worker, NEW c \in Case, NEW event \in Changes, CaseChanged(w, c, event)
      PROVE  Typed'
  <2> DEFINE h == [IdleHandler EXCEPT !.pc = "find", !.case = c, !.event = event]
  <2>1. h \in Handler /\ Placed(h)
    BY BlankTyped DEF Handler, Placed, IdleHandler
  <2> QED BY <1>2, <2>1, BecomeTyped DEF CaseChanged
<1>3. ASSUME NEW w \in Worker, FindTargets(w) PROVE Typed'
  <2> DEFINE h == [handlers[w] EXCEPT !.pc = "next", !.todo = Live,
                                      !.now = IF handlers[w].event = Created THEN clock ELSE 0]
  <2>1. h \in Handler /\ Placed(h)
    BY <1>3 DEF FindTargets, Handler, Placed, Live, Time
  <2>2. Become(w, IdleHandler) \/ Become(w, h)
    BY <1>3 DEF FindTargets
  <2> QED BY <1>3, <2>1, <2>2, BlankTyped, BecomeTyped DEF FindTargets
<1>4. ASSUME NEW w \in Worker, FindTimer(w) PROVE Typed'
  <2> PICK target \in handlers[w].todo :
        \/ Continue(w, target)
        \/ Become(w, [handlers[w] EXCEPT !.pc = "insert", !.target = target])
    BY <1>4 DEF FindTimer
  <2>1. [handlers[w] EXCEPT !.pc = "insert", !.target = target] \in Handler
          /\ Placed([handlers[w] EXCEPT !.pc = "insert", !.target = target])
    BY <1>4 DEF FindTimer, Handler, Placed
  <2> QED BY <1>4, <2>1, ContinueTyped, BecomeTyped DEF FindTimer
<1>5. ASSUME NEW w \in Worker, InsertTimer(w) PROVE Typed'
  <2> DEFINE t == <<handlers[w].case, handlers[w].target>>
  <2>1. t \in Pair /\ NewTimer(handlers[w].target, handlers[w].now) \in Row
    BY <1>5, NewTimerTyped DEF InsertTimer, Placed, Pair, Handler
  <2>2. timers' \in Timers
    <3> DEFINE row == NewTimer(handlers[w].target, handlers[w].now)
    <3>1. \/ timers' = [x \in DOMAIN timers \cup {t} |-> IF x = t THEN row ELSE timers[x]]
          \/ timers' = timers
      BY <1>5 DEF InsertTimer
    <3> HIDE DEF row, t
    <3> QED BY <2>1, <3>1, TimersUpdated DEF row, t
  <2>3. handlers' \in [Worker -> Handler] /\ \A v \in Worker : Placed(handlers[v])'
    BY <1>5, ContinueTyped, BecomeTyped, BlankTyped DEF InsertTimer
  <2> QED BY <1>5, <2>2, <2>3 DEF InsertTimer
<1>6. ASSUME NEW w \in Worker, LoadTimer(w) PROVE Typed'
  <2> PICK target \in handlers[w].todo :
        \/ Continue(w, target)
        \/ /\ <<handlers[w].case, target>> \in DOMAIN timers
           /\ \E row \in Reactions(target, handlers[w].event, timers[<<handlers[w].case, target>>]) :
                 Become(w, [handlers[w] EXCEPT !.pc = "save", !.target = target, !.row = row])
    BY <1>6 DEF LoadTimer
  <2>1. CASE Continue(w, target)
    BY <1>6, <2>1, ContinueTyped DEF LoadTimer
  <2>2. ASSUME <<handlers[w].case, target>> \in DOMAIN timers,
               NEW row \in Reactions(target, handlers[w].event,
                                     timers[<<handlers[w].case, target>>]),
               Become(w, [handlers[w] EXCEPT !.pc = "save", !.target = target, !.row = row])
        PROVE  Typed'
    <3> DEFINE h == [handlers[w] EXCEPT !.pc = "save", !.target = target, !.row = row]
    <3>1. target \in Target
      BY DEF Handler
    <3>2. row \in Row
      BY <2>2, <3>1, TimerTyped, ReactionsTyped
    <3>3. h \in Handler /\ Placed(h)
      BY <1>6, <3>1, <3>2 DEF LoadTimer, Handler, Placed
    <3> QED BY <1>6, <2>2, <3>3, BecomeTyped DEF LoadTimer
  <2> QED BY <2>1, <2>2
<1>7. ASSUME NEW w \in Worker, SaveTimer(w) PROVE Typed'
  <2> DEFINE t == <<handlers[w].case, handlers[w].target>>
             row == [handlers[w].row EXCEPT !.pausedAt =
                        IF handlers[w].row.status = "Running" THEN timers[t].pausedAt ELSE @]
  <2>1. t \in Pair /\ handlers[w].row \in Row
    BY <1>7 DEF SaveTimer, Placed, Pair, Handler
  <2>2. timers' \in Timers
    <3>1. CASE t \in DOMAIN timers /\ Storable(handlers[w].row)
      <4>1. row \in Row
        BY <2>1, <3>1, TimerTyped DEF Row
      <4>2. timers' = [timers EXCEPT ![t] = row]
        BY <1>7, <3>1 DEF SaveTimer
      <4> QED BY <2>1, <3>1, <4>1, <4>2, TimersUpdated
    <3>2. CASE ~(t \in DOMAIN timers /\ Storable(handlers[w].row))
      BY <1>7, <3>2 DEF SaveTimer
    <3> QED BY <3>1, <3>2
  <2>3. handlers' \in [Worker -> Handler] /\ \A v \in Worker : Placed(handlers[v])'
    BY <1>7, ContinueTyped, BecomeTyped, BlankTyped DEF SaveTimer
  <2> QED BY <1>7, <2>2, <2>3 DEF SaveTimer
<1>8. ASSUME NEW w \in Worker, HandlerFails(w) PROVE Typed'
  BY <1>8, BlankTyped, BecomeTyped DEF HandlerFails, Fault
<1>9. ASSUME NEW k \in Ticker, StartTick(k) PROVE Typed'
  BY <1>9 DEF StartTick, TickRecord
<1>10. ASSUME NEW k \in Ticker, FindRunning(k) PROVE Typed'
  <2> PICK found \in SUBSET Running :
        \/ ticks' = [ticks EXCEPT ![k] = IdleTick]
        \/ ticks' = [ticks EXCEPT ![k] = [@ EXCEPT !.pc = "save",
                                              !.batch = [t \in found |-> timers[t]]]]
    BY <1>10 DEF FindRunning
  <2>1. [t \in found |-> timers[t]] \in Timers
    BY TimersRestricted DEF Running
  <2> DEFINE tick == [ticks[k] EXCEPT !.pc = "save", !.batch = [t \in found |-> timers[t]]]
  <2>2. tick \in TickRecord
    BY <2>1 DEF TickRecord
  <2>3. ticks' = [ticks EXCEPT ![k] = IdleTick] \/ ticks' = [ticks EXCEPT ![k] = tick]
    OBVIOUS
  <2>4. ticks' \in [Ticker -> TickRecord]
    BY <2>2, <2>3, BlankTyped
  <2> QED BY <1>10, <2>4 DEF FindRunning
<1>11. ASSUME NEW k \in Ticker, SaveTick(k) PROVE Typed'
  <2> DEFINE batch == ticks[k].batch
  <2> PICK t \in DOMAIN batch :
        /\ \/ timers' = timers
           \/ t \in DOMAIN timers
                /\ timers' = [timers EXCEPT ![t] = Ticked(batch[t], ticks[k].now)]
        /\ \/ ticks' = [ticks EXCEPT ![k] = IdleTick]
           \/ ticks' = [ticks EXCEPT ![k] = [@ EXCEPT !.batch =
                           [x \in DOMAIN batch \ {t} |-> batch[x]]]]
    BY <1>11 DEF SaveTick
  <2>1. batch \in Timers /\ ticks[k].now \in Time
    BY DEF TickRecord
  <2>2. t \in Pair /\ Ticked(batch[t], ticks[k].now) \in Row
    BY <2>1, TimerTyped, TickedTyped
  <2>3. timers' \in Timers
    BY <2>2, TimersUpdated
  <2>4. [x \in DOMAIN batch \ {t} |-> batch[x]] \in Timers
    BY <2>1, TimersRestricted
  <2>5. ticks' \in [Ticker -> TickRecord]
    BY <2>4, BlankTyped DEF TickRecord
  <2> QED BY <1>11, <2>3, <2>5 DEF SaveTick
<1>12. ASSUME NEW k \in Ticker, TickFails(k) PROVE Typed'
  BY <1>12, BlankTyped DEF TickFails, Fault
<1>13. ASSUME NEW target \in Target, CreateTarget(target) PROVE Typed'
  BY <1>13 DEF CreateTarget
<1>14. ASSUME NEW target \in Target, RemoveTarget(target) PROVE Typed'
  <2>1. timers' \in Timers
    BY <1>14, TimersRestricted DEF RemoveTarget
  <2> QED BY <1>14, <2>1 DEF RemoveTarget
<1>15. CASE Advance
  BY <1>15 DEF Advance, Time
<1>16. CASE Crash
  BY <1>16, BlankTyped DEF Crash, Fault
<1>17. CASE UNCHANGED vars
  BY <1>17 DEF vars
<1> QED
  BY <1>1, <1>2, <1>3, <1>4, <1>5, <1>6, <1>7, <1>8, <1>9, <1>10, <1>11, <1>12, <1>13,
     <1>14, <1>15, <1>16, <1>17 DEF Next, HandlerStep, TickStep

(* Every timer, handler and tick is always well typed. *)
THEOREM TypeCorrect == Spec => []TypeOK
<1>1. Typed => TypeOK
  BY TimersAreTyped DEF Typed, TypeOK, TickRecord
<1> QED BY <1>1, TypedInit, TypedNext, PTL DEF Spec

-----------------------------------------------------------------------------
(* The countdown.  What the table holds is right because what is about to  *)
(* be written is: a handler's copy is not breached and counts as the row   *)
(* it was loaded from did, and a tick holds running rows only.  The code    *)
(* counts the time of a pause like any other, which is why the sum is that  *)
(* of every timer, paused or not.                                           *)
AllCount == \A t \in DOMAIN timers : CountsTo(t[2], timers[t])

Counted ==
    /\ AllCount
    /\ \A w \in Worker :
           handlers[w].pc = "save" =>
               /\ handlers[w].row.status # "Breached"
               /\ CountsTo(handlers[w].target, handlers[w].row)
    /\ \A k \in Ticker : \A t \in DOMAIN ticks[k].batch :
           /\ ticks[k].batch[t].status = "Running"
           /\ CountsTo(t[2], ticks[k].batch[t])

LEMMA NewTimerCounts ==
    ASSUME NEW target \in Target, NEW now \in Time
    PROVE  CountsTo(target, NewTimer(target, now))
BY GoalAssumption DEF CountsTo, NewTimer, Time

\* Stopping, pausing and resuming leave the count alone.
LEMMA ReactionsCount ==
    ASSUME NEW target \in Target, NEW event, NEW row0 \in Row, CountsTo(target, row0),
           NEW row \in Reactions(target, event, row0)
    PROVE  row.status # "Breached" /\ CountsTo(target, row)
<1>1. row0.status # "Breached"
  BY DEF Reactions, Terminal
<1>2. row \in {Stopped(row0), Paused(row0), Resumed(row0)}
  BY DEF Reactions
<1>3. /\ row.status # "Breached"
      /\ row.remaining = row0.remaining
      /\ row.startedAt = row0.startedAt
      /\ row.lastTickAt = row0.lastTickAt
  BY <1>2 DEF Stopped, Paused, Resumed, Row
<1> QED BY <1>1, <1>3 DEF CountsTo

\* A tick moves time from what is left to what is counted.
LEMMA TickedCounts ==
    ASSUME NEW target \in Target, NEW now \in Time, NEW row \in Row,
           row.status = "Running", CountsTo(target, row)
    PROVE  CountsTo(target, Ticked(row, now))
<1> DEFINE left == row.remaining - (now - row.lastTickAt)
<1>1. /\ Goal[target] \in Nat /\ now \in Int
      /\ row.remaining \in Int /\ row.lastTickAt \in Int /\ row.startedAt \in Int
  BY GoalAssumption DEF Row, Time
<1>2. left = Goal[target] - (now - row.startedAt)
  BY <1>1 DEF CountsTo
<1>3. CASE left > 0
  <2>1. /\ Ticked(row, now).status = "Running"
        /\ Ticked(row, now).remaining = left
        /\ Ticked(row, now).lastTickAt = now
        /\ Ticked(row, now).startedAt = row.startedAt
    BY <1>3 DEF Ticked, Row
  <2> QED BY <1>1, <1>2, <1>3, <2>1 DEF CountsTo
<1>4. CASE ~(left > 0)
  <2>1. /\ Ticked(row, now).status = "Breached"
        /\ Ticked(row, now).remaining = 0
        /\ Ticked(row, now).lastTickAt = now
        /\ Ticked(row, now).startedAt = row.startedAt
    BY <1>4 DEF Ticked, Row
  <2>2. now - row.startedAt >= Goal[target]
    BY <1>1, <1>2, <1>4
  <2> QED BY <2>1, <2>2 DEF CountsTo
<1> QED BY <1>3, <1>4

\* A handler without a row to save has nothing to count.
LEMMA HandlerCounts ==
    ASSUME Typed, Counted, NEW w \in Worker, NEW h, Become(w, h),
           h.pc = "save" => h.row.status # "Breached" /\ CountsTo(h.target, h.row),
           UNCHANGED timers, UNCHANGED ticks
    PROVE  Counted'
<1>1. \A v \in Worker : handlers'[v] = IF v = w THEN h ELSE handlers[v]
  BY DEF Become, Typed
<1> QED BY <1>1 DEF Counted, AllCount, CountsTo

LEMMA ContinueIdle ==
    ASSUME Typed, NEW w \in Worker, NEW target, Continue(w, target)
    PROVE  \E h : Become(w, h) /\ h.pc # "save"
<1> DEFINE h == [handlers[w] EXCEPT !.pc = "next", !.todo = handlers[w].todo \ {target},
                                    !.target = None, !.row = NoRow]
<1>1. h.pc = "next" /\ IdleHandler.pc = "idle"
  BY DEF Typed, Handler, IdleHandler
<1>2. Become(w, IdleHandler) \/ Become(w, h)
  BY DEF Continue, Become
<1> QED BY <1>1, <1>2

\* A tick's copies are those it had, or of running timers.
LEMMA CopiesCount ==
    ASSUME Counted, AllCount', UNCHANGED handlers,
           \A k \in Ticker : \A t \in DOMAIN ticks'[k].batch :
               \/ t \in DOMAIN ticks[k].batch /\ ticks'[k].batch[t] = ticks[k].batch[t]
               \/ t \in Running /\ ticks'[k].batch[t] = timers[t]
    PROVE  Counted'
<1>1. ASSUME NEW k \in Ticker, NEW t \in DOMAIN ticks'[k].batch
      PROVE  ticks'[k].batch[t].status = "Running" /\ CountsTo(t[2], ticks'[k].batch[t])
  <2>1. CASE t \in DOMAIN ticks[k].batch /\ ticks'[k].batch[t] = ticks[k].batch[t]
    BY <2>1 DEF Counted
  <2>2. CASE t \in Running /\ ticks'[k].batch[t] = timers[t]
    BY <2>2 DEF Counted, AllCount, Running
  <2> QED BY <1>1, <2>1, <2>2
<1>2. ASSUME NEW w \in Worker, handlers'[w].pc = "save"
      PROVE  /\ handlers'[w].row.status # "Breached"
             /\ CountsTo(handlers'[w].target, handlers'[w].row)
  BY <1>2 DEF Counted
<1> QED BY <1>1, <1>2 DEF Counted, CountsTo

LEMMA CountedInit == Init => Counted
BY DEF Init, Counted, AllCount, NoBatch, IdleHandler, IdleTick

LEMMA CountedNext == Typed /\ Counted /\ [Next]_vars => Counted'
<1> SUFFICES ASSUME Typed, Counted, [Next]_vars PROVE Counted'
  OBVIOUS
<1>1. ASSUME NEW w \in Worker, NEW c \in Case, CaseCreated(w, c) PROVE Counted'
  <2>1. [IdleHandler EXCEPT !.pc = "find", !.case = c].pc = "find"
    BY DEF IdleHandler
  <2> QED BY <1>1, <2>1, HandlerCounts DEF CaseCreated
<1>2. ASSUME NEW w \in Worker, NEW c \in Case, NEW event, CaseChanged(w, c, event)
      PROVE  Counted'
  <2>1. [IdleHandler EXCEPT !.pc = "find", !.case = c, !.event = event].pc = "find"
    BY DEF IdleHandler
  <2> QED BY <1>2, <2>1, HandlerCounts DEF CaseChanged
<1>3. ASSUME NEW w \in Worker, FindTargets(w) PROVE Counted'
  <2>1. PICK h : Become(w, h) /\ h.pc # "save"
    <3> DEFINE g == [handlers[w] EXCEPT !.pc = "next", !.todo = Live,
                                        !.now = IF handlers[w].event = Created THEN clock ELSE 0]
    <3>1. g.pc = "next" /\ IdleHandler.pc = "idle"
      BY DEF IdleHandler, Typed, Handler
    <3>2. Become(w, IdleHandler) \/ Become(w, g)
      BY <1>3 DEF FindTargets
    <3> QED BY <3>1, <3>2
  <2> QED BY <1>3, <2>1, HandlerCounts DEF FindTargets
<1>4. ASSUME NEW w \in Worker, FindTimer(w) PROVE Counted'
  <2> PICK target \in handlers[w].todo :
        \/ Continue(w, target)
        \/ Become(w, [handlers[w] EXCEPT !.pc = "insert", !.target = target])
    BY <1>4 DEF FindTimer
  <2>1. [handlers[w] EXCEPT !.pc = "insert", !.target = target].pc = "insert"
    BY DEF Typed, Handler
  <2>2. \E h : Become(w, h) /\ h.pc # "save"
    BY <2>1, ContinueIdle
  <2> QED BY <1>4, <2>2, HandlerCounts DEF FindTimer
<1>5. ASSUME NEW w \in Worker, InsertTimer(w) PROVE Counted'
  <2> DEFINE t == <<handlers[w].case, handlers[w].target>>
  <2>1. PICK h : Become(w, h) /\ h.pc # "save"
    BY <1>5, ContinueIdle DEF InsertTimer, IdleHandler
  <2>2. handlers[w].target \in Target /\ handlers[w].now \in Time
    BY <1>5 DEF InsertTimer, Typed, Placed, Handler
  <2>3. AllCount'
    <3>1. CASE timers' = timers
      BY <3>1 DEF Counted, AllCount, CountsTo
    <3>2. CASE timers' = [x \in DOMAIN timers \cup {t} |->
                             IF x = t THEN NewTimer(handlers[w].target, handlers[w].now)
                                      ELSE timers[x]]
      <4>1. CountsTo(t[2], NewTimer(handlers[w].target, handlers[w].now))
        BY <2>2, NewTimerCounts
      <4>2. ASSUME NEW x \in DOMAIN timers' PROVE CountsTo(x[2], timers'[x])
        BY <3>2, <4>1 DEF Counted, AllCount
      <4> QED BY <4>2 DEF AllCount, CountsTo
    <3> QED BY <1>5, <3>1, <3>2 DEF InsertTimer
  <2>4. \A v \in Worker : handlers'[v] = IF v = w THEN h ELSE handlers[v]
    BY <2>1 DEF Become, Typed
  <2> QED BY <1>5, <2>1, <2>3, <2>4 DEF InsertTimer, Counted, CountsTo
<1>6. ASSUME NEW w \in Worker, LoadTimer(w) PROVE Counted'
  <2> PICK target \in handlers[w].todo :
        \/ Continue(w, target)
        \/ /\ <<handlers[w].case, target>> \in DOMAIN timers
           /\ \E row \in Reactions(target, handlers[w].event, timers[<<handlers[w].case, target>>]) :
                 Become(w, [handlers[w] EXCEPT !.pc = "save", !.target = target, !.row = row])
    BY <1>6 DEF LoadTimer
  <2>1. CASE Continue(w, target)
    BY <1>6, <2>1, ContinueIdle, HandlerCounts DEF LoadTimer
  <2>2. ASSUME <<handlers[w].case, target>> \in DOMAIN timers,
               NEW row \in Reactions(target, handlers[w].event,
                                     timers[<<handlers[w].case, target>>]),
               Become(w, [handlers[w] EXCEPT !.pc = "save", !.target = target, !.row = row])
        PROVE  Counted'
    <3> DEFINE h == [handlers[w] EXCEPT !.pc = "save", !.target = target, !.row = row]
               t == <<handlers[w].case, target>>
    <3>1. target \in Target /\ h.target = target /\ h.row = row
      BY DEF Typed, Handler
    <3>2. timers[t] \in Row /\ CountsTo(target, timers[t])
      BY <2>2, TimerTyped DEF Typed, Counted, AllCount
    <3>3. h.row.status # "Breached" /\ CountsTo(h.target, h.row)
      BY <2>2, <3>1, <3>2, ReactionsCount
    <3> QED BY <1>6, <2>2, <3>3, HandlerCounts DEF LoadTimer
  <2> QED BY <2>1, <2>2
<1>7. ASSUME NEW w \in Worker, SaveTimer(w) PROVE Counted'
  <2> DEFINE t == <<handlers[w].case, handlers[w].target>>
             row == [handlers[w].row EXCEPT !.pausedAt =
                        IF handlers[w].row.status = "Running" THEN timers[t].pausedAt ELSE @]
  <2>1. PICK h : Become(w, h) /\ h.pc # "save"
    BY <1>7, ContinueIdle DEF SaveTimer, IdleHandler
  <2>2. CountsTo(t[2], row)
    <3>1. CountsTo(t[2], handlers[w].row) /\ handlers[w].row \in Row
      BY <1>7 DEF SaveTimer, Counted, Typed, Handler
    <3>2. /\ row.status = handlers[w].row.status
          /\ row.remaining = handlers[w].row.remaining
          /\ row.startedAt = handlers[w].row.startedAt
          /\ row.lastTickAt = handlers[w].row.lastTickAt
      BY <3>1 DEF Row
    <3> HIDE DEF row, t
    <3> QED BY <3>1, <3>2 DEF CountsTo
  <2>3. AllCount'
    <3>1. timers' = timers \/ timers' = [timers EXCEPT ![t] = row]
      BY <1>7 DEF SaveTimer
    <3> HIDE DEF row, t
    <3>2. ASSUME NEW x \in DOMAIN timers' PROVE CountsTo(x[2], timers'[x])
      BY <2>2, <3>1 DEF Counted, AllCount
    <3> QED BY <3>2 DEF AllCount, CountsTo
  <2>4. \A v \in Worker : handlers'[v] = IF v = w THEN h ELSE handlers[v]
    BY <2>1 DEF Become, Typed
  <2> QED BY <1>7, <2>1, <2>3, <2>4 DEF SaveTimer, Counted, CountsTo
<1>8. ASSUME NEW w \in Worker, HandlerFails(w) PROVE Counted'
  BY <1>8, HandlerCounts DEF HandlerFails, IdleHandler
<1>9. ASSUME NEW k \in Ticker, StartTick(k) PROVE Counted'
  <2>1. \A j \in Ticker : ticks'[j].batch = ticks[j].batch
    BY <1>9 DEF StartTick, Typed, TickRecord
  <2> QED BY <1>9, <2>1 DEF StartTick, Counted, AllCount, CountsTo
<1>10. ASSUME NEW k \in Ticker, FindRunning(k) PROVE Counted'
  <2> PICK found \in SUBSET Running :
        \/ ticks' = [ticks EXCEPT ![k] = IdleTick]
        \/ ticks' = [ticks EXCEPT ![k] = [@ EXCEPT !.pc = "save",
                                              !.batch = [t \in found |-> timers[t]]]]
    BY <1>10 DEF FindRunning
  <2>1. ASSUME NEW j \in Ticker, NEW t \in DOMAIN ticks'[j].batch
        PROVE  \/ t \in DOMAIN ticks[j].batch /\ ticks'[j].batch[t] = ticks[j].batch[t]
               \/ t \in Running /\ ticks'[j].batch[t] = timers[t]
    <3>1. CASE j # k \/ ticks' = [ticks EXCEPT ![k] = IdleTick]
      <4>1. ticks'[j] = ticks[j] \/ ticks'[j] = IdleTick
        BY <3>1 DEF Typed
      <4> QED BY <2>1, <4>1 DEF IdleTick, NoBatch
    <3>2. CASE j = k /\ ticks' # [ticks EXCEPT ![k] = IdleTick]
      <4>1. ticks'[j].batch = [x \in found |-> timers[x]]
        BY <3>2 DEF Typed, TickRecord
      <4> QED BY <2>1, <4>1
    <3> QED BY <3>1, <3>2
  <2>2. AllCount'
    BY <1>10 DEF FindRunning, Counted, AllCount, CountsTo
  <2>3. UNCHANGED handlers
    BY <1>10 DEF FindRunning
  <2> QED BY <2>1, <2>2, <2>3, CopiesCount
<1>11. ASSUME NEW k \in Ticker, SaveTick(k) PROVE Counted'
  <2> DEFINE batch == ticks[k].batch
  <2> PICK t \in DOMAIN batch :
        /\ \/ timers' = timers
           \/ t \in DOMAIN timers
                /\ timers' = [timers EXCEPT ![t] = Ticked(batch[t], ticks[k].now)]
        /\ \/ ticks' = [ticks EXCEPT ![k] = IdleTick]
           \/ ticks' = [ticks EXCEPT ![k] = [@ EXCEPT !.batch =
                           [x \in DOMAIN batch \ {t} |-> batch[x]]]]
    BY <1>11 DEF SaveTick
  <2>1. batch \in Timers /\ ticks[k].now \in Time
    BY DEF Typed, TickRecord
  <2>2. t \in Pair /\ batch[t] \in Row
    BY <2>1, TimerTyped
  <2>3. CountsTo(t[2], Ticked(batch[t], ticks[k].now))
    <3>1. t[2] \in Target
      BY <2>2 DEF Pair
    <3> QED BY <2>1, <2>2, <3>1, TickedCounts DEF Counted
  <2>4. AllCount'
    <3>1. ASSUME NEW x \in DOMAIN timers' PROVE CountsTo(x[2], timers'[x])
      BY <2>3 DEF Counted, AllCount
    <3> QED BY <3>1 DEF AllCount, CountsTo
  <2>5. ASSUME NEW j \in Ticker, NEW x \in DOMAIN ticks'[j].batch
        PROVE  x \in DOMAIN ticks[j].batch /\ ticks'[j].batch[x] = ticks[j].batch[x]
    BY DEF Typed, TickRecord, IdleTick, NoBatch
  <2>6. UNCHANGED handlers
    BY <1>11 DEF SaveTick
  <2> QED BY <2>4, <2>5, <2>6, CopiesCount
<1>12. ASSUME NEW k \in Ticker, TickFails(k) PROVE Counted'
  <2>1. ASSUME NEW j \in Ticker, NEW x \in DOMAIN ticks'[j].batch
        PROVE  x \in DOMAIN ticks[j].batch /\ ticks'[j].batch[x] = ticks[j].batch[x]
    BY <1>12 DEF TickFails, Typed, TickRecord, IdleTick, NoBatch
  <2> QED BY <1>12, <2>1 DEF TickFails, Counted, AllCount, CountsTo
<1>13. ASSUME NEW target \in Target, CreateTarget(target) PROVE Counted'
  BY <1>13 DEF CreateTarget, Counted, AllCount, CountsTo
<1>14. ASSUME NEW target \in Target, RemoveTarget(target) PROVE Counted'
  <2>1. ASSUME NEW x \in DOMAIN timers' PROVE x \in DOMAIN timers /\ timers'[x] = timers[x]
    BY <1>14 DEF RemoveTarget
  <2> QED BY <1>14, <2>1 DEF RemoveTarget, Counted, AllCount, CountsTo
<1>15. CASE Advance
  BY <1>15 DEF Advance, Counted, AllCount, CountsTo
<1>16. CASE Crash
  BY <1>16 DEF Crash, Counted, AllCount, CountsTo, IdleHandler, IdleTick, NoBatch
<1>17. CASE UNCHANGED vars
  BY <1>17 DEF vars, Counted, AllCount, CountsTo
<1> QED
  BY <1>1, <1>2, <1>3, <1>4, <1>5, <1>6, <1>7, <1>8, <1>9, <1>10, <1>11, <1>12, <1>13,
     <1>14, <1>15, <1>16, <1>17 DEF Next, HandlerStep, TickStep

(* A timer that has not been paused has its goal less the time from its     *)
(* start to its last tick left, whatever copies of it ticks and handlers    *)
(* hold, save, or lose (SlaWorker.tick).                                    *)
THEOREM CountdownCorrect == Spec => []Countdown
<1>1. Counted => Countdown
  BY DEF Counted, AllCount, Countdown
<1> QED BY <1>1, TypedInit, TypedNext, CountedInit, CountedNext, PTL DEF Spec

-----------------------------------------------------------------------------
(* Settled timers.  A step either leaves the rows in hand as they are, takes *)
(* in hand a row that is not terminal, or writes a row it has in hand.       *)
LEMMA StaysSettled ==
    ASSUME NEW t, Settled(t), t \in DOMAIN timers', timers'[t] = timers[t],
           InHand(t)' => InHand(t)
    PROVE  Settled(t)' /\ timers'[t] = timers[t]
BY DEF Settled

LEMMA BecomeHolds ==
    ASSUME Typed, NEW t, NEW w \in Worker, NEW h, Become(w, h), UNCHANGED ticks,
           ~(h.pc = "save" /\ <<h.case, h.target>> = t)
    PROVE  InHand(t)' => InHand(t)
<1>1. \A v \in Worker : handlers'[v] = IF v = w THEN h ELSE handlers[v]
  BY DEF Become, Typed
<1> QED BY <1>1 DEF InHand

LEMMA TicksHold ==
    ASSUME NEW t, UNCHANGED handlers,
           \A k \in Ticker : t \in DOMAIN ticks'[k].batch => t \in DOMAIN ticks[k].batch
    PROVE  InHand(t)' => InHand(t)
BY DEF InHand

LEMMA SettledNext ==
    ASSUME Typed, [Next]_vars, NEW t \in Pair, Settled(t), t \in DOMAIN timers'
    PROVE  Settled(t)' /\ timers'[t] = timers[t]
<1>1. t \in DOMAIN timers /\ timers[t].status \in Terminal /\ ~InHand(t)
  BY DEF Settled
<1>2. SUFFICES timers'[t] = timers[t] /\ (InHand(t)' => InHand(t))
  BY StaysSettled
<1> DEFINE Held == timers'[t] = timers[t] /\ (InHand(t)' => InHand(t))
<1>3. ASSUME NEW w \in Worker, UNCHANGED timers, UNCHANGED ticks,
             \E h : Become(w, h) /\ h.pc # "save"
      PROVE  Held
  BY <1>3, BecomeHolds
<1>4. ASSUME NEW w \in Worker, NEW c \in Case, CaseCreated(w, c) PROVE Held
  <2>1. [IdleHandler EXCEPT !.pc = "find", !.case = c].pc = "find"
    BY DEF IdleHandler
  <2> QED BY <1>3, <1>4, <2>1 DEF CaseCreated
<1>5. ASSUME NEW w \in Worker, NEW c \in Case, NEW event, CaseChanged(w, c, event) PROVE Held
  <2>1. [IdleHandler EXCEPT !.pc = "find", !.case = c, !.event = event].pc = "find"
    BY DEF IdleHandler
  <2> QED BY <1>3, <1>5, <2>1 DEF CaseChanged
<1>6. ASSUME NEW w \in Worker, FindTargets(w) PROVE Held
  <2> DEFINE g == [handlers[w] EXCEPT !.pc = "next", !.todo = Live,
                                      !.now = IF handlers[w].event = Created THEN clock ELSE 0]
  <2>1. g.pc = "next" /\ IdleHandler.pc = "idle"
    BY DEF IdleHandler, Typed, Handler
  <2>2. Become(w, IdleHandler) \/ Become(w, g)
    BY <1>6 DEF FindTargets
  <2> QED BY <1>3, <1>6, <2>1, <2>2 DEF FindTargets
<1>7. ASSUME NEW w \in Worker, FindTimer(w) PROVE Held
  <2> PICK target \in handlers[w].todo :
        \/ Continue(w, target)
        \/ Become(w, [handlers[w] EXCEPT !.pc = "insert", !.target = target])
    BY <1>7 DEF FindTimer
  <2>1. [handlers[w] EXCEPT !.pc = "insert", !.target = target].pc = "insert"
    BY DEF Typed, Handler
  <2>2. \E h : Become(w, h) /\ h.pc # "save"
    BY <2>1, ContinueIdle
  <2> QED BY <1>3, <1>7, <2>2 DEF FindTimer
<1>8. ASSUME NEW w \in Worker, InsertTimer(w) PROVE Held
  <2>1. PICK h : Become(w, h) /\ h.pc # "save"
    BY <1>8, ContinueIdle DEF InsertTimer, IdleHandler
  <2>2. timers'[t] = timers[t]
    BY <1>1, <1>8 DEF InsertTimer
  <2> QED BY <1>8, <2>1, <2>2, BecomeHolds DEF InsertTimer
<1>9. ASSUME NEW w \in Worker, LoadTimer(w) PROVE Held
  <2> PICK target \in handlers[w].todo :
        \/ Continue(w, target)
        \/ /\ <<handlers[w].case, target>> \in DOMAIN timers
           /\ \E row \in Reactions(target, handlers[w].event, timers[<<handlers[w].case, target>>]) :
                 Become(w, [handlers[w] EXCEPT !.pc = "save", !.target = target, !.row = row])
    BY <1>9 DEF LoadTimer
  <2>1. CASE Continue(w, target)
    BY <1>3, <1>9, <2>1, ContinueIdle DEF LoadTimer
  <2>2. ASSUME NEW row \in Reactions(target, handlers[w].event,
                                     timers[<<handlers[w].case, target>>]),
               Become(w, [handlers[w] EXCEPT !.pc = "save", !.target = target, !.row = row])
        PROVE  Held
    <3> DEFINE h == [handlers[w] EXCEPT !.pc = "save", !.target = target, !.row = row]
    <3>1. h.case = handlers[w].case /\ h.target = target
      BY DEF Typed, Handler
    <3>2. <<handlers[w].case, target>> # t
      BY <1>1 DEF Reactions
    <3> QED BY <1>9, <2>2, <3>1, <3>2, BecomeHolds DEF LoadTimer
  <2> QED BY <2>1, <2>2
<1>10. ASSUME NEW w \in Worker, SaveTimer(w) PROVE Held
  <2> DEFINE x == <<handlers[w].case, handlers[w].target>>
  <2>1. PICK h : Become(w, h) /\ h.pc # "save"
    BY <1>10, ContinueIdle DEF SaveTimer, IdleHandler
  <2>2. x # t
    BY <1>1, <1>10 DEF SaveTimer, InHand
  <2>3. \/ timers' = timers
        \/ \E row : timers' = [timers EXCEPT ![x] = row]
    BY <1>10 DEF SaveTimer
  <2>4. timers'[t] = timers[t]
    <3> HIDE DEF x
    <3> QED BY <1>1, <2>2, <2>3
  <2> QED BY <1>10, <2>1, <2>4, BecomeHolds DEF SaveTimer
<1>11. ASSUME NEW w \in Worker, HandlerFails(w) PROVE Held
  BY <1>3, <1>11 DEF HandlerFails, IdleHandler
<1>12. ASSUME UNCHANGED timers, UNCHANGED handlers,
              \A k \in Ticker : t \in DOMAIN ticks'[k].batch => t \in DOMAIN ticks[k].batch
       PROVE  Held
  BY <1>12, TicksHold
<1>13. ASSUME NEW k \in Ticker, StartTick(k) PROVE Held
  <2>1. \A j \in Ticker : ticks'[j].batch = ticks[j].batch
    BY <1>13 DEF StartTick, Typed, TickRecord
  <2> QED BY <1>12, <1>13, <2>1 DEF StartTick
<1>14. ASSUME NEW k \in Ticker, FindRunning(k) PROVE Held
  <2> PICK found \in SUBSET Running :
        \/ ticks' = [ticks EXCEPT ![k] = IdleTick]
        \/ ticks' = [ticks EXCEPT ![k] = [@ EXCEPT !.pc = "save",
                                              !.batch = [x \in found |-> timers[x]]]]
    BY <1>14 DEF FindRunning
  <2>1. t \notin found
    BY <1>1 DEF Running, Terminal
  <2>2. ASSUME NEW j \in Ticker, t \in DOMAIN ticks'[j].batch
        PROVE  t \in DOMAIN ticks[j].batch
    <3>1. CASE j # k \/ ticks' = [ticks EXCEPT ![k] = IdleTick]
      <4>1. ticks'[j] = ticks[j] \/ ticks'[j] = IdleTick
        BY <3>1 DEF Typed
      <4> QED BY <2>2, <4>1 DEF IdleTick, NoBatch
    <3>2. CASE j = k /\ ticks' # [ticks EXCEPT ![k] = IdleTick]
      <4>1. ticks'[j].batch = [x \in found |-> timers[x]]
        BY <3>2 DEF Typed, TickRecord
      <4> QED BY <2>1, <2>2, <4>1
    <3> QED BY <3>1, <3>2
  <2> QED BY <1>12, <1>14, <2>2 DEF FindRunning
<1>15. ASSUME NEW k \in Ticker, SaveTick(k) PROVE Held
  <2> DEFINE batch == ticks[k].batch
  <2> PICK x \in DOMAIN batch :
        /\ timers' = timers \/ \E row : timers' = [timers EXCEPT ![x] = row]
        /\ \/ ticks' = [ticks EXCEPT ![k] = IdleTick]
           \/ ticks' = [ticks EXCEPT ![k] = [@ EXCEPT !.batch =
                           [y \in DOMAIN batch \ {x} |-> batch[y]]]]
    BY <1>15 DEF SaveTick
  <2>1. timers'[t] = timers[t]
    <3>1. x # t
      BY <1>1 DEF InHand
    <3> QED BY <1>1, <3>1
  <2>2. ASSUME NEW j \in Ticker, t \in DOMAIN ticks'[j].batch
        PROVE  t \in DOMAIN ticks[j].batch
    BY <2>2 DEF Typed, TickRecord, IdleTick, NoBatch
  <2>3. UNCHANGED handlers
    BY <1>15 DEF SaveTick
  <2> QED BY <2>1, <2>2, <2>3, TicksHold
<1>16. ASSUME NEW k \in Ticker, TickFails(k) PROVE Held
  <2>1. ASSUME NEW j \in Ticker, t \in DOMAIN ticks'[j].batch
        PROVE  t \in DOMAIN ticks[j].batch
    BY <1>16, <2>1 DEF TickFails, Typed, TickRecord, IdleTick, NoBatch
  <2> QED BY <1>12, <1>16, <2>1 DEF TickFails
<1>17. ASSUME NEW target \in Target, CreateTarget(target) PROVE Held
  BY <1>12, <1>17 DEF CreateTarget
<1>18. ASSUME NEW target \in Target, RemoveTarget(target) PROVE Held
  <2>1. timers'[t] = timers[t]
    BY <1>1, <1>18 DEF RemoveTarget
  <2> QED BY <1>18, <2>1, TicksHold DEF RemoveTarget
<1>19. CASE Advance
  BY <1>12, <1>19 DEF Advance
<1>20. CASE Crash
  BY <1>20 DEF Crash, InHand, IdleHandler, IdleTick, NoBatch
<1>21. CASE UNCHANGED vars
  BY <1>12, <1>21 DEF vars
<1> QED
  BY <1>4, <1>5, <1>6, <1>7, <1>8, <1>9, <1>10, <1>11, <1>13, <1>14, <1>15, <1>16, <1>17,
     <1>18, <1>19, <1>20, <1>21 DEF Next, HandlerStep, TickStep

(* A timer that has met or breached its target and is in nobody's hands is   *)
(* never written, or taken in hand, again: processTargetForEvent returns on  *)
(* terminal states and tick looks for running timers only.                   *)
THEOREM SettledCorrect == Spec => SettledStaysSettled
<1>1. Typed /\ [Next]_vars =>
        [\A t \in Pair : Settled(t) /\ t \in DOMAIN timers' =>
             Settled(t)' /\ timers'[t] = timers[t]]_vars
  BY SettledNext
<1> QED BY <1>1, TypedInit, TypedNext, PTL DEF Spec, SettledStaysSettled
=============================================================================
