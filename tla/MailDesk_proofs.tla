-------------------------- MODULE MailDesk_proofs --------------------------
(***************************************************************************)
(* Proofs about the case desk and its mail, for any cases, messages,       *)
(* channels, lines and number of handlers: type correctness, that every    *)
(* status was told, the comments and threads of messages, the templates    *)
(* mails are rendered from, and the default channels.                      *)
(***************************************************************************)
EXTENDS MailDesk, FiniteSetTheorems, TLAPS

HandlerPc == {"idle", "save", "write", "emit", "mail", "thread", "comment", "link",
              "template", "saved", "clear", "clearing", "channel"}
HandlerRecord == [pc : HandlerPc, id : 0..MaxCalls, case : Case \cup {None},
                  found : CaseStatus \cup {None}, new : CaseStatus \cup {None},
                  tells : BOOLEAN, mail : Message \cup {None}, template : 0..MaxCalls,
                  channel : Channel \cup {None}, edit : ChannelRow \cup {NoChannel},
                  line : Line \cup {None}, defaults : SUBSET Channel]
Appended == [id : 1..MaxCalls, event : Record]
MessageRow == [id : 0..MaxCalls, channel : Channel \cup {None}, case : Case \cup {None}]
CommentRow == [id : 1..MaxCalls, mail : Message, case : Case]
Notice == [id : 1..MaxCalls, pc : {"start", "fetch", "fetched", "send"},
           version : Nat \cup {None}, floor : Nat]
Template == [stored : BOOLEAN, id : 0..MaxCalls, version : Nat]
AnyChannel == [stored : BOOLEAN, line : Line \cup {None}, smtp : BOOLEAN, default : BOOLEAN]

Calling == {"save", "write", "emit"}
Mailing == {"mail", "thread", "comment", "link"}
Working == {"thread", "comment", "link"}
Editing == {"clear", "clearing", "channel"}

\* What a handler has filled in, by the step it is at.
Fitted(r) ==
    /\ r.pc \in Calling => r.case \in Case
    /\ r.pc \in {"save", "write"} => r.new \in CaseStatus
    /\ r.pc \in Mailing => r.mail \in Message
    /\ r.pc = "mail" => r.channel \in Channel
    /\ r.pc \in {"comment", "link"} => r.case \in Case
    /\ r.pc \in Editing => r.channel \in Channel /\ r.edit \in ChannelRow /\ r.line \in Line
    /\ r.pc \in {"clear", "clearing"} => IsDefault(r.edit)
    /\ r.pc = "channel" => r.defaults = {}
Placed(r) == Fitted(r) /\ (r.pc # "idle" => r.id \in 1..begun)

CaseTyped ==
    /\ status \in [Case -> CaseStatus \cup {None}]
    /\ \A k \in Existing : status[k] # None
    /\ audit \subseteq Said /\ appending \subseteq Appended /\ lost \subseteq Said
HandlerTyped ==
    /\ handler \in [Handler -> HandlerRecord] /\ \A h \in Handler : Placed(handler[h])
    /\ \A g, h \in Handler :
         handler[g].pc # "idle" /\ handler[h].pc # "idle" /\ handler[g].id = handler[h].id => g = h
    /\ begun \in 0..MaxCalls
MailTyped ==
    /\ row \in [Message -> MessageRow] /\ comment \subseteq CommentRow
    /\ gone \subseteq 0..MaxCalls /\ unthreaded \subseteq 1..MaxCalls
TemplateTyped ==
    /\ template \in Template
    /\ cache \in Nat \cup {None}
    /\ notice \subseteq Notice
    /\ \A n \in notice : n.pc \in {"fetched", "send"} => n.version \in Nat
    /\ answered \in Nat
ChannelTyped ==
    /\ channel \in [Channel -> AnyChannel]
    /\ \A c \in Channel : channel[c].stored => channel[c].line \in Line
    /\ moved \subseteq Line /\ overlapped \in BOOLEAN

Typed == CaseTyped /\ HandlerTyped /\ MailTyped /\ TemplateTyped /\ ChannelTyped

LEMMA IdleTyped == Idle \in HandlerRecord /\ Fitted(Idle) /\ Placed(Idle) /\ Idle.pc = "idle"
BY CallsAssumption DEF Idle, HandlerRecord, HandlerPc, Fitted, Placed, Calling, Mailing, Editing

\* A handler that begins a call has a number of its own.
LEMMA BeginsTyped ==
    ASSUME HandlerTyped, NEW h \in Handler, NEW r \in HandlerRecord, Fitted(r), Begins(h, r)
    PROVE  /\ HandlerTyped'
           /\ begun' = begun + 1 /\ begun + 1 \in 1..MaxCalls
           /\ handler[h].pc = "idle"
           /\ \A g \in Handler \ {h} : handler'[g] = handler[g]
           /\ handler'[h] = [r EXCEPT !.id = begun + 1]
           /\ handler'[h].id = begun + 1
<1> DEFINE s == [r EXCEPT !.id = begun + 1]
<1>1. begun' = begun + 1 /\ begun + 1 \in 1..MaxCalls /\ begun \in Nat
  BY CallsAssumption DEF Begins, HandlerTyped
<1>2. s \in HandlerRecord
  BY <1>1 DEF HandlerRecord
<1>3. /\ s.pc = r.pc /\ s.case = r.case /\ s.new = r.new /\ s.mail = r.mail
      /\ s.channel = r.channel /\ s.edit = r.edit /\ s.line = r.line
      /\ s.defaults = r.defaults /\ s.id = begun + 1
  BY DEF HandlerRecord
<1>4. handler' = [handler EXCEPT ![h] = s] /\ handler[h].pc = "idle"
  BY DEF Begins
<1> HIDE DEF s
<1>5. Fitted(s)
  BY <1>3 DEF Fitted
<1>6. handler'[h] = s /\ \A g \in Handler \ {h} : handler'[g] = handler[g]
  BY <1>4 DEF HandlerTyped
<1>7. \A g \in Handler : Fitted(handler'[g])
  BY <1>5, <1>6 DEF HandlerTyped, Placed
<1>8. \A g \in Handler \ {h} : handler'[g].pc # "idle" => handler'[g].id \in 1..begun
  BY <1>6 DEF HandlerTyped, Placed
<1>9. \A g \in Handler : handler'[g].pc # "idle" => handler'[g].id \in 1..(begun + 1)
  BY <1>1, <1>3, <1>6, <1>8
<1>10. \A f, g \in Handler : handler'[f].pc # "idle" /\ handler'[g].pc # "idle"
                            /\ handler'[f].id = handler'[g].id => f = g
  <2> SUFFICES ASSUME NEW f \in Handler, NEW g \in Handler, handler'[f].pc # "idle",
                      handler'[g].pc # "idle", handler'[f].id = handler'[g].id
               PROVE  f = g
    OBVIOUS
  <2>1. CASE f # h /\ g # h
    BY <1>6, <2>1 DEF HandlerTyped
  <2>2. CASE f = h /\ g # h
    BY <1>1, <1>3, <1>6, <1>8, <2>2
  <2>3. CASE f # h /\ g = h
    BY <1>1, <1>3, <1>6, <1>8, <2>3
  <2> QED BY <2>1, <2>2, <2>3
<1>11. HandlerTyped'
  <2>1. handler' \in [Handler -> HandlerRecord]
    BY <1>2, <1>4 DEF HandlerTyped
  <2>2. begun' \in 0..MaxCalls
    BY <1>1
  <2>3. \A g \in Handler : Placed(handler[g])'
    BY <1>1, <1>7, <1>9 DEF Placed, Fitted
  <2> QED BY <1>10, <2>1, <2>2, <2>3 DEF HandlerTyped
<1> QED BY <1>1, <1>3, <1>4, <1>6, <1>11 DEF s

\* A handler that goes on, or ends.
LEMMA GoesTyped ==
    ASSUME HandlerTyped, NEW h \in Handler, NEW r \in HandlerRecord, Placed(r),
           r.pc = "idle" \/ (handler[h].pc # "idle" /\ r.id = handler[h].id), Goes(h, r)
    PROVE  /\ HandlerTyped' /\ begun' = begun
           /\ handler'[h] = r
           /\ \A g \in Handler \ {h} : handler'[g] = handler[g]
<1>1. handler' = [handler EXCEPT ![h] = r] /\ begun' = begun
  BY DEF Goes
<1>2. handler'[h] = r /\ \A g \in Handler \ {h} : handler'[g] = handler[g]
  BY <1>1 DEF HandlerTyped
<1>3. \A g \in Handler : Placed(handler[g])'
  BY <1>1, <1>2 DEF HandlerTyped, Placed, Fitted
<1>4. \A f, g \in Handler : handler'[f].pc # "idle" /\ handler'[g].pc # "idle"
                           /\ handler'[f].id = handler'[g].id => f = g
  BY <1>2 DEF HandlerTyped
<1> QED BY <1>1, <1>2, <1>3, <1>4 DEF HandlerTyped

LEMMA EndsTyped ==
    ASSUME HandlerTyped, NEW h \in Handler, Ends(h)
    PROVE  /\ HandlerTyped' /\ begun' = begun
           /\ handler'[h] = Idle
           /\ \A g \in Handler \ {h} : handler'[g] = handler[g]
BY IdleTyped, GoesTyped DEF Ends

\* The events there are.
LEMMA EventTyped ==
    ASSUME NEW k \in Case, NEW type \in EventType, NEW after \in CaseStatus \cup {None}
    PROVE  Event(k, type, after) \in Record
BY DEF Event, Record

LEMMA UnsaidTyped ==
    ASSUME Typed, NEW h \in Handler PROVE Unsaid(h) \subseteq Appended /\ Unsaid(h) \subseteq Said
<1> DEFINE r == handler[h]
<1>1. CASE r.pc # "emit" \/ ~r.tells
  BY <1>1 DEF Unsaid
<1>2. CASE r.pc = "emit" /\ r.tells
  <2>1. r \in HandlerRecord /\ Placed(r)
    BY DEF Typed, HandlerTyped
  <2>2. r.case \in Case /\ r.id \in 1..begun /\ r.new \in CaseStatus \cup {None}
    BY <1>2, <2>1 DEF Placed, Fitted, Calling, HandlerRecord
  <2>3. r.id \in 1..MaxCalls /\ r.id \in 0..MaxCalls
    BY <2>2, CallsAssumption DEF Typed, HandlerTyped
  <2> DEFINE e == IF r.new = None THEN Event(r.case, "created", None)
                  ELSE Event(r.case, "status.changed", r.new)
  <2>4. e \in Record
    BY <2>2, EventTyped DEF EventType
  <2>5. Unsaid(h) = {[id |-> r.id, event |-> e]}
    BY <1>2 DEF Unsaid
  <2> HIDE DEF e, r
  <2> QED BY <2>3, <2>4, <2>5 DEF Appended, Said
<1> QED BY <1>1, <1>2

LEMMA AppendedSaid == Appended \subseteq Said
BY CallsAssumption DEF Appended, Said

-----------------------------------------------------------------------------
(* Cases. *)

\* What a call reads, and what its save makes of it.
LoadsCase(h) == LoadForUpdate(h) \/ LoadForChange(h) \/ LoadForAssign(h)

LEMMA LoadShape ==
    ASSUME Typed, NEW h \in Handler, LoadsCase(h)
    PROVE  /\ HandlerTyped' /\ begun' = begun + 1
           /\ UNCHANGED << status, audit, appending, lost >>
           /\ handler[h].pc = "idle"
           /\ \A g \in Handler \ {h} : handler'[g] = handler[g]
           /\ handler'[h].pc = "save" /\ handler'[h].case \in Case
           /\ handler'[h].new \in CaseStatus
           /\ handler'[h].tells \/ handler'[h].new = status[handler'[h].case]
<1>0. status \in [Case -> CaseStatus \cup {None}]
  BY DEF Typed, CaseTyped
<1>1. PICK k \in Case, new \in CaseStatus, tells \in BOOLEAN :
        LoadCase(h, k, new, tells) /\ (tells \/ new = status[k])
  <2>1. CASE LoadForUpdate(h)
    <3>1. PICK k \in Case : \E new \in Targets \cup {status[k]} :
             LoadCase(h, k, new, Differs(new, status[k]))
      BY <2>1 DEF LoadForUpdate
    <3>2. PICK new \in Targets \cup {status[k]} : LoadCase(h, k, new, Differs(new, status[k]))
      BY <3>1
    <3>3. new \in CaseStatus
      BY <1>0, <3>2, TargetsAssumption DEF LoadCase
    <3> QED BY <3>2, <3>3 DEF Differs
  <2>2. CASE LoadForChange(h)
    BY <2>2, TargetsAssumption DEF LoadForChange
  <2>3. CASE LoadForAssign(h)
    <3>1. PICK k \in Case : LoadCase(h, k, status[k], FALSE)
      BY <2>3 DEF LoadForAssign
    <3>2. status[k] \in CaseStatus
      BY <1>0, <3>1 DEF LoadCase
    <3> QED BY <3>1, <3>2
  <2> QED BY <2>1, <2>2, <2>3 DEF LoadsCase
<1> DEFINE r == [Idle EXCEPT !.pc = "save", !.case = k, !.new = new, !.tells = tells]
<1>2. UNCHANGED << status, audit, appending, lost >> /\ Begins(h, r)
  BY <1>1 DEF LoadCase
<1>3. r \in HandlerRecord
  BY IdleTyped DEF HandlerRecord, HandlerPc
<1>4. r.pc = "save" /\ r.case = k /\ r.new = new /\ r.tells = tells
  BY IdleTyped DEF HandlerRecord
<1> HIDE DEF r
<1>5. Fitted(r)
  BY <1>4 DEF Fitted, Calling, Mailing, Editing
<1>6. /\ HandlerTyped' /\ begun' = begun + 1 /\ handler[h].pc = "idle"
      /\ \A g \in Handler \ {h} : handler'[g] = handler[g]
      /\ handler'[h] = [r EXCEPT !.id = begun + 1]
  BY <1>2, <1>3, <1>5, BeginsTyped DEF Typed
<1>7. /\ handler'[h].pc = "save" /\ handler'[h].case = k /\ handler'[h].new = new
      /\ handler'[h].tells = tells
  BY <1>3, <1>4, <1>6 DEF HandlerRecord
<1> QED BY <1>1, <1>2, <1>6, <1>7

LEMMA CreateShape ==
    ASSUME Typed, NEW h \in Handler, CreateCase(h)
    PROVE  /\ HandlerTyped' /\ begun' = begun + 1
           /\ UNCHANGED << audit, appending, lost >>
           /\ handler[h].pc = "idle"
           /\ \A g \in Handler \ {h} : handler'[g] = handler[g]
           /\ handler'[h].pc = "emit"
           /\ \E k \in Case : status' = [status EXCEPT ![k] = "New"]
<1>1. PICK k \in Case :
        /\ status' = [status EXCEPT ![k] = "New"]
        /\ Begins(h, [Idle EXCEPT !.pc = "emit", !.case = k, !.tells = TRUE])
        /\ UNCHANGED << audit, appending, lost >>
  BY DEF CreateCase
<1> DEFINE r == [Idle EXCEPT !.pc = "emit", !.case = k, !.tells = TRUE]
<1>2. r \in HandlerRecord
  BY IdleTyped DEF HandlerRecord, HandlerPc
<1>3. r.pc = "emit" /\ r.case = k /\ Begins(h, r)
  BY <1>1, IdleTyped DEF HandlerRecord
<1> HIDE DEF r
<1>4. Fitted(r)
  BY <1>3 DEF Fitted, Calling, Mailing, Editing
<1>5. /\ HandlerTyped' /\ begun' = begun + 1 /\ handler[h].pc = "idle"
      /\ \A g \in Handler \ {h} : handler'[g] = handler[g]
      /\ handler'[h] = [r EXCEPT !.id = begun + 1]
  BY <1>2, <1>3, <1>4, BeginsTyped DEF Typed
<1>6. handler'[h].pc = "emit"
  BY <1>2, <1>3, <1>5 DEF HandlerRecord
<1> QED BY <1>1, <1>5, <1>6

LEMMA SelectShape ==
    ASSUME Typed, NEW h \in Handler, SelectCase(h)
    PROVE  /\ HandlerTyped' /\ begun' = begun /\ handler[h].pc = "save"
           /\ UNCHANGED << status, audit, appending, lost >>
           /\ \A g \in Handler \ {h} : handler'[g] = handler[g]
           /\ handler'[h].pc = "write" /\ handler'[h].case = handler[h].case
           /\ handler'[h].new = handler[h].new /\ handler'[h].tells = handler[h].tells
<1> DEFINE r == [handler[h] EXCEPT !.pc = "write", !.found = status[handler[h].case]]
<1>1. handler[h].pc = "save" /\ handler[h] \in HandlerRecord /\ Placed(handler[h])
  BY DEF SelectCase, Typed, HandlerTyped
<1>2. handler[h].case \in Case /\ handler[h].new \in CaseStatus
  BY <1>1 DEF Placed, Fitted, Calling
<1>3. status[handler[h].case] \in CaseStatus \cup {None}
  BY <1>2 DEF Typed, CaseTyped
<1>4. r \in HandlerRecord
  BY <1>1, <1>3 DEF HandlerRecord, HandlerPc
<1>5. /\ r.pc = "write" /\ r.case = handler[h].case /\ r.new = handler[h].new
      /\ r.tells = handler[h].tells /\ r.id = handler[h].id
  BY <1>1 DEF HandlerRecord
<1>6. Goes(h, r)
  BY DEF SelectCase
<1> HIDE DEF r
<1>7. Placed(r)
  BY <1>1, <1>2, <1>5 DEF Placed, Fitted, Calling, Mailing, Editing
<1> QED BY <1>1, <1>4, <1>5, <1>6, <1>7, GoesTyped DEF SelectCase, Typed

LEMMA WriteShape ==
    ASSUME Typed, NEW h \in Handler, WriteCase(h)
    PROVE  /\ HandlerTyped' /\ begun' = begun /\ handler[h].pc = "write"
           /\ UNCHANGED << audit, appending, lost >>
           /\ \A g \in Handler \ {h} : handler'[g] = handler[g]
           /\ handler'[h].pc = "emit" /\ handler'[h].case = handler[h].case
           /\ handler'[h].new = handler[h].new /\ handler'[h].tells = handler[h].tells
           /\ handler[h].case \in Case /\ handler[h].new \in CaseStatus
           /\ \/ status' = status
              \/ status' = [status EXCEPT ![handler[h].case] = handler[h].new]
<1> DEFINE r == [handler[h] EXCEPT !.pc = "emit"]
<1>1. handler[h].pc = "write" /\ handler[h] \in HandlerRecord /\ Placed(handler[h])
  BY DEF WriteCase, Typed, HandlerTyped
<1>2. handler[h].case \in Case /\ handler[h].new \in CaseStatus
  BY <1>1 DEF Placed, Fitted, Calling
<1>3. r \in HandlerRecord
  BY <1>1 DEF HandlerRecord, HandlerPc
<1>4. /\ r.pc = "emit" /\ r.case = handler[h].case /\ r.new = handler[h].new
      /\ r.tells = handler[h].tells /\ r.id = handler[h].id
  BY <1>1 DEF HandlerRecord
<1>5. Goes(h, r)
  BY DEF WriteCase
<1> HIDE DEF r
<1>6. Placed(r)
  BY <1>1, <1>2, <1>4 DEF Placed, Fitted, Calling, Mailing, Editing
<1>7. /\ HandlerTyped' /\ begun' = begun /\ handler'[h] = r
      /\ \A g \in Handler \ {h} : handler'[g] = handler[g]
  BY <1>1, <1>3, <1>4, <1>5, <1>6, GoesTyped DEF Typed
<1> QED BY <1>1, <1>2, <1>4, <1>7 DEF WriteCase

\* A handler that ends: its event is emitted, or lost with it.
LEMMA EndShape ==
    ASSUME Typed, NEW h \in Handler, Emit(h) \/ Fails(h)
    PROVE  /\ HandlerTyped' /\ begun' = begun
           /\ status' = status /\ audit' = audit
           /\ \A g \in Handler \ {h} : handler'[g] = handler[g]
           /\ handler'[h].pc = "idle"
           /\ \/ appending' = appending \cup Unsaid(h) /\ lost' = lost
              \/ appending' = appending /\ lost' = lost \cup Unsaid(h)
BY EndsTyped, IdleTyped DEF Emit, Fails, Typed

LEMMA AppendShape ==
    ASSUME Typed, Append \/ AppendFails
    PROVE  /\ CaseTyped' /\ HandlerTyped'
           /\ UNCHANGED << status, handler, begun >>
           /\ appending' \subseteq appending
           /\ audit \cup lost \cup appending \subseteq audit' \cup lost' \cup appending'
<1>0. appending \subseteq Said
  BY AppendedSaid DEF Typed, CaseTyped
<1>1. UNCHANGED << status, handler, begun >>
  BY DEF Append, AppendFails
<1>2. HandlerTyped'
  BY <1>1 DEF Typed, HandlerTyped, Placed
<1>3. CASE Append
  BY <1>0, <1>1, <1>2, <1>3 DEF Append, Typed, CaseTyped
<1>4. CASE AppendFails
  BY <1>0, <1>1, <1>2, <1>4 DEF AppendFails, Typed, CaseTyped
<1> QED BY <1>3, <1>4

LEMMA CaseStepTyped ==
    ASSUME Typed, CaseStep PROVE CaseTyped' /\ HandlerTyped'
<1>0. CaseTyped
  BY DEF Typed
<1>1. ASSUME NEW h \in Handler, LoadsCase(h) \/ SelectCase(h)
      PROVE  CaseTyped' /\ HandlerTyped'
  BY <1>0, <1>1, LoadShape, SelectShape DEF CaseTyped
<1>2. ASSUME NEW h \in Handler, CreateCase(h) PROVE CaseTyped' /\ HandlerTyped'
  <2>1. PICK k \in Case : status' = [status EXCEPT ![k] = "New"]
    BY <1>2, CreateShape
  <2>2. "New" \in CaseStatus /\ "New" # None
    BY NoneAssumption DEF CaseStatus
  <2> QED BY <1>0, <1>2, <2>1, <2>2, CreateShape, ExistingAssumption DEF CaseTyped
<1>3. ASSUME NEW h \in Handler, WriteCase(h) PROVE CaseTyped' /\ HandlerTyped'
  <2>1. handler[h].new \in CaseStatus /\ handler[h].new # None /\ handler[h].case \in Case
    BY <1>3, WriteShape, NoneAssumption
  <2> QED BY <1>0, <1>3, <2>1, WriteShape, ExistingAssumption DEF CaseTyped
<1>4. ASSUME NEW h \in Handler, Emit(h) \/ Fails(h) PROVE CaseTyped' /\ HandlerTyped'
  BY <1>0, <1>4, EndShape, UnsaidTyped DEF CaseTyped
<1> QED BY <1>1, <1>2, <1>3, <1>4, AppendShape DEF CaseStep, LoadsCase

\* What is appended tells listeners of notifications, each of a typed event.
LEMMA NoticesTyped ==
    ASSUME TemplateTyped, appending' \subseteq Appended,
           notice' = notice \cup NoticesOf(appending' \ appending),
           UNCHANGED << template, cache, answered >>
    PROVE  TemplateTyped'
<1>1. ASSUME NEW n \in NoticesOf(appending' \ appending)
      PROVE  n \in Notice /\ n.pc = "start"
  BY <1>1 DEF NoticesOf, Appended, Notice
<1> QED BY <1>1 DEF TemplateTyped

-----------------------------------------------------------------------------
(* Mails. *)

\* A step that is not of a case: what it leaves alone, and whose it is.
Aside(h) ==
    /\ UNCHANGED << status, audit, appending, lost >>
    /\ handler[h].pc \notin Calling /\ handler'[h].pc \notin Calling
    /\ \A g \in Handler \ {h} : handler'[g] = handler[g]

LEMMA DeliverShape ==
    ASSUME Typed, NEW h \in Handler, Deliver(h)
    PROVE  /\ HandlerTyped' /\ begun' = begun + 1 /\ Aside(h) /\ UNCHANGED mailVars
           /\ handler'[h].pc \in {"idle", "mail"} /\ handler'[h].id = begun + 1
<1>1. PICK r \in {x \in HandlerRecord : Fitted(x) /\ x.pc \in {"idle", "mail"}} : Begins(h, r)
  <2>1. PICK m \in Message, c \in {x \in Channel : channel[x].stored} :
          Begins(h, IF row[m].id = 0
                    THEN [Idle EXCEPT !.pc = "mail", !.mail = m, !.channel = c]
                    ELSE Idle)
    BY DEF Deliver
  <2> DEFINE r == [Idle EXCEPT !.pc = "mail", !.mail = m, !.channel = c]
  <2>2. r \in HandlerRecord /\ r.pc = "mail" /\ r.mail = m /\ r.channel = c
    BY IdleTyped DEF HandlerRecord, HandlerPc
  <2>3. Begins(h, Idle) \/ Begins(h, r)
    BY <2>1
  <2> HIDE DEF r
  <2>4. Fitted(r)
    BY <2>2 DEF Fitted, Calling, Mailing, Editing
  <2> QED BY <2>2, <2>3, <2>4, IdleTyped
<1>2. /\ HandlerTyped' /\ begun' = begun + 1 /\ handler[h].pc = "idle"
      /\ \A g \in Handler \ {h} : handler'[g] = handler[g]
      /\ handler'[h] = [r EXCEPT !.id = begun + 1] /\ handler'[h].id = begun + 1
  BY <1>1, BeginsTyped DEF Typed
<1>3. handler'[h].pc = r.pc
  BY <1>1, <1>2 DEF HandlerRecord
<1> QED BY <1>1, <1>2, <1>3 DEF Deliver, Aside, Calling

\* The call that is at work on a mail, and its message and channel.
LEMMA AtMail ==
    ASSUME Typed, NEW h \in Handler, handler[h].pc \in Mailing
    PROVE  /\ handler[h] \in HandlerRecord /\ Placed(handler[h])
           /\ handler[h].mail \in Message /\ handler[h].id \in 1..begun
           /\ handler[h].id \in 1..MaxCalls /\ handler[h].pc \notin Calling
           /\ handler[h].pc \in {"comment", "link"} => handler[h].case \in Case
           /\ handler[h].pc = "mail" => handler[h].channel \in Channel
<1>1. handler[h] \in HandlerRecord /\ Placed(handler[h]) /\ begun \in 0..MaxCalls
  BY DEF Typed, HandlerTyped
<1>2. handler[h].id \in 1..begun
  BY <1>1 DEF Placed, Mailing
<1> QED BY <1>1, <1>2, CallsAssumption DEF Placed, Fitted, Mailing, Calling

LEMMA SaveMessageShape ==
    ASSUME Typed, NEW h \in Handler, SaveMessage(h)
    PROVE  /\ HandlerTyped' /\ begun' = begun /\ Aside(h) /\ handler[h].pc = "mail"
           /\ UNCHANGED << comment, gone, unthreaded >>
           /\ \/ row' = row /\ handler'[h].pc = "idle"
              \/ /\ row[handler[h].mail].id = 0
                 /\ row' = [row EXCEPT ![handler[h].mail] =
                              [id |-> handler[h].id, channel |-> handler[h].channel,
                               case |-> None]]
                 /\ handler'[h].pc = "thread" /\ handler'[h].id = handler[h].id
                 /\ handler'[h].mail = handler[h].mail
<1> DEFINE r == [handler[h] EXCEPT !.pc = "thread"]
<1>1. handler[h].pc = "mail" /\ handler[h].pc \in Mailing
  BY DEF SaveMessage, Mailing
<1>2. handler[h] \in HandlerRecord /\ Placed(handler[h]) /\ handler[h].pc \notin Calling
  BY <1>1, AtMail
<1>3. r \in HandlerRecord
  BY <1>2 DEF HandlerRecord, HandlerPc
<1>4. /\ r.pc = "thread" /\ r.mail = handler[h].mail /\ r.id = handler[h].id
  BY <1>2 DEF HandlerRecord
<1>5. UNCHANGED << status, audit, appending, lost, comment, gone, unthreaded >>
  BY DEF SaveMessage
<1>6. CASE Goes(h, r) /\ row[handler[h].mail].id = 0
           /\ row' = [row EXCEPT ![handler[h].mail] =
                        [id |-> handler[h].id, channel |-> handler[h].channel, case |-> None]]
  <2> HIDE DEF r
  <2>1. Placed(r)
    BY <1>1, <1>2, <1>4 DEF Placed, Fitted, Calling, Mailing, Editing
  <2>2. HandlerTyped' /\ begun' = begun /\ handler'[h] = r
        /\ \A g \in Handler \ {h} : handler'[g] = handler[g]
    BY <1>1, <1>3, <1>4, <1>6, <2>1, GoesTyped DEF Typed
  <2> QED BY <1>1, <1>2, <1>4, <1>5, <1>6, <2>2 DEF Aside, Calling
<1>7. CASE Ends(h) /\ row' = row
  BY <1>1, <1>2, <1>5, <1>7, EndsTyped, IdleTyped DEF Aside, Calling, Typed
<1> QED BY <1>6, <1>7 DEF SaveMessage

\* A case is found for the mail, or it ends there.
LEMMA ThreadShape ==
    ASSUME Typed, NEW h \in Handler, Thread(h)
    PROVE  /\ HandlerTyped' /\ begun' = begun /\ Aside(h) /\ handler[h].pc = "thread"
           /\ UNCHANGED << row, comment, gone >>
           /\ unthreaded' \in {unthreaded, unthreaded \cup {handler[h].id}}
           /\ \/ handler'[h].pc = "idle"
              \/ /\ handler'[h].pc = "comment" /\ handler'[h].id = handler[h].id
                 /\ handler'[h].mail = handler[h].mail
                 /\ \/ handler[h].id \in unthreaded'
                    \/ \E r \in Refers[handler[h].mail] :
                         Linked(r) /\ handler'[h].case = row[r].case
<1> DEFINE m == handler[h].mail
           known == {r \in Refers[m] : row[r].id # 0}
<1>1. handler[h].pc = "thread" /\ handler[h].pc \in Mailing
  BY DEF Thread, Mailing
<1>2. handler[h] \in HandlerRecord /\ Placed(handler[h]) /\ handler[h].pc \notin Calling
      /\ m \in Message
  BY <1>1, AtMail
<1>3. UNCHANGED << status, audit, appending, lost, row, comment, gone >>
  BY DEF Thread
<1>4. unthreaded' = IF known # {} /\ \A r \in known : Linked(r) THEN unthreaded
                    ELSE unthreaded \cup {handler[h].id}
  BY DEF Thread
<1>5. PICK r \in IF known = {} THEN {None} ELSE known :
        IF FindCase(m, r) # None /\ status[FindCase(m, r)] # None
        THEN Goes(h, [handler[h] EXCEPT !.pc = "comment", !.case = FindCase(m, r)])
        ELSE Ends(h)
  BY DEF Thread
<1>6. FindCase(m, r) \in Case \cup {None}
  <2>1. Subject[m] \in Case \cup {None}
    BY <1>2, MessageAssumption
  <2>2. known \subseteq Message
    BY <1>2, MessageAssumption
  <2>3. r # None => r \in Message
    BY <1>5, <2>2
  <2>4. r # None => row[r].case \in Case \cup {None}
    BY <2>3 DEF Typed, MailTyped, MessageRow
  <2> QED BY <2>1, <2>4 DEF FindCase
<1>7. CASE Ends(h)
  BY <1>1, <1>2, <1>3, <1>4, <1>7, EndsTyped, IdleTyped DEF Aside, Calling, Typed
<1>8. CASE FindCase(m, r) # None
           /\ Goes(h, [handler[h] EXCEPT !.pc = "comment", !.case = FindCase(m, r)])
  <2> DEFINE k == FindCase(m, r)
             s == [handler[h] EXCEPT !.pc = "comment", !.case = k]
  <2>1. k \in Case
    BY <1>6, <1>8
  <2> HIDE DEF k
  <2>2. s \in HandlerRecord
    BY <1>2, <2>1 DEF HandlerRecord, HandlerPc
  <2>3. s.pc = "comment" /\ s.mail = m /\ s.id = handler[h].id /\ s.case = k
    BY <1>2 DEF HandlerRecord
  <2>4. Goes(h, s)
    BY <1>8 DEF k
  <2> HIDE DEF s, m
  <2>5. Placed(s)
    BY <1>1, <1>2, <2>1, <2>3 DEF Placed, Fitted, Calling, Mailing, Editing
  <2>6. HandlerTyped' /\ begun' = begun /\ handler'[h] = s
        /\ \A g \in Handler \ {h} : handler'[g] = handler[g]
    BY <1>1, <2>2, <2>3, <2>4, <2>5, GoesTyped DEF Typed
  <2>7. handler[h].id \in unthreaded'
        \/ \E x \in Refers[m] : Linked(x) /\ handler'[h].case = row[x].case
    <3> SUFFICES ASSUME handler[h].id \notin unthreaded'
                 PROVE  \E x \in Refers[m] : Linked(x) /\ handler'[h].case = row[x].case
      OBVIOUS
    <3>1. known # {} /\ \A x \in known : Linked(x)
      BY <1>4
    <3>2. r \in Refers[m] /\ Linked(r)
      BY <1>5, <3>1
    <3>3. row[r].case # None
      BY <3>2 DEF Linked
    <3>4. r # None => k = row[r].case
      BY <3>2 DEF FindCase, k
    <3>5. CASE r # None
      BY <2>3, <2>6, <3>2, <3>4, <3>5
    <3>6. r # None
      BY <1>2, <3>2, MessageAssumption
    <3> QED BY <3>5, <3>6
  <2> QED BY <1>1, <1>2, <1>3, <1>4, <2>3, <2>6, <2>7 DEF Aside, Calling, m
<1> QED BY <1>5, <1>7, <1>8

LEMMA AddCommentShape ==
    ASSUME Typed, NEW h \in Handler, AddComment(h)
    PROVE  /\ HandlerTyped' /\ begun' = begun /\ Aside(h) /\ handler[h].pc = "comment"
           /\ UNCHANGED << row, gone, unthreaded >>
           /\ comment' = comment \cup {CommentOf(h)} /\ CommentOf(h) \in CommentRow
           /\ handler'[h].pc = "link" /\ handler'[h].id = handler[h].id
           /\ handler'[h].mail = handler[h].mail /\ handler'[h].case = handler[h].case
<1> DEFINE r == [handler[h] EXCEPT !.pc = "link"]
<1>1. handler[h].pc = "comment" /\ handler[h].pc \in Mailing
  BY DEF AddComment, Mailing
<1>2. /\ handler[h] \in HandlerRecord /\ Placed(handler[h]) /\ handler[h].pc \notin Calling
      /\ handler[h].mail \in Message /\ handler[h].case \in Case /\ handler[h].id \in 1..MaxCalls
  BY <1>1, AtMail
<1>3. r \in HandlerRecord
  BY <1>2 DEF HandlerRecord, HandlerPc
<1>4. /\ r.pc = "link" /\ r.mail = handler[h].mail /\ r.id = handler[h].id
      /\ r.case = handler[h].case
  BY <1>2 DEF HandlerRecord
<1>5. Goes(h, r)
  BY DEF AddComment
<1>6. CommentOf(h) \in CommentRow
  BY <1>2 DEF CommentOf, CommentRow
<1> HIDE DEF r
<1>7. Placed(r)
  BY <1>1, <1>2, <1>4 DEF Placed, Fitted, Calling, Mailing, Editing
<1>8. HandlerTyped' /\ begun' = begun /\ handler'[h] = r
      /\ \A g \in Handler \ {h} : handler'[g] = handler[g]
  BY <1>1, <1>3, <1>4, <1>5, <1>7, GoesTyped DEF Typed
<1> QED BY <1>1, <1>2, <1>4, <1>6, <1>8 DEF AddComment, Aside, Calling

LEMMA LinkMessageShape ==
    ASSUME Typed, NEW h \in Handler, LinkMessage(h)
    PROVE  /\ HandlerTyped' /\ begun' = begun /\ Aside(h) /\ handler[h].pc = "link"
           /\ UNCHANGED << comment, gone, unthreaded >>
           /\ handler'[h].pc = "idle"
           /\ \/ row' = row
              \/ /\ row[handler[h].mail].id = handler[h].id
                 /\ row' = [row EXCEPT ![handler[h].mail].case = handler[h].case]
<1>1. handler[h].pc = "link" /\ handler[h].pc \in Mailing
  BY DEF LinkMessage, Mailing
<1> QED BY <1>1, AtMail, EndsTyped, IdleTyped DEF LinkMessage, LinkRow, Aside, Calling, Typed

MailStep(h) == Deliver(h) \/ SaveMessage(h) \/ Thread(h) \/ AddComment(h) \/ LinkMessage(h)

LEMMA MailStepTyped ==
    ASSUME Typed, NEW h \in Handler, MailStep(h)
    PROVE  HandlerTyped' /\ MailTyped' /\ Aside(h)
<1>0. MailTyped
  BY DEF Typed
<1>1. CASE Deliver(h)
  BY <1>0, <1>1, DeliverShape DEF MailTyped, mailVars
<1>2. CASE SaveMessage(h)
  <2>1. handler[h].pc \in Mailing /\ handler[h].pc = "mail"
    BY <1>2, SaveMessageShape DEF Mailing
  <2>2. [id |-> handler[h].id, channel |-> handler[h].channel, case |-> None] \in MessageRow
    BY <2>1, AtMail, CallsAssumption DEF MessageRow
  <2> QED BY <1>0, <1>2, <2>2, SaveMessageShape DEF MailTyped
<1>3. CASE Thread(h)
  <2>1. handler[h].id \in 1..MaxCalls
    BY <1>3, AtMail, ThreadShape DEF Mailing
  <2> QED BY <1>0, <1>3, <2>1, ThreadShape DEF MailTyped
<1>4. CASE AddComment(h)
  BY <1>0, <1>4, AddCommentShape DEF MailTyped
<1>5. CASE LinkMessage(h)
  <2>1. handler[h].mail \in Message /\ handler[h].case \in Case
    BY <1>5, AtMail, LinkMessageShape DEF Mailing
  <2>2. [row[handler[h].mail] EXCEPT !.case = handler[h].case] \in MessageRow
    BY <1>0, <2>1 DEF MailTyped, MessageRow
  <2> QED BY <1>0, <1>5, <2>1, <2>2, LinkMessageShape DEF MailTyped
<1> QED BY <1>1, <1>2, <1>3, <1>4, <1>5 DEF MailStep

-----------------------------------------------------------------------------
(* Templates and notifications. *)

LEMMA EditTemplateShape ==
    ASSUME Typed, NEW h \in Handler, EditTemplate(h)
    PROVE  HandlerTyped' /\ begun' = begun + 1 /\ Aside(h) /\ handler'[h].pc = "template"
<1>1. PICK i \in 0..MaxCalls : Begins(h, [Idle EXCEPT !.pc = "template", !.template = i])
  <2>1. CASE Begins(h, [Idle EXCEPT !.pc = "template", !.template = begun + 1])
    <3>1. begun + 1 \in 0..MaxCalls
      BY <2>1, CallsAssumption DEF Begins, Typed, HandlerTyped
    <3> QED BY <2>1, <3>1
  <2>2. CASE Begins(h, [Idle EXCEPT !.pc = "template", !.template = template.id])
    <3>1. template.id \in 0..MaxCalls
      BY DEF Typed, TemplateTyped, Template
    <3> QED BY <2>2, <3>1
  <2> QED BY <2>1, <2>2 DEF EditTemplate
<1> DEFINE r == [Idle EXCEPT !.pc = "template", !.template = i]
<1>2. r \in HandlerRecord /\ r.pc = "template" /\ Begins(h, r)
  BY <1>1, IdleTyped DEF HandlerRecord, HandlerPc
<1> HIDE DEF r
<1>3. Fitted(r)
  BY <1>2 DEF Fitted, Calling, Mailing, Editing
<1>4. /\ HandlerTyped' /\ begun' = begun + 1 /\ handler[h].pc = "idle"
      /\ \A g \in Handler \ {h} : handler'[g] = handler[g]
      /\ handler'[h] = [r EXCEPT !.id = begun + 1]
  BY <1>2, <1>3, BeginsTyped DEF Typed
<1>5. handler'[h].pc = "template"
  BY <1>2, <1>4 DEF HandlerRecord
<1> QED BY <1>4, <1>5 DEF EditTemplate, Aside, Calling

LEMMA SaveTemplateShape ==
    ASSUME Typed, NEW h \in Handler, SaveTemplate(h)
    PROVE  /\ HandlerTyped' /\ begun' = begun /\ Aside(h)
           /\ handler'[h].pc \in {"idle", "saved"}
           /\ UNCHANGED << cache, notice, answered >>
           /\ template' \in Template
           /\ template'.version \in {template.version, template.version + 1}
<1> DEFINE r == [handler[h] EXCEPT !.pc = "saved"]
<1>1. handler[h].pc = "template" /\ handler[h] \in HandlerRecord /\ Placed(handler[h])
  BY DEF SaveTemplate, Typed, HandlerTyped
<1>2. handler[h].template \in 0..MaxCalls
  BY <1>1 DEF HandlerRecord
<1>3. template \in Template /\ template.version \in Nat
  BY DEF Typed, TemplateTyped, Template
<1>4. r \in HandlerRecord /\ r.pc = "saved" /\ r.id = handler[h].id
  BY <1>1 DEF HandlerRecord, HandlerPc
<1>5. UNCHANGED << status, audit, appending, lost, cache, notice, answered >>
  BY DEF SaveTemplate
<1>6. CASE Goes(h, r) /\ template' = [stored |-> TRUE, id |-> handler[h].template,
                                      version |-> template.version + 1]
  <2>1. template' \in Template /\ template'.version = template.version + 1
    BY <1>2, <1>3, <1>6 DEF Template
  <2> HIDE DEF r
  <2>2. Placed(r)
    BY <1>1, <1>4 DEF Placed, Fitted, Calling, Mailing, Editing
  <2>3. HandlerTyped' /\ begun' = begun /\ handler'[h] = r
        /\ \A g \in Handler \ {h} : handler'[g] = handler[g]
    BY <1>1, <1>4, <1>6, <2>2, GoesTyped DEF Typed
  <2> QED BY <1>1, <1>4, <1>5, <2>1, <2>3 DEF Aside, Calling
<1>7. CASE Ends(h) /\ template' = template
  BY <1>1, <1>3, <1>5, <1>7, EndsTyped, IdleTyped DEF Aside, Calling, Typed
<1> QED BY <1>6, <1>7 DEF SaveTemplate

\* A handler that only counts as a call.
LEMMA PassesShape ==
    ASSUME Typed, NEW h \in Handler, Begins(h, Idle), UNCHANGED << status, audit, appending, lost >>
    PROVE  HandlerTyped' /\ begun' = begun + 1 /\ Aside(h) /\ handler'[h].pc = "idle"
<1>1. /\ HandlerTyped' /\ begun' = begun + 1 /\ handler[h].pc = "idle"
      /\ \A g \in Handler \ {h} : handler'[g] = handler[g]
      /\ handler'[h] = [Idle EXCEPT !.id = begun + 1]
  BY BeginsTyped, IdleTyped DEF Typed
<1>2. handler'[h].pc = "idle"
  BY <1>1, IdleTyped DEF HandlerRecord
<1> QED BY <1>1, <1>2 DEF Aside, Calling

TemplateStep(h) == EditTemplate(h) \/ SaveTemplate(h) \/ RemoveTemplate(h) \/ Invalidate(h)

LEMMA TemplateStepTyped ==
    ASSUME Typed, NEW h \in Handler, TemplateStep(h)
    PROVE  /\ HandlerTyped' /\ TemplateTyped' /\ Aside(h) /\ begun' \in {begun, begun + 1}
           /\ handler'[h].pc \in {"idle", "template", "saved"}
<1>0. TemplateTyped
  BY DEF Typed
<1>1. CASE EditTemplate(h)
  BY <1>0, <1>1, EditTemplateShape DEF EditTemplate, TemplateTyped, templateVars
<1>2. CASE SaveTemplate(h)
  BY <1>0, <1>2, SaveTemplateShape DEF TemplateTyped
<1>3. CASE RemoveTemplate(h)
  <2>1. template' \in Template
    BY <1>0, <1>3 DEF RemoveTemplate, TemplateTyped, Template
  <2> QED BY <1>0, <1>3, <2>1, PassesShape DEF RemoveTemplate, TemplateTyped
<1>4. CASE Invalidate(h)
  <2>1. answered' \in Nat
    BY <1>0, <1>4 DEF Invalidate, TemplateTyped, Template
  <2> QED BY <1>0, <1>4, <2>1, EndsTyped, IdleTyped
          DEF Invalidate, TemplateTyped, Aside, Calling, Typed
<1> QED BY <1>1, <1>2, <1>3, <1>4 DEF TemplateStep

\* The record a notification becomes; Drops is a step to none.
LEMMA NotifyShape ==
    ASSUME Typed, NEW n \in notice, Notify(n)
    PROVE  /\ UNCHANGED << template, answered >>
           /\ \/ notice' = notice \ {n} /\ cache' = cache
              \/ \E to \in Notice :
                   /\ notice' = (notice \ {n}) \cup {to}
                   /\ \/ to.pc = "fetch" /\ to.floor = answered /\ cache' = cache
                      \/ /\ to.pc = "send" /\ to.floor = answered /\ cache' = cache
                         /\ to.version = cache /\ cache # None
                      \/ /\ to.pc = "fetched" /\ to.floor = n.floor /\ cache' = cache
                         /\ to.version = template.version
                      \/ /\ n.pc = "fetched" /\ to.pc = "send" /\ to.floor = n.floor
                         /\ to.version = n.version /\ cache' = n.version
<1>0. /\ n \in Notice /\ template \in Template /\ answered \in Nat
      /\ cache \in Nat \cup {None}
  BY DEF Typed, TemplateTyped
<1>1. CASE Render(n)
  <2>1. CASE cache = None
    <3> DEFINE to == [n EXCEPT !.pc = "fetch", !.floor = answered]
    <3>1. to \in Notice /\ to.pc = "fetch" /\ to.floor = answered
      BY <1>0 DEF Notice
    <3>2. notice' = (notice \ {n}) \cup {to}
      BY <1>1, <2>1 DEF Render, Moves
    <3> QED BY <1>1, <3>1, <3>2 DEF Render
  <2>2. CASE cache # None
    <3> DEFINE to == [n EXCEPT !.pc = "send", !.floor = answered, !.version = cache]
    <3>1. to \in Notice /\ to.pc = "send" /\ to.floor = answered /\ to.version = cache
      BY <1>0 DEF Notice
    <3>2. notice' = (notice \ {n}) \cup {to}
      BY <1>1, <2>2 DEF Render, Moves
    <3> QED BY <1>1, <2>2, <3>1, <3>2 DEF Render
  <2> QED BY <2>1, <2>2
<1>2. CASE Fetch(n)
  <2>1. CASE template.stored
    <3> DEFINE to == [n EXCEPT !.pc = "fetched", !.version = template.version]
    <3>1. to \in Notice /\ to.pc = "fetched" /\ to.floor = n.floor
          /\ to.version = template.version
      BY <1>0 DEF Notice, Template
    <3>2. notice' = (notice \ {n}) \cup {to}
      BY <1>2, <2>1 DEF Fetch, Moves
    <3> QED BY <1>2, <3>1, <3>2 DEF Fetch
  <2>2. CASE ~template.stored
    BY <1>2, <2>2 DEF Fetch, Drops
  <2> QED BY <2>1, <2>2
<1>3. CASE Keep(n)
  <2> DEFINE to == [n EXCEPT !.pc = "send"]
  <2>1. to \in Notice /\ to.pc = "send" /\ to.floor = n.floor /\ to.version = n.version
    BY <1>0 DEF Notice
  <2>2. notice' = (notice \ {n}) \cup {to}
    BY <1>3 DEF Keep, Moves
  <2> QED BY <1>3, <2>1, <2>2 DEF Keep
<1>4. CASE Send(n) \/ GiveUp(n)
  BY <1>4 DEF Send, GiveUp, Drops
<1> QED BY <1>1, <1>2, <1>3, <1>4 DEF Notify

LEMMA NotifyTyped ==
    ASSUME Typed, NEW n \in notice, Notify(n) PROVE TemplateTyped'
<1>0. /\ template \in Template /\ answered \in Nat
      /\ cache \in Nat \cup {None} /\ notice \subseteq Notice
      /\ \A x \in notice : x.pc \in {"fetched", "send"} => x.version \in Nat
      /\ template.version \in Nat
  BY DEF Typed, TemplateTyped, Template
<1>1. CASE notice' = notice \ {n} /\ cache' = cache
  BY <1>0, <1>1, NotifyShape DEF TemplateTyped
<1>2. ASSUME NEW to \in Notice, notice' = (notice \ {n}) \cup {to},
             to.pc \in {"fetched", "send"} => to.version \in Nat,
             cache' \in Nat \cup {None}
      PROVE  TemplateTyped'
  BY <1>0, <1>2, NotifyShape DEF TemplateTyped
<1>3. \/ notice' = notice \ {n} /\ cache' = cache
      \/ \E to \in Notice :
           /\ notice' = (notice \ {n}) \cup {to}
           /\ to.pc \in {"fetched", "send"} => to.version \in Nat
           /\ cache' \in Nat \cup {None}
  BY <1>0, NotifyShape
<1> QED BY <1>1, <1>2, <1>3

-----------------------------------------------------------------------------
(* Channels. *)

\* The rows of channels an edit may ask for.
LEMMA RowTyped ==
    ASSUME NEW e \in ChannelRow
    PROVE  e \in AnyChannel /\ e.stored /\ e.line \in Line
BY DEF ChannelRow, AnyChannel

LEMMA EditChannelShape ==
    ASSUME Typed, NEW h \in Handler, EditChannel(h)
    PROVE  /\ HandlerTyped' /\ begun' = begun + 1 /\ Aside(h)
           /\ UNCHANGED channel
           /\ overlapped' = (overlapped \/ \E g \in Handler : EditsChannel(g))
           /\ moved \subseteq moved' /\ moved' \subseteq Line
           /\ handler[h].pc = "idle"
           /\ \/ /\ handler'[h].pc = "clear"
                 /\ handler'[h].edit.line = handler'[h].line
                      \/ handler'[h].edit.line \in moved'
              \/ /\ handler'[h].pc = "channel"
                 /\ handler'[h].channel \in Channel
                 /\ IsDefault(handler'[h].edit) =>
                      \/ handler'[h].edit.line \in moved'
                      \/ /\ IsDefault(channel[handler'[h].channel])
                         /\ channel[handler'[h].channel].line = handler'[h].edit.line
<1>1. PICK c \in Channel, new \in ChannelRow, asks \in BOOLEAN :
        LET e == channel[c]
            creates == e = NoChannel
            clears == IF creates THEN new.line ELSE e.line
        IN
        /\ e.stored \/ creates
        /\ IF asks THEN new.smtp /\ new.default ELSE new.default => e.default
        /\ Begins(h, [Idle EXCEPT !.pc = IF asks THEN "clear" ELSE "channel",
                                  !.channel = c, !.edit = new, !.line = clears])
        /\ moved' = IF IsDefault(new) /\ ~(IF asks THEN clears = new.line
                                          ELSE IsDefault(e) /\ e.line = new.line)
                    THEN moved \cup {new.line} ELSE moved
  BY DEF EditChannel
<1> DEFINE l == IF channel[c] = NoChannel THEN new.line ELSE channel[c].line
           pc == IF asks THEN "clear" ELSE "channel"
           r == [Idle EXCEPT !.pc = pc, !.channel = c, !.edit = new, !.line = l]
<1>2. l \in Line /\ new.stored /\ new.line \in Line
  BY <1>1, RowTyped DEF Typed, ChannelTyped
<1>3. Begins(h, r)
  BY <1>1
<1>4. asks => IsDefault(new)
  BY <1>1, <1>2 DEF IsDefault
<1>5. moved' = IF IsDefault(new) /\ ~(IF asks THEN l = new.line
                                     ELSE IsDefault(channel[c]) /\ channel[c].line = new.line)
               THEN moved \cup {new.line} ELSE moved
  BY <1>1
<1>a. pc \in HandlerPc /\ pc \in {"clear", "channel"} /\ (pc = "clear" <=> asks)
  BY DEF HandlerPc
<1> HIDE DEF l, pc
<1>6. r \in HandlerRecord
  BY <1>2, <1>a, IdleTyped DEF HandlerRecord
<1>7. r.pc = pc /\ r.channel = c /\ r.edit = new /\ r.line = l /\ r.defaults = {}
  BY IdleTyped DEF HandlerRecord, Idle
<1> HIDE DEF r
<1>8. Fitted(r)
  BY <1>2, <1>4, <1>7, <1>a DEF Fitted, Calling, Mailing, Editing
<1>9. /\ HandlerTyped' /\ begun' = begun + 1 /\ handler[h].pc = "idle"
      /\ \A g \in Handler \ {h} : handler'[g] = handler[g]
      /\ handler'[h] = [r EXCEPT !.id = begun + 1]
  BY <1>3, <1>6, <1>8, BeginsTyped DEF Typed
<1>10. /\ handler'[h].pc = pc /\ handler'[h].channel = c /\ handler'[h].edit = new
       /\ handler'[h].line = l
  BY <1>6, <1>7, <1>9 DEF HandlerRecord
<1>11. moved \subseteq moved' /\ moved' \subseteq Line
  BY <1>2, <1>5 DEF Typed, ChannelTyped
<1>12. /\ UNCHANGED channel /\ UNCHANGED << status, audit, appending, lost >>
       /\ overlapped' = (overlapped \/ \E g \in Handler : EditsChannel(g))
  BY DEF EditChannel
<1>13. CASE asks
  BY <1>4, <1>5, <1>9, <1>10, <1>11, <1>12, <1>13, <1>a DEF Aside, Calling
<1>14. CASE ~asks
  BY <1>5, <1>9, <1>10, <1>11, <1>12, <1>14, <1>a DEF Aside, Calling
<1> QED BY <1>13, <1>14

\* The handler of an edit, and what it holds.
LEMMA AtChannel ==
    ASSUME Typed, NEW h \in Handler, handler[h].pc \in Editing
    PROVE  /\ handler[h] \in HandlerRecord /\ Placed(handler[h])
           /\ handler[h].channel \in Channel /\ handler[h].edit \in ChannelRow
           /\ handler[h].line \in Line /\ handler[h].defaults \subseteq Channel
           /\ handler[h].pc \notin Calling
           /\ handler[h].pc \in {"clear", "clearing"} => IsDefault(handler[h].edit)
<1>1. handler[h] \in HandlerRecord /\ Placed(handler[h])
  BY DEF Typed, HandlerTyped
<1>2. handler[h].defaults \subseteq Channel
  BY <1>1 DEF HandlerRecord
<1> QED BY <1>1, <1>2 DEF Placed, Fitted, Editing, Calling

LEMMA FindDefaultsShape ==
    ASSUME Typed, NEW h \in Handler, FindDefaults(h)
    PROVE  /\ HandlerTyped' /\ begun' = begun /\ Aside(h) /\ UNCHANGED channelVars
           /\ handler[h].pc = "clear" /\ handler'[h].pc = "clearing"
           /\ handler'[h].defaults = Defaults(handler[h].line)
           /\ handler'[h].line = handler[h].line /\ handler'[h].edit = handler[h].edit
<1> DEFINE r == [handler[h] EXCEPT !.pc = "clearing", !.defaults = Defaults(handler[h].line)]
<1>1. handler[h].pc = "clear" /\ handler[h].pc \in Editing
  BY DEF FindDefaults, Editing
<1>2. handler[h] \in HandlerRecord /\ Placed(handler[h]) /\ handler[h].pc \notin Calling
  BY <1>1, AtChannel
<1>3. Defaults(handler[h].line) \in SUBSET Channel
  BY DEF Defaults
<1>4. r \in HandlerRecord
  BY <1>2, <1>3 DEF HandlerRecord, HandlerPc
<1>5. /\ r.pc = "clearing" /\ r.channel = handler[h].channel /\ r.edit = handler[h].edit
      /\ r.line = handler[h].line /\ r.id = handler[h].id
      /\ r.defaults = Defaults(handler[h].line)
  BY <1>2 DEF HandlerRecord
<1>6. Goes(h, r)
  BY DEF FindDefaults
<1> HIDE DEF r
<1>7. Placed(r)
  BY <1>1, <1>2, <1>5 DEF Placed, Fitted, Calling, Mailing, Editing
<1>8. HandlerTyped' /\ begun' = begun /\ handler'[h] = r
      /\ \A g \in Handler \ {h} : handler'[g] = handler[g]
  BY <1>1, <1>4, <1>5, <1>6, <1>7, GoesTyped DEF Typed
<1> QED BY <1>1, <1>2, <1>5, <1>8 DEF FindDefaults, Aside, Calling

LEMMA ClearDefaultShape ==
    ASSUME Typed, NEW h \in Handler, ClearDefault(h)
    PROVE  /\ HandlerTyped' /\ begun' = begun /\ Aside(h) /\ UNCHANGED << moved, overlapped >>
           /\ handler[h].pc = "clearing" /\ handler'[h].pc = "clearing"
           /\ handler'[h].line = handler[h].line /\ handler'[h].edit = handler[h].edit
           /\ \E c \in Channel :
                /\ channel' = [channel EXCEPT ![c] = [stored |-> TRUE, line |-> handler[h].line,
                                                     smtp |-> TRUE, default |-> FALSE]]
                /\ handler'[h].defaults = handler[h].defaults \ {c}
<1>1. handler[h].pc = "clearing" /\ handler[h].pc \in Editing
  BY DEF ClearDefault, Editing
<1>2. handler[h] \in HandlerRecord /\ Placed(handler[h]) /\ handler[h].pc \notin Calling
      /\ handler[h].defaults \subseteq Channel
  BY <1>1, AtChannel
<1>3. PICK c \in handler[h].defaults :
        /\ channel' = [channel EXCEPT ![c] = [stored |-> TRUE, line |-> handler[h].line,
                                             smtp |-> TRUE, default |-> FALSE]]
        /\ Goes(h, [handler[h] EXCEPT !.defaults = @ \ {c}])
  BY DEF ClearDefault
<1> DEFINE r == [handler[h] EXCEPT !.defaults = @ \ {c}]
<1>4. r \in HandlerRecord /\ c \in Channel
  BY <1>2 DEF HandlerRecord
<1>5. /\ r.pc = "clearing" /\ r.channel = handler[h].channel /\ r.edit = handler[h].edit
      /\ r.line = handler[h].line /\ r.id = handler[h].id
      /\ r.defaults = handler[h].defaults \ {c}
  BY <1>1, <1>2 DEF HandlerRecord
<1>6. Goes(h, r)
  BY <1>3
<1> HIDE DEF r
<1>7. Placed(r)
  BY <1>1, <1>2, <1>5 DEF Placed, Fitted, Calling, Mailing, Editing
<1>8. HandlerTyped' /\ begun' = begun /\ handler'[h] = r
      /\ \A g \in Handler \ {h} : handler'[g] = handler[g]
  BY <1>1, <1>4, <1>5, <1>6, <1>7, GoesTyped DEF Typed
<1> QED BY <1>1, <1>2, <1>3, <1>4, <1>5, <1>8 DEF ClearDefault, Aside, Calling

LEMMA SaveChannelShape ==
    ASSUME Typed, NEW h \in Handler, SaveChannel(h)
    PROVE  /\ HandlerTyped' /\ begun' = begun /\ Aside(h) /\ UNCHANGED << moved, overlapped >>
           /\ handler[h].pc \in {"clearing", "channel"} /\ handler[h].defaults = {}
           /\ handler[h].channel \in Channel /\ handler[h].edit \in ChannelRow
           /\ handler[h].line \in Line
           /\ handler'[h].pc = "idle"
           /\ channel' = [channel EXCEPT ![handler[h].channel] = handler[h].edit]
<1>1. handler[h].pc \in {"clearing", "channel"} /\ handler[h].pc \in Editing
  BY DEF SaveChannel, Editing
<1> QED BY <1>1, AtChannel, EndsTyped, IdleTyped DEF SaveChannel, Aside, Calling, Typed

LEMMA RemoveChannelShape ==
    ASSUME Typed, NEW h \in Handler, RemoveChannel(h)
    PROVE  /\ HandlerTyped' /\ begun' = begun + 1 /\ Aside(h)
           /\ UNCHANGED << comment, unthreaded, moved, overlapped >>
           /\ handler'[h].pc = "idle"
           /\ \E c \in Channel :
                /\ channel' = [channel EXCEPT ![c].stored = FALSE]
                /\ row' = [m \in Message |-> IF row[m].channel = c THEN NoRow ELSE row[m]]
                /\ gone' = gone \cup {row[m].id : m \in {x \in Message : row[x].channel = c}}
<1>1. PICK c \in Channel :
        LET its == {m \in Message : row[m].channel = c} IN
        /\ channel' = [channel EXCEPT ![c].stored = FALSE]
        /\ row' = [m \in Message |-> IF m \in its THEN NoRow ELSE row[m]]
        /\ gone' = gone \cup {row[m].id : m \in its}
  BY DEF RemoveChannel
<1> QED BY <1>1, PassesShape DEF RemoveChannel

ChannelStep(h) == EditChannel(h) \/ FindDefaults(h) \/ ClearDefault(h) \/ SaveChannel(h)

LEMMA ChannelStepTyped ==
    ASSUME Typed, NEW h \in Handler, ChannelStep(h)
    PROVE  /\ HandlerTyped' /\ ChannelTyped' /\ Aside(h) /\ begun' \in {begun, begun + 1}
           /\ handler'[h].pc \in Editing \cup {"idle"}
<1>0. ChannelTyped
  BY DEF Typed
<1>1. CASE EditChannel(h)
  <2>1. overlapped' \in BOOLEAN
    BY <1>0, <1>1, EditChannelShape DEF ChannelTyped
  <2>2. /\ HandlerTyped' /\ Aside(h) /\ begun' = begun + 1 /\ UNCHANGED channel
        /\ moved' \subseteq Line /\ handler'[h].pc \in {"clear", "channel"}
    BY <1>1, EditChannelShape
  <2>3. ChannelTyped'
    BY <1>0, <2>1, <2>2 DEF ChannelTyped
  <2> QED BY <2>2, <2>3 DEF Editing
<1>2. CASE FindDefaults(h)
  BY <1>0, <1>2, FindDefaultsShape DEF ChannelTyped, channelVars, Editing
<1>3. CASE ClearDefault(h)
  <2>1. handler[h].line \in Line
    BY <1>3, ClearDefaultShape, AtChannel DEF Editing
  <2>2. [stored |-> TRUE, line |-> handler[h].line, smtp |-> TRUE, default |-> FALSE] \in AnyChannel
    BY <2>1 DEF AnyChannel
  <2> DEFINE e == [stored |-> TRUE, line |-> handler[h].line, smtp |-> TRUE, default |-> FALSE]
  <2>3. e \in AnyChannel /\ e.line \in Line
    BY <2>1, <2>2
  <2>4. PICK c \in Channel : channel' = [channel EXCEPT ![c] = e]
    BY <1>3, ClearDefaultShape
  <2> HIDE DEF e
  <2>5. ChannelTyped'
    BY <1>0, <1>3, <2>3, <2>4, ClearDefaultShape DEF ChannelTyped
  <2> QED BY <1>3, <2>5, ClearDefaultShape DEF Editing
<1>4. CASE SaveChannel(h)
  BY <1>0, <1>4, SaveChannelShape, RowTyped DEF ChannelTyped
<1> QED BY <1>1, <1>2, <1>3, <1>4 DEF ChannelStep

LEMMA RemoveChannelTyped ==
    ASSUME Typed, NEW h \in Handler, RemoveChannel(h) PROVE MailTyped' /\ ChannelTyped'
<1>0. MailTyped /\ ChannelTyped
  BY DEF Typed
<1>1. PICK c \in Channel :
        /\ channel' = [channel EXCEPT ![c].stored = FALSE]
        /\ row' = [m \in Message |-> IF row[m].channel = c THEN NoRow ELSE row[m]]
        /\ gone' = gone \cup {row[m].id : m \in {x \in Message : row[x].channel = c}}
  BY RemoveChannelShape
<1>2. NoRow \in MessageRow
  BY CallsAssumption DEF NoRow, MessageRow
<1>3. row' \in [Message -> MessageRow]
  BY <1>0, <1>1, <1>2 DEF MailTyped
<1>4. \A m \in Message : row[m].id \in 0..MaxCalls
  BY <1>0 DEF MailTyped, MessageRow
<1>5. gone' \subseteq 0..MaxCalls
  BY <1>0, <1>1, <1>4 DEF MailTyped
<1>6. [channel[c] EXCEPT !.stored = FALSE] \in AnyChannel
      /\ [channel[c] EXCEPT !.stored = FALSE].line = channel[c].line
      /\ ~[channel[c] EXCEPT !.stored = FALSE].stored
  BY <1>0 DEF ChannelTyped, AnyChannel
<1>7. channel' \in [Channel -> AnyChannel]
      /\ \A d \in Channel : channel'[d].stored => channel'[d].line \in Line
  BY <1>0, <1>1, <1>6 DEF ChannelTyped
<1> QED BY <1>0, <1>3, <1>5, <1>7, RemoveChannelShape DEF MailTyped, ChannelTyped

-----------------------------------------------------------------------------
(* The steps of Next, each with what it leaves alone. *)

CaseNext == /\ CaseStep
            /\ notice' = notice \cup NoticesOf(appending' \ appending)
            /\ UNCHANGED << mailVars, template, cache, answered, channelVars >>
MailNext(h) == MailStep(h) /\ UNCHANGED << templateVars, channelVars >>
TemplateNext(h) == TemplateStep(h) /\ UNCHANGED << mailVars, channelVars >>
ChannelNext(h) == ChannelStep(h) /\ UNCHANGED << mailVars, templateVars >>
RemoveNext(h) == RemoveChannel(h) /\ UNCHANGED templateVars
NoticeNext(n) == Notify(n) /\ UNCHANGED << caseVars, mailVars, channelVars >>

LEMMA Steps ==
    [Next]_vars <=> \/ CaseNext
                    \/ \E h \in Handler : MailNext(h) \/ TemplateNext(h) \/ ChannelNext(h)
                                             \/ RemoveNext(h)
                    \/ \E n \in notice : NoticeNext(n)
                    \/ Crash
                    \/ UNCHANGED vars
BY DEF Next, CaseNext, MailNext, TemplateNext, ChannelNext, RemoveNext, NoticeNext, MailStep,
       TemplateStep, ChannelStep

LEMMA InitTyped == Init => Typed
<1> SUFFICES ASSUME Init PROVE Typed
  OBVIOUS
<1>1. CaseTyped
  <2>1. \A k \in Case : Event(k, "created", None) \in Record
    BY EventTyped DEF EventType
  <2>2. audit \subseteq Said
    BY <2>1, ExistingAssumption, CallsAssumption DEF Init, CaseInit, Said
  <2>3. "New" \in CaseStatus /\ "New" # None
    BY NoneAssumption DEF CaseStatus
  <2> QED BY <2>2, <2>3, ExistingAssumption DEF Init, CaseInit, CaseTyped
<1>2. HandlerTyped
  BY IdleTyped, CallsAssumption DEF Init, CaseInit, HandlerTyped
<1>3. MailTyped
  BY CallsAssumption DEF Init, MailTyped, NoRow, MessageRow
<1>4. TemplateTyped
  BY CallsAssumption DEF Init, TemplateTyped, Template
<1>5. ChannelTyped
  <2>1. PICK l \in Line : channel = [c \in Channel |-> IF c \in Made
                                     THEN [NoChannel EXCEPT !.stored = TRUE, !.line = l]
                                     ELSE NoChannel]
    BY DEF Init
  <2>2. NoChannel \in AnyChannel /\ ~NoChannel.stored
    BY DEF NoChannel, AnyChannel
  <2>3. [NoChannel EXCEPT !.stored = TRUE, !.line = l] \in AnyChannel
        /\ [NoChannel EXCEPT !.stored = TRUE, !.line = l].line = l
    BY <2>2 DEF AnyChannel
  <2>4. channel \in [Channel -> AnyChannel]
        /\ \A c \in Channel : channel[c].stored => channel[c].line \in Line
    BY <2>1, <2>2, <2>3
  <2> QED BY <2>4 DEF Init, ChannelTyped
<1> QED BY <1>1, <1>2, <1>3, <1>4, <1>5 DEF Typed

LEMMA StepTyped ==
    ASSUME Typed, [Next]_vars PROVE Typed'
<1>0. CaseTyped /\ HandlerTyped /\ MailTyped /\ TemplateTyped /\ ChannelTyped
  BY DEF Typed
<1>a. UNCHANGED mailVars => MailTyped'
  BY <1>0 DEF MailTyped, mailVars
<1>b. UNCHANGED channelVars => ChannelTyped'
  BY <1>0 DEF ChannelTyped, channelVars
<1>c. UNCHANGED templateVars => TemplateTyped'
  BY <1>0 DEF TemplateTyped, templateVars
<1>d. ASSUME NEW h \in Handler, Aside(h) PROVE CaseTyped'
  BY <1>0, <1>d DEF CaseTyped, Aside
<1>1. CASE CaseNext
  <2>1. CaseTyped' /\ HandlerTyped'
    BY <1>1, CaseStepTyped DEF CaseNext
  <2>2. appending' \subseteq Appended
    BY <2>1 DEF CaseTyped
  <2>3. TemplateTyped'
    BY <1>0, <1>1, <2>2, NoticesTyped DEF CaseNext
  <2> QED BY <1>1, <1>a, <1>b, <2>1, <2>3 DEF CaseNext, Typed
<1>2. ASSUME NEW h \in Handler, MailNext(h) PROVE Typed'
  BY <1>2, <1>b, <1>c, <1>d, MailStepTyped DEF MailNext, Typed
<1>3. ASSUME NEW h \in Handler, TemplateNext(h) PROVE Typed'
  BY <1>3, <1>a, <1>b, <1>d, TemplateStepTyped DEF TemplateNext, Typed
<1>4. ASSUME NEW h \in Handler, ChannelNext(h) PROVE Typed'
  BY <1>4, <1>a, <1>c, <1>d, ChannelStepTyped DEF ChannelNext, Typed
<1>5. ASSUME NEW h \in Handler, RemoveNext(h) PROVE Typed'
  BY <1>5, <1>c, <1>d, RemoveChannelTyped, RemoveChannelShape DEF RemoveNext, Typed
<1>6. ASSUME NEW n \in notice, NoticeNext(n) PROVE Typed'
  <2>1. UNCHANGED caseVars
    BY <1>6 DEF NoticeNext
  <2>2. CaseTyped' /\ HandlerTyped'
    BY <1>0, <2>1 DEF caseVars, CaseTyped, HandlerTyped, Placed
  <2> QED BY <1>6, <1>a, <1>b, <2>2, NotifyTyped DEF NoticeNext, Typed
<1>7. CASE Crash
  <2>1. UNION {Unsaid(h) : h \in Handler} \subseteq Said /\ appending \subseteq Said
    BY UnsaidTyped, AppendedSaid DEF Typed, CaseTyped
  <2>2. CaseTyped'
    BY <1>0, <1>7, <2>1 DEF Crash, CaseTyped
  <2>3. HandlerTyped'
    BY <1>0, <1>7, IdleTyped DEF Crash, HandlerTyped, Placed
  <2>4. TemplateTyped'
    BY <1>0, <1>7 DEF Crash, TemplateTyped
  <2> QED BY <1>7, <1>a, <1>b, <2>2, <2>3, <2>4 DEF Crash, Typed
<1>8. CASE UNCHANGED vars
  BY <1>0, <1>8, <1>a, <1>b, <1>c
     DEF vars, caseVars, CaseTyped, HandlerTyped, Placed, Typed
<1> QED BY <1>1, <1>2, <1>3, <1>4, <1>5, <1>6, <1>7, <1>8, Steps

-----------------------------------------------------------------------------
(* Statuses and their events. *)

\* A status that a call has read and will save is told.
ReadIsTold ==
    \A h \in Handler :
       /\ handler[h].pc \in {"save", "write"}
       /\ ~handler[h].tells /\ handler[h].new # "New"
       => \E a \in Told : a.event = Event(handler[h].case, "status.changed", handler[h].new)
StatusInv == StatusIsTold /\ ReadIsTold

\* What was told stays told.
LEMMA ToldKept ==
    ASSUME audit \cup lost \cup appending \subseteq audit' \cup lost' \cup appending',
           \A h \in Handler : \/ handler'[h] = handler[h]
                              \/ Unsaid(h) \subseteq appending' \cup lost'
    PROVE  Told \subseteq Told'
<1>1. ASSUME NEW h \in Handler, handler'[h] = handler[h] PROVE Unsaid(h)' = Unsaid(h)
  BY <1>1 DEF Unsaid
<1>2. ASSUME NEW h \in Handler PROVE Unsaid(h) \subseteq Told'
  BY <1>1, <1>2 DEF Told
<1> QED BY <1>2 DEF Told

LEMMA UnsaidNothing ==
    ASSUME NEW h \in Handler, handler[h].pc # "emit" PROVE Unsaid(h) = {}
BY DEF Unsaid

\* Handlers that go on keep what they have read, or have nothing to save.
LEMMA StatusKept ==
    ASSUME StatusInv, Told \subseteq Told', status' = status,
           \A h \in Handler : handler'[h] = handler[h] \/ handler'[h].pc \notin {"save", "write"}
    PROVE  StatusInv'
<1>1. StatusIsTold'
  BY DEF StatusInv, StatusIsTold
<1>2. ReadIsTold'
  BY DEF StatusInv, ReadIsTold
<1> QED BY <1>1, <1>2 DEF StatusInv

LEMMA AsideTold ==
    ASSUME StatusInv, NEW h \in Handler, Aside(h) PROVE StatusInv'
<1>1. Unsaid(h) = {} /\ UNCHANGED << status, audit, appending, lost >>
  BY UnsaidNothing DEF Aside, Calling
<1>2. Told \subseteq Told'
  BY <1>1, ToldKept DEF Aside
<1> QED BY <1>1, <1>2, StatusKept DEF Aside, Calling

LEMMA LoadTold ==
    ASSUME Typed, StatusInv, NEW h \in Handler, LoadsCase(h) PROVE StatusInv'
<1> DEFINE k == handler'[h].case
           new == handler'[h].new
<1>1. /\ UNCHANGED << status, audit, appending, lost >> /\ handler[h].pc = "idle"
      /\ \A g \in Handler \ {h} : handler'[g] = handler[g]
      /\ handler'[h].pc = "save" /\ k \in Case /\ new \in CaseStatus
      /\ handler'[h].tells \/ new = status[k]
  BY LoadShape
<1>2. Told \subseteq Told'
  BY <1>1, ToldKept, UnsaidNothing
<1>3. StatusIsTold'
  BY <1>1, <1>2 DEF StatusInv, StatusIsTold
<1> HIDE DEF k, new
<1>4. ~handler'[h].tells /\ new # "New" =>
         \E a \in Told : a.event = Event(k, "status.changed", new)
  BY <1>1, NoneAssumption DEF StatusInv, StatusIsTold
<1>5. ASSUME NEW g \in Handler, handler'[g].pc \in {"save", "write"},
             ~handler'[g].tells, handler'[g].new # "New"
      PROVE  \E a \in Told' : a.event = Event(handler'[g].case, "status.changed", handler'[g].new)
  BY <1>1, <1>2, <1>4, <1>5 DEF StatusInv, ReadIsTold, k, new
<1>6. ReadIsTold'
  BY <1>5 DEF ReadIsTold
<1> QED BY <1>3, <1>6 DEF StatusInv

LEMMA CreateTold ==
    ASSUME Typed, StatusInv, NEW h \in Handler, CreateCase(h) PROVE StatusInv'
<1>1. /\ UNCHANGED << audit, appending, lost >> /\ handler[h].pc = "idle"
      /\ \A g \in Handler \ {h} : handler'[g] = handler[g]
      /\ handler'[h].pc = "emit"
  BY CreateShape
<1>2. PICK k \in Case : status' = [status EXCEPT ![k] = "New"]
  BY CreateShape
<1>3. Told \subseteq Told'
  BY <1>1, ToldKept, UnsaidNothing
<1>4. StatusIsTold'
  BY <1>2, <1>3 DEF StatusInv, StatusIsTold, Typed, CaseTyped
<1>5. ReadIsTold'
  BY <1>1, <1>3 DEF StatusInv, ReadIsTold
<1> QED BY <1>4, <1>5 DEF StatusInv

LEMMA SelectTold ==
    ASSUME Typed, StatusInv, NEW h \in Handler, SelectCase(h) PROVE StatusInv'
<1>1. /\ UNCHANGED << status, audit, appending, lost >> /\ handler[h].pc = "save"
      /\ \A g \in Handler \ {h} : handler'[g] = handler[g]
      /\ handler'[h].pc = "write" /\ handler'[h].case = handler[h].case
      /\ handler'[h].new = handler[h].new /\ handler'[h].tells = handler[h].tells
  BY SelectShape
<1>2. Told \subseteq Told'
  BY <1>1, ToldKept, UnsaidNothing
<1>3. StatusIsTold'
  BY <1>1, <1>2 DEF StatusInv, StatusIsTold
<1>4. ASSUME NEW g \in Handler, handler'[g].pc \in {"save", "write"}
      PROVE  /\ handler[g].pc \in {"save", "write"} /\ handler'[g].tells = handler[g].tells
             /\ handler'[g].new = handler[g].new /\ handler'[g].case = handler[g].case
  BY <1>1, <1>4
<1>5. ReadIsTold'
  BY <1>2, <1>4 DEF StatusInv, ReadIsTold
<1> QED BY <1>3, <1>5 DEF StatusInv

\* The status a save writes is one it tells, or one it read.
LEMMA WriteTold ==
    ASSUME Typed, StatusInv, NEW h \in Handler, WriteCase(h) PROVE StatusInv'
<1> DEFINE k == handler[h].case
           new == handler[h].new
<1>1. /\ UNCHANGED << audit, appending, lost >> /\ handler[h].pc = "write"
      /\ \A g \in Handler \ {h} : handler'[g] = handler[g]
      /\ handler'[h].pc = "emit" /\ handler'[h].case = k
      /\ handler'[h].new = new /\ handler'[h].tells = handler[h].tells
      /\ k \in Case /\ new \in CaseStatus
      /\ status' = status \/ status' = [status EXCEPT ![k] = new]
  BY WriteShape
<1>2. Told \subseteq Told'
  BY <1>1, ToldKept, UnsaidNothing
<1>3. new # "New" => \E a \in Told' : a.event = Event(k, "status.changed", new)
  <2>1. CASE handler[h].tells
    <3> DEFINE u == [id |-> handler'[h].id, event |-> Event(k, "status.changed", new)]
    <3>1. new # None
      BY <1>1, NoneAssumption
    <3>2. Unsaid(h)' = {u}
      BY <1>1, <2>1, <3>1 DEF Unsaid
    <3>3. u \in Told'
      BY <3>2 DEF Told
    <3> QED BY <3>3
  <2>2. CASE ~handler[h].tells
    BY <1>1, <1>2, <2>2 DEF StatusInv, ReadIsTold
  <2> QED BY <2>1, <2>2
<1>4. ReadIsTold'
  BY <1>1, <1>2 DEF StatusInv, ReadIsTold
<1> HIDE DEF k, new
<1>5. ASSUME NEW j \in Case, status'[j] \notin {None, "New"}
      PROVE  \E a \in Told' : a.event = Event(j, "status.changed", status'[j])
  <2>1. CASE status'[j] = status[j]
    BY <1>2, <1>5, <2>1 DEF StatusInv, StatusIsTold
  <2>2. CASE j = k /\ status'[j] = new
    BY <1>3, <1>5, <2>2
  <2> QED BY <1>1, <2>1, <2>2 DEF Typed, CaseTyped
<1>6. StatusIsTold'
  BY <1>5 DEF StatusIsTold
<1> QED BY <1>4, <1>6 DEF StatusInv

LEMMA StatusStep ==
    ASSUME Typed, StatusInv, [Next]_vars PROVE StatusInv'
<1>0. ASSUME UNCHANGED caseVars PROVE StatusInv'
  <2>1. Told \subseteq Told'
    BY <1>0, ToldKept DEF caseVars
  <2> QED BY <1>0, <2>1, StatusKept DEF caseVars
<1>1. CASE CaseNext
  <2>1. ASSUME NEW h \in Handler, Emit(h) \/ Fails(h) PROVE StatusInv'
    <3>1. /\ status' = status /\ audit' = audit
          /\ \A g \in Handler \ {h} : handler'[g] = handler[g]
          /\ handler'[h].pc = "idle"
          /\ \/ appending' = appending \cup Unsaid(h) /\ lost' = lost
             \/ appending' = appending /\ lost' = lost \cup Unsaid(h)
      BY <2>1, EndShape
    <3>2. Told \subseteq Told'
      BY <3>1, ToldKept
    <3> QED BY <3>1, <3>2, StatusKept
  <2>2. CASE Append \/ AppendFails
    <3>1. /\ UNCHANGED << status, handler >>
          /\ audit \cup lost \cup appending \subseteq audit' \cup lost' \cup appending'
      BY <2>2, AppendShape
    <3>2. Told \subseteq Told'
      BY <3>1, ToldKept
    <3> QED BY <3>1, <3>2, StatusKept
  <2> QED BY <1>1, <2>1, <2>2, LoadTold, CreateTold, SelectTold, WriteTold
          DEF CaseNext, CaseStep, LoadsCase
<1>2. ASSUME NEW h \in Handler,
             MailNext(h) \/ TemplateNext(h) \/ ChannelNext(h) \/ RemoveNext(h)
      PROVE  StatusInv'
  <2>1. Aside(h)
    BY <1>2, MailStepTyped, TemplateStepTyped, ChannelStepTyped, RemoveChannelShape
       DEF MailNext, TemplateNext, ChannelNext, RemoveNext
  <2> QED BY <2>1, AsideTold
<1>3. CASE Crash
  <2>1. /\ UNCHANGED << status, audit >>
        /\ lost' = lost \cup appending \cup UNION {Unsaid(h) : h \in Handler}
        /\ \A h \in Handler : handler'[h].pc = "idle"
    BY <1>3, IdleTyped DEF Crash
  <2>2. \A h \in Handler : Unsaid(h) \subseteq lost'
    BY <2>1
  <2>3. Told \subseteq Told'
    BY <2>1, <2>2, ToldKept
  <2> QED BY <2>1, <2>3, StatusKept
<1> QED BY <1>0, <1>1, <1>2, <1>3, Steps DEF NoticeNext, vars

-----------------------------------------------------------------------------
(* Comments and threads. *)

\* What a call has done of its mail: its row, its comment, and the thread.
Handled(h) ==
    /\ handler[h].pc \in Working =>
         row[handler[h].mail].id = handler[h].id \/ handler[h].id \in gone
    /\ handler[h].pc \in {"mail", "thread", "comment"} =>
         \A x \in comment : x.id # handler[h].id
    /\ handler[h].pc = "link" => CommentOf(h) \in comment
    /\ handler[h].pc \in {"comment", "link"} /\ handler[h].id \notin unthreaded =>
         \E y \in comment : y.mail \in Refers[handler[h].mail] /\ y.case = handler[h].case

\* A comment is of a call that began, the only one of it; its row may be gone.
CommentsOfCalls ==
    /\ \A x \in comment : x.id \in 1..begun /\ (x.id = row[x.mail].id \/ x.id \in gone)
    /\ \A x, y \in comment : x.id = y.id => x = y

MailInv == /\ \A h \in Handler : Handled(h)
           /\ CommentsOfCalls /\ LinkedIsCommented /\ ThreadIsFollowed

\* Comments of one message have calls of their own, one of which has the row.
LEMMA OnceEach == ASSUME MailInv PROVE CommentedOnce
BY DEF MailInv, CommentsOfCalls, CommentedOnce

\* A call that goes on as before, while rows go and comments come.
LEMMA HandledKept ==
    ASSUME NEW h \in Handler, Handled(h), handler'[h] = handler[h],
           comment \subseteq comment', gone \subseteq gone', unthreaded \subseteq unthreaded',
           handler[h].pc \in Working =>
              row'[handler[h].mail].id = row[handler[h].mail].id \/ handler[h].id \in gone',
           handler[h].pc \in {"mail", "thread", "comment"} =>
              \A x \in comment' \ comment : x.id # handler[h].id
    PROVE  Handled(h)'
<1>1. CommentOf(h)' = CommentOf(h)
  BY DEF CommentOf
<1>2. handler[h].pc \in Working =>
         row'[handler[h].mail].id = handler[h].id \/ handler[h].id \in gone'
  BY DEF Handled
<1>3. handler[h].pc \in {"mail", "thread", "comment"} => \A x \in comment' : x.id # handler[h].id
  BY DEF Handled
<1>4. handler[h].pc = "link" => CommentOf(h) \in comment'
  BY DEF Handled
<1>5. handler[h].pc \in {"comment", "link"} /\ handler[h].id \notin unthreaded' =>
         \E y \in comment' : y.mail \in Refers[handler[h].mail] /\ y.case = handler[h].case
  BY DEF Handled
<1> QED BY <1>1, <1>2, <1>3, <1>4, <1>5 DEF Handled

\* A handler that is not at work on a mail has nothing to show.
LEMMA HandledNone ==
    ASSUME NEW h \in Handler, handler'[h].pc \notin Mailing PROVE Handled(h)'
BY DEF Handled, Mailing, Working

\* Steps that leave the mails alone.
LEMMA MailKept ==
    ASSUME Typed, MailInv, UNCHANGED mailVars, begun' \in {begun, begun + 1},
           \A h \in Handler : handler'[h] = handler[h] \/ handler'[h].pc \notin Mailing
    PROVE  MailInv'
<1>1. \A h \in Handler : Handled(h)'
  BY HandledKept, HandledNone DEF MailInv, mailVars
<1>2. CommentsOfCalls'
  <2>1. begun \in Nat
    BY CallsAssumption DEF Typed, HandlerTyped
  <2> QED BY <2>1 DEF MailInv, CommentsOfCalls, mailVars
<1>3. LinkedIsCommented' /\ ThreadIsFollowed'
  BY DEF MailInv, mailVars, LinkedIsCommented, ThreadIsFollowed, Linked
<1> QED BY <1>1, <1>2, <1>3 DEF MailInv

LEMMA DeliverInv ==
    ASSUME Typed, MailInv, NEW h \in Handler, Deliver(h) PROVE MailInv'
<1>1. /\ begun' = begun + 1 /\ UNCHANGED mailVars
      /\ handler'[h].pc \in {"idle", "mail"} /\ handler'[h].id = begun + 1
      /\ \A g \in Handler \ {h} : handler'[g] = handler[g]
  BY DeliverShape DEF Aside
<1>2. begun \in Nat
  BY CallsAssumption DEF Typed, HandlerTyped
<1>3. \A x \in comment : x.id # begun + 1 /\ x.id \in 1..(begun + 1)
  BY <1>2 DEF MailInv, CommentsOfCalls
<1>4. Handled(h)'
  BY <1>1, <1>3 DEF Handled, Working, mailVars
<1>5. \A g \in Handler : Handled(g)'
  BY <1>1, <1>4, HandledKept DEF MailInv, mailVars
<1>6. CommentsOfCalls'
  BY <1>1, <1>3 DEF MailInv, CommentsOfCalls, mailVars
<1>7. LinkedIsCommented' /\ ThreadIsFollowed'
  BY <1>1 DEF MailInv, mailVars, LinkedIsCommented, ThreadIsFollowed, Linked
<1> QED BY <1>5, <1>6, <1>7 DEF MailInv

\* The row a call saves takes no other's place: there is none of the message.
LEMMA SaveMessageInv ==
    ASSUME Typed, MailInv, NEW h \in Handler, SaveMessage(h) PROVE MailInv'
<1>0. /\ begun' = begun /\ UNCHANGED << comment, gone, unthreaded >> /\ handler[h].pc = "mail"
      /\ \A g \in Handler \ {h} : handler'[g] = handler[g]
  BY SaveMessageShape DEF Aside
<1>1. CASE row' = row /\ handler'[h].pc = "idle"
  BY <1>0, <1>1, MailKept DEF mailVars, Mailing
<1> DEFINE m == handler[h].mail
           e == [id |-> handler[h].id, channel |-> handler[h].channel, case |-> None]
<1>2. CASE /\ row[m].id = 0 /\ row' = [row EXCEPT ![m] = e]
           /\ handler'[h].pc = "thread" /\ handler'[h].id = handler[h].id
           /\ handler'[h].mail = m
  <2>1. m \in Message /\ handler[h].pc \in Mailing
    BY <1>0, AtMail DEF Mailing
  <2>2. row'[m] = e /\ \A x \in Message \ {m} : row'[x] = row[x]
    BY <1>2, <2>1 DEF Typed, MailTyped
  <2>3. e.id = handler[h].id /\ e.case = None
    OBVIOUS
  <2> HIDE DEF m, e
  <2>4. Handled(h)'
    BY <1>0, <1>2, <2>2, <2>3 DEF MailInv, Handled, Working
  <2>5. ASSUME NEW g \in Handler \ {h} PROVE Handled(g)'
    <3>1. ASSUME handler[g].pc \in Working
          PROVE  row'[handler[g].mail].id = row[handler[g].mail].id \/ handler[g].id \in gone'
      <4>1. handler[g].mail \in Message /\ handler[g].id \in 1..begun
        BY <3>1, AtMail DEF Working, Mailing
      <4>2. row[handler[g].mail].id = handler[g].id \/ handler[g].id \in gone
        BY <3>1 DEF MailInv, Handled
      <4>3. handler[g].id # 0
        BY <4>1
      <4>4. CASE handler[g].mail = m
        BY <1>0, <1>2, <4>2, <4>3, <4>4
      <4>5. CASE handler[g].mail # m
        BY <2>2, <4>1, <4>5
      <4> QED BY <4>4, <4>5
    <3> QED BY <1>0, <3>1, HandledKept DEF MailInv
  <2>6. CommentsOfCalls'
    <3>1. ASSUME NEW x \in comment PROVE x.id = row'[x.mail].id \/ x.id \in gone
      <4>1. x.mail \in Message /\ x.id # 0
        BY DEF Typed, MailTyped, CommentRow
      <4>2. x.id = row[x.mail].id \/ x.id \in gone
        BY DEF MailInv, CommentsOfCalls
      <4> QED BY <1>2, <2>2, <4>1, <4>2
    <3> QED BY <1>0, <3>1 DEF MailInv, CommentsOfCalls
  <2>7. LinkedIsCommented'
    BY <1>0, <2>2, <2>3 DEF MailInv, LinkedIsCommented, Linked
  <2>8. ThreadIsFollowed'
    BY <1>0 DEF MailInv, ThreadIsFollowed
  <2> QED BY <2>4, <2>5, <2>6, <2>7, <2>8 DEF MailInv
<1> QED BY <1>1, <1>2, SaveMessageShape

\* A known message with a case has a comment of that case.
LEMMA ThreadInv ==
    ASSUME Typed, MailInv, NEW h \in Handler, Thread(h) PROVE MailInv'
<1>0. /\ begun' = begun /\ UNCHANGED << row, comment, gone >> /\ handler[h].pc = "thread"
      /\ unthreaded \subseteq unthreaded'
      /\ \A g \in Handler \ {h} : handler'[g] = handler[g]
  BY ThreadShape DEF Aside
<1>1. handler'[h].pc = "idle" => Handled(h)'
  BY HandledNone DEF Mailing
<1>2. ASSUME handler'[h].pc = "comment", handler'[h].id = handler[h].id,
             handler'[h].mail = handler[h].mail,
             \/ handler[h].id \in unthreaded'
             \/ \E r \in Refers[handler[h].mail] : Linked(r) /\ handler'[h].case = row[r].case
      PROVE  Handled(h)'
  <2>1. handler[h].mail \in Message
    BY <1>0, AtMail DEF Mailing
  <2>2. Refers[handler[h].mail] \subseteq Message
    BY <2>1, MessageAssumption
  <2>3. ASSUME NEW r \in Refers[handler[h].mail], Linked(r)
        PROVE  \E y \in comment : y.mail = r /\ y.case = row[r].case
    <3>1. [id |-> row[r].id, mail |-> r, case |-> row[r].case] \in comment
      BY <2>2, <2>3 DEF MailInv, LinkedIsCommented
    <3> QED BY <3>1
  <2>4. handler[h].id \notin unthreaded' =>
           \E y \in comment : y.mail \in Refers[handler[h].mail] /\ y.case = handler'[h].case
    BY <1>2, <2>3
  <2>5. /\ row[handler[h].mail].id = handler[h].id \/ handler[h].id \in gone
        /\ \A x \in comment : x.id # handler[h].id
    BY <1>0 DEF MailInv, Handled, Working
  <2> QED BY <1>0, <1>2, <2>4, <2>5 DEF Handled
<1>3. Handled(h)'
  BY <1>1, <1>2, ThreadShape
<1>4. \A g \in Handler : Handled(g)'
  BY <1>0, <1>3, HandledKept DEF MailInv
<1>5. CommentsOfCalls' /\ LinkedIsCommented'
  BY <1>0 DEF MailInv, CommentsOfCalls, LinkedIsCommented, Linked
<1>6. ThreadIsFollowed'
  BY <1>0 DEF MailInv, ThreadIsFollowed
<1> QED BY <1>4, <1>5, <1>6 DEF MailInv

LEMMA AddCommentInv ==
    ASSUME Typed, MailInv, NEW h \in Handler, AddComment(h) PROVE MailInv'
<1> DEFINE c == CommentOf(h)
<1>0. /\ begun' = begun /\ UNCHANGED << row, gone, unthreaded >> /\ handler[h].pc = "comment"
      /\ \A g \in Handler \ {h} : handler'[g] = handler[g]
      /\ comment' = comment \cup {c}
      /\ handler'[h].pc = "link" /\ handler'[h].id = handler[h].id
      /\ handler'[h].mail = handler[h].mail /\ handler'[h].case = handler[h].case
  BY AddCommentShape DEF Aside
<1>1. c.id = handler[h].id /\ c.mail = handler[h].mail /\ c.case = handler[h].case
  BY DEF CommentOf
<1>2. c' = c
  BY <1>0 DEF CommentOf
<1>3. handler[h].id \in 1..begun
  BY <1>0, AtMail DEF Mailing
<1>4. /\ row[handler[h].mail].id = handler[h].id \/ handler[h].id \in gone
      /\ \A x \in comment : x.id # handler[h].id
      /\ handler[h].id \notin unthreaded =>
           \E y \in comment : y.mail \in Refers[handler[h].mail] /\ y.case = handler[h].case
  BY <1>0 DEF MailInv, Handled, Working
<1>5. c \in comment'
  BY <1>0
<1>6. Handled(h)'
  BY <1>0, <1>2, <1>4, <1>5 DEF Handled, Working
<1> HIDE DEF c
<1>7. ASSUME NEW g \in Handler \ {h} PROVE Handled(g)'
  <2>1. handler[g].pc # "idle" => handler[g].id # handler[h].id
    BY <1>0 DEF Typed, HandlerTyped
  <2> QED BY <1>0, <1>1, <2>1, HandledKept DEF MailInv
<1>8. CommentsOfCalls'
  BY <1>0, <1>1, <1>3, <1>4 DEF MailInv, CommentsOfCalls
<1>9. LinkedIsCommented'
  BY <1>0 DEF MailInv, LinkedIsCommented, Linked
<1>10. ThreadIsFollowed'
  BY <1>0, <1>1, <1>4 DEF MailInv, ThreadIsFollowed
<1> QED BY <1>6, <1>7, <1>8, <1>9, <1>10 DEF MailInv

LEMMA LinkMessageInv ==
    ASSUME Typed, MailInv, NEW h \in Handler, LinkMessage(h) PROVE MailInv'
<1>0. /\ begun' = begun /\ UNCHANGED << comment, gone, unthreaded >> /\ handler[h].pc = "link"
      /\ handler'[h].pc = "idle" /\ \A g \in Handler \ {h} : handler'[g] = handler[g]
  BY LinkMessageShape DEF Aside
<1>1. CASE row' = row
  BY <1>0, <1>1, MailKept DEF mailVars, Mailing
<1> DEFINE m == handler[h].mail
<1>2. CASE row[m].id = handler[h].id /\ row' = [row EXCEPT ![m].case = handler[h].case]
  <2>1. m \in Message
    BY <1>0, AtMail DEF Mailing
  <2>2. /\ \A x \in Message : row'[x].id = row[x].id
        /\ \A x \in Message \ {m} : row'[x] = row[x]
        /\ row'[m].case = handler[h].case
    BY <1>2, <2>1 DEF Typed, MailTyped, MessageRow
  <2>3. [id |-> handler[h].id, mail |-> m, case |-> handler[h].case] \in comment
    BY <1>0 DEF MailInv, Handled, CommentOf
  <2> HIDE DEF m
  <2>4. ASSUME NEW g \in Handler PROVE Handled(g)'
    <3>1. handler[g].pc \in Working => handler[g].mail \in Message
      BY AtMail DEF Working, Mailing
    <3>2. CASE g = h
      BY <1>0, <3>2, HandledNone DEF Mailing
    <3>3. CASE g # h
      BY <1>0, <2>2, <3>1, <3>3, HandledKept DEF MailInv
    <3> QED BY <3>2, <3>3
  <2>5. CommentsOfCalls'
    <3>1. \A x \in comment : x.mail \in Message
      BY DEF Typed, MailTyped, CommentRow
    <3> QED BY <1>0, <2>2, <3>1 DEF MailInv, CommentsOfCalls
  <2>6. LinkedIsCommented'
    BY <1>0, <1>2, <2>2, <2>3 DEF MailInv, LinkedIsCommented, Linked
  <2>7. ThreadIsFollowed'
    BY <1>0 DEF MailInv, ThreadIsFollowed
  <2> QED BY <2>4, <2>5, <2>6, <2>7 DEF MailInv
<1> QED BY <1>1, <1>2, LinkMessageShape

\* The calls whose rows go with a channel are gone.
LEMMA RemoveChannelMailInv ==
    ASSUME Typed, MailInv, NEW h \in Handler, RemoveChannel(h) PROVE MailInv'
<1>0. /\ begun' = begun + 1 /\ UNCHANGED << comment, unthreaded >>
      /\ handler'[h].pc = "idle" /\ \A g \in Handler \ {h} : handler'[g] = handler[g]
  BY RemoveChannelShape DEF Aside
<1>1. PICK c \in Channel :
        /\ row' = [m \in Message |-> IF row[m].channel = c THEN NoRow ELSE row[m]]
        /\ gone' = gone \cup {row[m].id : m \in {x \in Message : row[x].channel = c}}
  BY RemoveChannelShape
<1>2. \A m \in Message : row'[m] = row[m] \/ (row'[m] = NoRow /\ row[m].id \in gone')
  BY <1>1
<1>3. gone \subseteq gone' /\ begun \in Nat
  BY <1>1, CallsAssumption DEF Typed, HandlerTyped
<1>4. ASSUME NEW g \in Handler PROVE Handled(g)'
  <2>1. CASE g = h
    BY <1>0, <2>1, HandledNone DEF Mailing
  <2>2. CASE g # h
    <3>1. handler[g].pc \in Working => handler[g].mail \in Message
      BY AtMail DEF Working, Mailing
    <3>2. handler[g].pc \in Working =>
             row'[handler[g].mail].id = row[handler[g].mail].id \/ handler[g].id \in gone'
      BY <1>2, <1>3, <3>1 DEF MailInv, Handled
    <3> QED BY <1>0, <1>3, <2>2, <3>2, HandledKept DEF MailInv
  <2> QED BY <2>1, <2>2
<1>5. CommentsOfCalls'
  <2>1. ASSUME NEW x \in comment
        PROVE  x.id \in 1..(begun + 1) /\ (x.id = row'[x.mail].id \/ x.id \in gone')
    <3>1. x.mail \in Message
      BY DEF Typed, MailTyped, CommentRow
    <3>2. x.id \in 1..begun /\ (x.id = row[x.mail].id \/ x.id \in gone)
      BY DEF MailInv, CommentsOfCalls
    <3> QED BY <1>2, <1>3, <3>1, <3>2
  <2> QED BY <1>0, <2>1 DEF MailInv, CommentsOfCalls
<1>6. LinkedIsCommented'
  <2>1. NoRow.case = None
    BY DEF NoRow
  <2> QED BY <1>0, <1>2, <2>1 DEF MailInv, LinkedIsCommented, Linked
<1>7. ThreadIsFollowed'
  BY <1>0 DEF MailInv, ThreadIsFollowed
<1> QED BY <1>4, <1>5, <1>6, <1>7 DEF MailInv

\* The handlers that cases, templates and channels move.
LEMMA CaseHandlers ==
    ASSUME Typed, CaseStep
    PROVE  /\ begun' \in {begun, begun + 1}
           /\ \A g \in Handler : handler'[g] = handler[g]
                                   \/ handler'[g].pc \in Calling \cup {"idle"}
<1>1. ASSUME NEW h \in Handler, LoadsCase(h) \/ CreateCase(h)
      PROVE  /\ begun' = begun + 1 /\ handler'[h].pc \in Calling
             /\ \A g \in Handler \ {h} : handler'[g] = handler[g]
  BY <1>1, LoadShape, CreateShape DEF Calling
<1>2. ASSUME NEW h \in Handler, SelectCase(h) \/ WriteCase(h) \/ Emit(h) \/ Fails(h)
      PROVE  /\ begun' = begun /\ handler'[h].pc \in Calling \cup {"idle"}
             /\ \A g \in Handler \ {h} : handler'[g] = handler[g]
  BY <1>2, SelectShape, WriteShape, EndShape DEF Calling
<1> QED BY <1>1, <1>2, AppendShape DEF CaseStep, LoadsCase

LEMMA MailStepInv ==
    ASSUME Typed, MailInv, [Next]_vars PROVE MailInv'
<1>1. CASE CaseNext
  <2>1. \A g \in Handler : handler'[g] = handler[g] \/ handler'[g].pc \notin Mailing
    BY <1>1, CaseHandlers DEF CaseNext, Calling, Mailing
  <2> QED BY <1>1, <2>1, CaseHandlers, MailKept DEF CaseNext
<1>2. ASSUME NEW h \in Handler, MailNext(h) PROVE MailInv'
  BY <1>2, DeliverInv, SaveMessageInv, ThreadInv, AddCommentInv, LinkMessageInv
     DEF MailNext, MailStep
<1>3. ASSUME NEW h \in Handler, TemplateNext(h) \/ ChannelNext(h) PROVE MailInv'
  <2>1. UNCHANGED mailVars /\ begun' \in {begun, begun + 1}
        /\ \A g \in Handler : handler'[g] = handler[g] \/ handler'[g].pc \notin Mailing
    BY <1>3, TemplateStepTyped, ChannelStepTyped
       DEF TemplateNext, ChannelNext, Aside, Mailing, Editing
  <2> QED BY <2>1, MailKept
<1>4. ASSUME NEW h \in Handler, RemoveNext(h) PROVE MailInv'
  BY <1>4, RemoveChannelMailInv DEF RemoveNext
<1>5. ASSUME NEW n \in notice, NoticeNext(n) PROVE MailInv'
  BY <1>5, MailKept DEF NoticeNext, caseVars
<1>6. CASE Crash
  <2>1. UNCHANGED mailVars /\ begun' = begun /\ \A g \in Handler : handler'[g].pc \notin Mailing
    BY <1>6, IdleTyped DEF Crash, Mailing
  <2> QED BY <2>1, MailKept
<1>7. CASE UNCHANGED vars
  BY <1>7, MailKept DEF vars, caseVars
<1> QED BY <1>1, <1>2, <1>3, <1>4, <1>5, <1>6, <1>7, Steps

-----------------------------------------------------------------------------
(* Templates. *)

\* Nothing in memory is older than the edits that were answered.
TemplateInv ==
    /\ answered <= template.version
    /\ cache # None => cache >= answered
    /\ \A n \in notice : /\ n.floor <= answered
                         /\ n.pc = "fetched" => n.version >= answered
                         /\ n.pc = "send" => n.version >= n.floor

\* The numbers of it are numbers.
LEMMA TemplateNumbers ==
    ASSUME Typed
    PROVE  /\ template.version \in Nat /\ answered \in Nat /\ cache \in Nat \cup {None}
           /\ \A n \in notice : /\ n.floor \in Nat
                                /\ n.pc \in {"fetched", "send"} => n.version \in Nat
BY DEF Typed, TemplateTyped, Template, Notice

LEMMA TemplateStepInv ==
    ASSUME Typed, TemplateInv, [Next]_vars PROVE TemplateInv'
<1>0. ASSUME UNCHANGED templateVars PROVE TemplateInv'
  BY <1>0 DEF TemplateInv, templateVars
<1>1. CASE CaseNext
  <2>1. \A n \in NoticesOf(appending' \ appending) : n.floor = 0 /\ n.pc = "start"
    BY DEF NoticesOf
  <2>2. notice' = notice \cup NoticesOf(appending' \ appending)
        /\ UNCHANGED << template, cache, answered >>
    BY <1>1 DEF CaseNext
  <2>3. answered <= template.version /\ (cache # None => cache >= answered)
    BY DEF TemplateInv
  <2>4. ASSUME NEW n \in notice'
        PROVE  /\ n.floor <= answered
               /\ n.pc = "fetched" => n.version >= answered
               /\ n.pc = "send" => n.version >= n.floor
    <3>1. CASE n \in notice
      BY <3>1 DEF TemplateInv
    <3>2. CASE n \in NoticesOf(appending' \ appending)
      <4>1. answered \in Nat
        BY TemplateNumbers
      <4>2. 0 <= answered
        BY <4>1
      <4> QED BY <2>1, <3>2, <4>2
    <3> QED BY <2>2, <3>1, <3>2
  <2> QED BY <2>2, <2>3, <2>4 DEF TemplateInv
<1>2. ASSUME NEW h \in Handler, TemplateNext(h) PROVE TemplateInv'
  <2>0. CASE EditTemplate(h)
    BY <1>0, <2>0 DEF EditTemplate
  <2>1. CASE SaveTemplate(h) \/ RemoveTemplate(h)
    <3>1. UNCHANGED << cache, notice, answered >>
      BY <2>1 DEF SaveTemplate, RemoveTemplate
    <3>2. CASE SaveTemplate(h)
      <4>1. template'.version \in {template.version, template.version + 1}
        BY <3>2, SaveTemplateShape
      <4> QED BY <3>1, <4>1, TemplateNumbers DEF TemplateInv
    <3>3. CASE RemoveTemplate(h)
      <4>1. template'.version = template.version
        BY <3>3 DEF RemoveTemplate, Typed, TemplateTyped, Template
      <4> QED BY <3>1, <4>1 DEF TemplateInv
    <3> QED BY <2>1, <3>2, <3>3
  <2>2. CASE Invalidate(h)
    <3>1. UNCHANGED << template, notice >> /\ cache' = None
      BY <2>2 DEF Invalidate
    <3>2. CASE answered' = answered
      BY <3>1, <3>2 DEF TemplateInv
    <3>3. CASE answered' = template.version /\ \A n \in Fetching : n.version = template.version
      <4>1. \A n \in notice : n.pc = "fetched" => n.version = template.version
        BY <3>3 DEF Fetching
      <4> QED BY <3>1, <3>3, <4>1, TemplateNumbers DEF TemplateInv
    <3> QED BY <2>2, <3>2, <3>3 DEF Invalidate
  <2> QED BY <1>2, <2>0, <2>1, <2>2 DEF TemplateNext, TemplateStep
<1>3. ASSUME NEW n \in notice, NoticeNext(n) PROVE TemplateInv'
  <2>0. Notify(n) /\ UNCHANGED << template, answered >>
    BY <1>3, NotifyShape DEF NoticeNext
  <2>1. CASE notice' = notice \ {n} /\ cache' = cache
    BY <2>0, <2>1 DEF TemplateInv
  <2>2. ASSUME NEW to \in Notice, notice' = (notice \ {n}) \cup {to},
               \/ to.pc = "fetch" /\ to.floor = answered /\ cache' = cache
               \/ /\ to.pc = "send" /\ to.floor = answered /\ cache' = cache
                  /\ to.version = cache /\ cache # None
               \/ /\ to.pc = "fetched" /\ to.floor = n.floor /\ cache' = cache
                  /\ to.version = template.version
               \/ /\ n.pc = "fetched" /\ to.pc = "send" /\ to.floor = n.floor
                  /\ to.version = n.version /\ cache' = n.version
        PROVE  TemplateInv'
    <3>1. /\ to.floor <= answered /\ (to.pc = "fetched" => to.version >= answered)
          /\ to.pc = "send" => to.version >= to.floor
          /\ cache' # None => cache' >= answered
      BY <2>2, TemplateNumbers DEF TemplateInv
    <3> QED BY <2>0, <2>2, <3>1 DEF TemplateInv
  <2> QED BY <2>0, <2>1, <2>2, NotifyShape
<1>4. CASE Crash
  BY <1>4, TemplateNumbers DEF Crash, TemplateInv
<1> QED BY <1>0, <1>1, <1>2, <1>3, <1>4, Steps DEF MailNext, ChannelNext, RemoveNext, vars

-----------------------------------------------------------------------------
(* Channels. *)

(* An edit that has no other one beside it knows every default of the line *)
(* it clears, which is the line it saves into or one that was moved to.     *)
ChannelInv == ~overlapped =>
    /\ \A g, h \in Handler : EditsChannel(g) /\ EditsChannel(h) => g = h
    /\ \A h \in Handler : handler[h].pc = "clearing" =>
         \A c \in Channel : channel[c].line = handler[h].line /\ IsDefault(channel[c]) =>
            c \in handler[h].defaults
    /\ \A h \in Handler : handler[h].pc \in {"clear", "clearing"} =>
         handler[h].edit.line = handler[h].line \/ handler[h].edit.line \in moved
    /\ \A h \in Handler : handler[h].pc = "channel" /\ IsDefault(handler[h].edit) =>
         \/ handler[h].edit.line \in moved
         \/ \A c \in Channel : channel[c].line = handler[h].edit.line /\ IsDefault(channel[c]) =>
               c = handler[h].channel
    /\ \A c, d \in Channel :
         /\ IsDefault(channel[c]) /\ IsDefault(channel[d])
         /\ channel[c].line = channel[d].line /\ channel[c].line \notin moved
         => c = d

LEMMA ChannelKept ==
    ASSUME ChannelInv, moved' = moved, overlapped' = overlapped,
           \A c \in Channel : channel'[c] = channel[c] \/ ~IsDefault(channel'[c]),
           \A h \in Handler : handler'[h] = handler[h] \/ handler'[h].pc \notin Editing
    PROVE  ChannelInv'
<1> SUFFICES ASSUME ~overlapped PROVE ChannelInv'
  BY DEF ChannelInv
<1>1. (\A g, h \in Handler : EditsChannel(g) /\ EditsChannel(h) => g = h)'
  BY DEF ChannelInv, EditsChannel, Editing
<1>2. \A h \in Handler : handler'[h].pc = "clearing" =>
         \A c \in Channel : channel'[c].line = handler'[h].line /\ IsDefault(channel'[c]) =>
            c \in handler'[h].defaults
  BY DEF ChannelInv, Editing
<1>3. \A h \in Handler : handler'[h].pc \in {"clear", "clearing"} =>
         handler'[h].edit.line = handler'[h].line \/ handler'[h].edit.line \in moved
  BY DEF ChannelInv, Editing
<1>4. \A h \in Handler : handler'[h].pc = "channel" /\ IsDefault(handler'[h].edit) =>
         \/ handler'[h].edit.line \in moved
         \/ \A c \in Channel : channel'[c].line = handler'[h].edit.line /\ IsDefault(channel'[c]) =>
               c = handler'[h].channel
  BY DEF ChannelInv, Editing
<1>5. \A c, d \in Channel :
         /\ IsDefault(channel'[c]) /\ IsDefault(channel'[d])
         /\ channel'[c].line = channel'[d].line /\ channel'[c].line \notin moved
         => c = d
  BY DEF ChannelInv
<1> QED BY <1>1, <1>2, <1>3, <1>4, <1>5 DEF ChannelInv

LEMMA EditChannelInv ==
    ASSUME Typed, ChannelInv, NEW h \in Handler, EditChannel(h) PROVE ChannelInv'
<1> SUFFICES ASSUME ~overlapped' PROVE ChannelInv'
  BY DEF ChannelInv
<1>1. ~overlapped /\ \A g \in Handler : ~EditsChannel(g)
  BY EditChannelShape
<1>2. /\ UNCHANGED channel /\ moved \subseteq moved'
      /\ \A g \in Handler \ {h} : handler'[g] = handler[g]
  BY EditChannelShape DEF Aside
<1>3. \A g \in Handler \ {h} : handler'[g].pc \notin {"clear", "clearing", "channel"}
  BY <1>1, <1>2 DEF EditsChannel
<1>4. (\A f, g \in Handler : EditsChannel(f) /\ EditsChannel(g) => f = g)'
  BY <1>3 DEF EditsChannel
<1>5. \/ /\ handler'[h].pc = "clear"
         /\ handler'[h].edit.line = handler'[h].line \/ handler'[h].edit.line \in moved'
      \/ /\ handler'[h].pc = "channel" /\ handler'[h].channel \in Channel
         /\ IsDefault(handler'[h].edit) =>
              \/ handler'[h].edit.line \in moved'
              \/ /\ IsDefault(channel[handler'[h].channel])
                 /\ channel[handler'[h].channel].line = handler'[h].edit.line
  BY EditChannelShape
<1>6. \A c, d \in Channel :
         /\ IsDefault(channel[c]) /\ IsDefault(channel[d])
         /\ channel[c].line = channel[d].line /\ channel[c].line \notin moved'
         => c = d
  BY <1>1, <1>2 DEF ChannelInv
<1>7. handler'[h].pc = "channel" /\ IsDefault(handler'[h].edit) =>
         \/ handler'[h].edit.line \in moved'
         \/ \A c \in Channel : channel[c].line = handler'[h].edit.line /\ IsDefault(channel[c]) =>
               c = handler'[h].channel
  BY <1>5, <1>6
<1>8. /\ handler'[h].pc # "clearing"
      /\ handler'[h].pc = "clear" =>
           handler'[h].edit.line = handler'[h].line \/ handler'[h].edit.line \in moved'
  BY <1>5
<1>9. \A g \in Handler : handler'[g].pc = "clearing" => FALSE
  BY <1>3, <1>8
<1>10. \A g \in Handler : handler'[g].pc \in {"clear", "clearing"} =>
          handler'[g].edit.line = handler'[g].line \/ handler'[g].edit.line \in moved'
  BY <1>3, <1>8
<1>11. \A g \in Handler : handler'[g].pc = "channel" /\ IsDefault(handler'[g].edit) =>
         \/ handler'[g].edit.line \in moved'
         \/ \A c \in Channel : channel[c].line = handler'[g].edit.line /\ IsDefault(channel[c]) =>
               c = handler'[g].channel
  BY <1>3, <1>7
<1> QED BY <1>2, <1>4, <1>6, <1>9, <1>10, <1>11 DEF ChannelInv

LEMMA FindDefaultsInv ==
    ASSUME Typed, ChannelInv, NEW h \in Handler, FindDefaults(h) PROVE ChannelInv'
<1> SUFFICES ASSUME ~overlapped PROVE ChannelInv'
  BY FindDefaultsShape DEF ChannelInv, channelVars
<1>1. /\ UNCHANGED << channel, moved, overlapped >>
      /\ \A g \in Handler \ {h} : handler'[g] = handler[g]
      /\ handler[h].pc = "clear" /\ handler'[h].pc = "clearing"
      /\ handler'[h].defaults = Defaults(handler[h].line)
      /\ handler'[h].line = handler[h].line /\ handler'[h].edit = handler[h].edit
  BY FindDefaultsShape DEF channelVars, Aside
<1>2. \A c \in Channel : channel[c].line = handler'[h].line /\ IsDefault(channel[c]) =>
         c \in handler'[h].defaults
  BY <1>1 DEF Defaults
<1>3. (\A f, g \in Handler : EditsChannel(f) /\ EditsChannel(g) => f = g)'
  BY <1>1 DEF ChannelInv, EditsChannel
<1>4. \A g \in Handler : handler'[g].pc \in {"clear", "clearing"} =>
         handler'[g].edit.line = handler'[g].line \/ handler'[g].edit.line \in moved
  BY <1>1 DEF ChannelInv
<1> QED BY <1>1, <1>2, <1>3, <1>4 DEF ChannelInv

LEMMA ClearDefaultInv ==
    ASSUME Typed, ChannelInv, NEW h \in Handler, ClearDefault(h) PROVE ChannelInv'
<1> SUFFICES ASSUME ~overlapped PROVE ChannelInv'
  BY ClearDefaultShape DEF ChannelInv
<1> DEFINE e == [stored |-> TRUE, line |-> handler[h].line, smtp |-> TRUE, default |-> FALSE]
<1>1. PICK c \in Channel : /\ channel' = [channel EXCEPT ![c] = e]
                           /\ handler'[h].defaults = handler[h].defaults \ {c}
  BY ClearDefaultShape
<1>2. /\ UNCHANGED << moved, overlapped >>
      /\ handler[h].pc = "clearing" /\ handler'[h].pc = "clearing"
      /\ handler'[h].line = handler[h].line /\ handler'[h].edit = handler[h].edit
      /\ \A g \in Handler \ {h} : handler'[g] = handler[g]
  BY ClearDefaultShape DEF Aside
<1>3. ~IsDefault(e)
  BY DEF IsDefault
<1> HIDE DEF e
<1>4. channel'[c] = e /\ \A d \in Channel \ {c} : channel'[d] = channel[d]
  BY <1>1 DEF Typed, ChannelTyped
<1>5. \A d \in Channel : IsDefault(channel'[d]) => d # c /\ channel'[d] = channel[d]
  BY <1>3, <1>4
<1>6. (\A f, g \in Handler : EditsChannel(f) /\ EditsChannel(g) => f = g)'
      /\ \A g \in Handler \ {h} : handler'[g].pc \notin {"clear", "clearing", "channel"}
  BY <1>2 DEF ChannelInv, EditsChannel
<1>7. \A d \in Channel : channel'[d].line = handler'[h].line /\ IsDefault(channel'[d]) =>
         d \in handler'[h].defaults
  BY <1>1, <1>2, <1>5 DEF ChannelInv
<1>8. handler'[h].edit.line = handler'[h].line \/ handler'[h].edit.line \in moved
  BY <1>2 DEF ChannelInv
<1>9. \A x, y \in Channel :
         /\ IsDefault(channel'[x]) /\ IsDefault(channel'[y])
         /\ channel'[x].line = channel'[y].line /\ channel'[x].line \notin moved
         => x = y
  BY <1>5 DEF ChannelInv
<1> QED BY <1>2, <1>6, <1>7, <1>8, <1>9 DEF ChannelInv

\* The row a default is saved over is the only default of its line by then.
LEMMA SaveChannelInv ==
    ASSUME Typed, ChannelInv, NEW h \in Handler, SaveChannel(h) PROVE ChannelInv'
<1> SUFFICES ASSUME ~overlapped PROVE ChannelInv'
  BY SaveChannelShape DEF ChannelInv
<1> DEFINE c == handler[h].channel
           e == handler[h].edit
<1>1. /\ UNCHANGED << moved, overlapped >> /\ c \in Channel
      /\ handler[h].pc \in {"clearing", "channel"} /\ handler[h].defaults = {}
      /\ \A g \in Handler \ {h} : handler'[g] = handler[g]
      /\ handler'[h].pc = "idle"
      /\ channel' = [channel EXCEPT ![c] = e]
  BY SaveChannelShape DEF Aside
<1>2. \A g \in Handler : handler'[g].pc \notin {"clear", "clearing", "channel"}
  BY <1>1 DEF ChannelInv, EditsChannel
<1>3. channel'[c] = e /\ \A d \in Channel \ {c} : channel'[d] = channel[d]
  BY <1>1 DEF Typed, ChannelTyped
<1>4. IsDefault(e) /\ e.line \notin moved =>
         \A d \in Channel : channel[d].line = e.line /\ IsDefault(channel[d]) => d = c
  <2>1. CASE handler[h].pc = "clearing"
    BY <1>1, <2>1 DEF ChannelInv
  <2>2. CASE handler[h].pc = "channel"
    BY <1>1, <2>2 DEF ChannelInv
  <2> QED BY <1>1, <2>1, <2>2
<1> HIDE DEF c, e
<1>5. \A x, y \in Channel :
         /\ IsDefault(channel'[x]) /\ IsDefault(channel'[y])
         /\ channel'[x].line = channel'[y].line /\ channel'[x].line \notin moved
         => x = y
  BY <1>3, <1>4 DEF ChannelInv
<1>6. (\A f, g \in Handler : EditsChannel(f) /\ EditsChannel(g) => f = g)'
  BY <1>2 DEF EditsChannel
<1> QED BY <1>1, <1>2, <1>5, <1>6 DEF ChannelInv

LEMMA RemoveChannelInv ==
    ASSUME Typed, ChannelInv, NEW h \in Handler, RemoveChannel(h) PROVE ChannelInv'
<1>1. PICK c \in Channel : channel' = [channel EXCEPT ![c].stored = FALSE]
  BY RemoveChannelShape
<1>2. ~channel'[c].stored /\ \A d \in Channel \ {c} : channel'[d] = channel[d]
  BY <1>1 DEF Typed, ChannelTyped, AnyChannel
<1>3. \A d \in Channel : channel'[d] = channel[d] \/ ~IsDefault(channel'[d])
  BY <1>2 DEF IsDefault
<1>4. \A g \in Handler : handler'[g] = handler[g] \/ handler'[g].pc \notin Editing
  BY RemoveChannelShape DEF Aside, Editing
<1> QED BY <1>3, <1>4, ChannelKept, RemoveChannelShape

LEMMA ChannelStepInv ==
    ASSUME Typed, ChannelInv, [Next]_vars PROVE ChannelInv'
<1>0. ASSUME UNCHANGED channelVars,
             \A h \in Handler : handler'[h] = handler[h] \/ handler'[h].pc \notin Editing
      PROVE  ChannelInv'
  BY <1>0, ChannelKept DEF channelVars
<1>1. CASE CaseNext
  <2>1. \A g \in Handler : handler'[g] = handler[g] \/ handler'[g].pc \notin Editing
    BY <1>1, CaseHandlers DEF CaseNext, Calling, Editing
  <2> QED BY <1>0, <1>1, <2>1 DEF CaseNext
<1>2. ASSUME NEW h \in Handler, MailNext(h) PROVE ChannelInv'
  <2>1. handler'[h].pc \in Mailing \cup {"idle"}
    BY <1>2, DeliverShape, SaveMessageShape, ThreadShape, AddCommentShape, LinkMessageShape
       DEF MailNext, MailStep, Mailing
  <2>2. \A g \in Handler : handler'[g] = handler[g] \/ handler'[g].pc \notin Editing
    BY <1>2, <2>1, MailStepTyped DEF MailNext, Aside, Mailing, Editing
  <2> QED BY <1>0, <1>2, <2>2 DEF MailNext
<1>3. ASSUME NEW h \in Handler, TemplateNext(h) PROVE ChannelInv'
  <2>1. \A g \in Handler : handler'[g] = handler[g] \/ handler'[g].pc \notin Editing
    BY <1>3, TemplateStepTyped DEF TemplateNext, Aside, Editing
  <2> QED BY <1>0, <1>3, <2>1 DEF TemplateNext
<1>4. ASSUME NEW h \in Handler, ChannelNext(h) \/ RemoveNext(h) PROVE ChannelInv'
  BY <1>4, EditChannelInv, FindDefaultsInv, ClearDefaultInv, SaveChannelInv, RemoveChannelInv
     DEF ChannelNext, ChannelStep, RemoveNext
<1>5. ASSUME NEW n \in notice, NoticeNext(n) PROVE ChannelInv'
  BY <1>0, <1>5 DEF NoticeNext, caseVars
<1>6. CASE Crash
  <2>1. UNCHANGED channelVars /\ \A g \in Handler : handler'[g].pc \notin Editing
    BY <1>6, IdleTyped DEF Crash, Editing
  <2> QED BY <1>0, <2>1
<1>7. CASE UNCHANGED vars
  BY <1>0, <1>7 DEF vars, caseVars
<1> QED BY <1>1, <1>2, <1>3, <1>4, <1>5, <1>6, <1>7, Steps

LEMMA OneAtMost ==
    ASSUME ChannelInv PROVE OneDefaultChannel
<1> SUFFICES ASSUME ~overlapped, NEW l \in Line \ moved PROVE Cardinality(Defaults(l)) <= 1
  BY DEF OneDefaultChannel
<1>1. \A c, d \in Defaults(l) : c = d
  BY DEF ChannelInv, Defaults
<1>2. IsFiniteSet({}) /\ Cardinality({}) = 0
  BY FS_EmptySet
<1>3. CASE Defaults(l) = {}
  BY <1>2, <1>3
<1>4. ASSUME NEW c \in Defaults(l) PROVE Cardinality(Defaults(l)) = 1
  <2>1. Defaults(l) = {} \cup {c}
    BY <1>1, <1>4
  <2>2. Cardinality({} \cup {c}) = 0 + 1
    BY <1>2, FS_AddElement
  <2> QED BY <2>1, <2>2
<1> QED BY <1>3, <1>4

-----------------------------------------------------------------------------
(* The inductive invariant, and what follows from it. *)

IInv == Typed /\ StatusInv /\ MailInv /\ TemplateInv /\ ChannelInv

\* What holds at the start.
THEOREM InitInv == Init => IInv
<1> SUFFICES ASSUME Init PROVE IInv
  OBVIOUS
<1>1. Typed
  BY InitTyped
<1>2. \A h \in Handler : handler[h].pc = "idle"
  BY IdleTyped DEF Init, CaseInit
<1>3. StatusInv
  BY <1>2 DEF Init, CaseInit, StatusInv, StatusIsTold, ReadIsTold
<1>4. MailInv
  <2>1. \A h \in Handler : Handled(h)
    BY <1>2 DEF Handled, Working
  <2>2. comment = {} /\ \A m \in Message : ~Linked(m)
    BY DEF Init, NoRow, Linked
  <2> QED BY <2>1, <2>2 DEF MailInv, CommentsOfCalls, LinkedIsCommented, ThreadIsFollowed
<1>5. TemplateInv
  BY DEF Init, TemplateInv
<1>6. ChannelInv
  <2>1. \A c \in Channel : ~IsDefault(channel[c])
    <3>1. PICK l \in Line : channel = [c \in Channel |-> IF c \in Made
                                       THEN [NoChannel EXCEPT !.stored = TRUE, !.line = l]
                                       ELSE NoChannel]
      BY DEF Init
    <3>2. ~IsDefault(NoChannel) /\ ~IsDefault([NoChannel EXCEPT !.stored = TRUE, !.line = l])
      BY DEF NoChannel, IsDefault
    <3> QED BY <3>1, <3>2
  <2> QED BY <1>2, <2>1 DEF ChannelInv, EditsChannel
<1> QED BY <1>1, <1>3, <1>4, <1>5, <1>6 DEF IInv

\* What each step keeps.
THEOREM StepInv == IInv /\ [Next]_vars => IInv'
BY StepTyped, StatusStep, MailStepInv, TemplateStepInv, ChannelStepInv DEF IInv

\* Every state of every behaviour satisfies the invariant.
THEOREM Invariance == Spec => []IInv
BY InitInv, StepInv, PTL DEF Spec

(* Every variable keeps its type: what is saved, appended, cached and held  *)
(* by handlers of cases, mails, templates and channels.                     *)
THEOREM DeskTyped == Spec => []TypeOK
<1>1. IInv => TypeOK
  <2> SUFFICES ASSUME IInv PROVE TypeOK
    OBVIOUS
  <2>1. appending \subseteq Said
    BY AppendedSaid DEF IInv, Typed, CaseTyped
  <2>2. CaseTypeOK
    BY <2>1 DEF IInv, Typed, CaseTyped, HandlerTyped, CaseTypeOK
  <2> QED BY <2>2 DEF IInv, Typed, HandlerTyped, MailTyped, TemplateTyped, ChannelTyped, TypeOK,
             HandlerRecord, HandlerPc, MessageRow, CommentRow, Notice, Template, AnyChannel
<1> QED BY <1>1, Invariance, PTL

(* However updateCase, assignCase and changeStatus overlap, fail and stop   *)
(* between the save and the event of it, a case is only in a status some    *)
(* case.status.changed event was made of (case.service.ts).                 *)
THEOREM StatusesWereTold == Spec => []StatusIsTold
<1>1. IInv => StatusIsTold
  BY DEF IInv, StatusInv
<1> QED BY <1>1, Invariance, PTL

(* However often and concurrently processMessage gets a message, and        *)
(* whichever channels are deleted with their messages, one comment of it at *)
(* most has not lost its row (email-ingest.worker.ts).                      *)
THEOREM CommentsOnce == Spec => []CommentedOnce
<1>1. IInv => CommentedOnce
  BY OnceEach DEF IInv
<1> QED BY <1>1, Invariance, PTL

(* A message processMessage linked to a case is a comment of that case,     *)
(* whatever failed in between (email-ingest.worker.ts).                     *)
THEOREM LinksCommented == Spec => []LinkedIsCommented
<1>1. IInv => LinkedIsCommented
  BY DEF IInv, MailInv
<1> QED BY <1>1, Invariance, PTL

(* findCaseForMessage keeps an answer in the thread of a message it refers  *)
(* to when all it knows of these have a case, whatever case the subject     *)
(* names (email-ingest.worker.ts).                                          *)
THEOREM ThreadsFollowed == Spec => []ThreadIsFollowed
<1>1. IInv => ThreadIsFollowed
  BY DEF IInv, MailInv
<1> QED BY <1>1, Invariance, PTL

(* A mail rendered after the answer to an edit uses that edit, unless an    *)
(* older row was being fetched across it (template.service.ts).             *)
THEOREM EditsReachMails == Spec => []MailsUseAnsweredEdit
<1>1. IInv => MailsUseAnsweredEdit
  BY DEF IInv, TemplateInv, MailsUseAnsweredEdit
<1> QED BY <1>1, Invariance, PTL

(* Edits that do not overlap leave one default channel of a business line   *)
(* at most, even when one fails half way, but for lines to which a default  *)
(* was moved (channels-admin.service.ts).                                   *)
THEOREM OneDefault == Spec => []OneDefaultChannel
<1>1. IInv => OneDefaultChannel
  BY OneAtMost DEF IInv
<1> QED BY <1>1, Invariance, PTL
=============================================================================
