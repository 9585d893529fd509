----------------------------- MODULE HeraldRooms -----------------------------
(***************************************************************************)
(* The Herald room of one problem: the D1 wake-up row that commits raise   *)
(* (migration 0078), the delivery that nudges the room (herald/outbox.ts), *)
(* and the Durable Object that announces the public head to its sockets    *)
(* (room-controller.ts, room-core.ts).                                     *)
(*                                                                         *)
(* A request, message or alarm that the room handles, and the delivery     *)
(* that waits for a nudge, are one handler each.  Its steps interleave     *)
(* with the others' at every D1 read; between two reads the object runs    *)
(* alone, and its own storage is behind the input gate.  A step of a       *)
(* handler ends where an answer has been read, so an answer may be old     *)
(* when the next step uses it.  Clocks are abstracted to what they decide: *)
(* a socket's deadline has passed or it has not.                           *)
(***************************************************************************)
EXTENDS Integers, FiniteSets

CONSTANTS
    Sockets,        \* WebSockets, each opened at most once
    Handlers,       \* concurrent handlers
    MaxGeneration,  \* bound on the changes of the problem
    MaxFaults       \* bound on failed handlers and restarts

Alarm == "alarm"                     \* the platform runs one alarm at a time

ASSUME HeraldConstants ==
    /\ MaxGeneration \in Nat
    /\ MaxFaults \in Nat
    /\ Alarm \notin Handlers

VARIABLES
    head,        \* problems.public_seq
    visible,     \* problems.status is neither private-draft nor dormant
    generation,  \* herald_room_outbox.generation
    delivered,   \* herald_room_outbox.delivered_generation
    remembered,  \* the room's GENERATION_KEY
    alarm,       \* an alarm of the room is set
    sockets,     \* state and attachment of every socket; whether its credential has
                 \* been revoked, or its lifetime or acknowledgement is overdue; and,
                 \* as history, the generation at its last frame (told)
    handlers,    \* what every handler is doing
    faults       \* failures so far

problemVars == <<head, visible, generation, delivered>>
roomVars == <<remembered, alarm, sockets>>
vars == <<problemVars, roomVars, handlers, faults>>

AllHandlers == Handlers \cup {Alarm}
Hidden == -1                         \* HERALD_HEAD_SQL returns no row

New == [state |-> "new", acknowledged |-> 0, announced |-> 0, pending |-> FALSE, dirty |-> FALSE,
        revoked |-> FALSE, overdue |-> FALSE, told |-> 0]
Connecting == [New EXCEPT !.state = "connecting"]
Closed == [New EXCEPT !.state = "closed"]
Idle == [kind |-> "idle", step |-> "none", targets |-> {}, mark |-> 0, trusted |-> {},
         seen |-> Hidden]

Open == {s \in Sockets : sockets[s].state = "open"}

Init ==
    /\ head = 0
    /\ visible = TRUE
    /\ generation = 0
    /\ delivered = 0
    /\ remembered = 0
    /\ alarm = FALSE
    /\ sockets = [s \in Sockets |-> New]
    /\ handlers = [h \in AllHandlers |-> Idle]
    /\ faults = 0

-----------------------------------------------------------------------------
(* The problem, and the triggers of migration 0078 *)

(* Every transaction that changes what a reader sees raises the generation.  *)
Raise ==
    /\ generation < MaxGeneration
    /\ generation' = generation + 1
    /\ UNCHANGED <<delivered, roomVars, handlers, faults>>

Publish == Raise /\ head' = head + 1 /\ UNCHANGED visible

(* Dormancy and reactivation. *)
ChangeStatus == Raise /\ visible' = ~visible /\ UNCHANGED head

(* The content of an event is redacted: the head stays where it is. *)
Redact == Raise /\ UNCHANGED <<head, visible>>

Revoke(s) ==
    /\ sockets[s].state \in {"connecting", "open"}
    /\ ~sockets[s].revoked
    /\ sockets' = [sockets EXCEPT ![s].revoked = TRUE]
    /\ UNCHANGED <<problemVars, remembered, alarm, handlers, faults>>

(* The lifetime, the heartbeat or the acknowledgement of a socket is overdue. *)
Lapse(s) ==
    /\ s \in Open
    /\ ~sockets[s].overdue
    /\ sockets' = [sockets EXCEPT ![s].overdue = TRUE]
    /\ UNCHANGED <<problemVars, remembered, alarm, handlers, faults>>

-----------------------------------------------------------------------------
(* HeraldRoomFanout: synchronous, on attachments read after the awaits *)

(* send: the attachment records the frame before it leaves. *)
Sent(a, through) ==
    [a EXCEPT !.announced = through, !.pending = TRUE, !.dirty = FALSE, !.told = generation]

Larger(m, n) == IF m > n THEN m ELSE n

(* authorized: a socket that is not is closed. *)
Authorized(s, w) ==
    /\ ~sockets[s].overdue
    /\ s \in w.trusted
    /\ w.seen # Hidden
    /\ w.seen >= sockets[s].announced

(* refresh: a socket that owes an acknowledgement gets its dirty bit, any    *)
(* other one a frame.                                                        *)
Refreshed(a, w) ==
    IF a.pending THEN [a EXCEPT !.dirty = TRUE] ELSE Sent(a, Larger(w.seen, a.acknowledged))

\* Mutant: completing an acknowledgement drops the dirty bit.
Acknowledged_DropsDirty(a, w) ==
    LET done == [a EXCEPT !.acknowledged = w.mark, !.pending = FALSE, !.dirty = FALSE] IN
    IF w.seen > w.mark THEN Sent(done, Larger(w.seen, w.mark)) ELSE done

(* completeAck of the frame that is outstanding: another frame follows if    *)
(* the head has moved or a change was noted meanwhile.                       *)
Acknowledged(a, w) ==
    LET done == [a EXCEPT !.acknowledged = w.mark, !.pending = FALSE, !.dirty = FALSE] IN
    IF w.seen > w.mark \/ a.dirty THEN Sent(done, Larger(w.seen, w.mark)) ELSE done

(* What a handler does to one of its sockets. *)
Treated(s, w) ==
    LET a == sockets[s] IN
    IF ~Authorized(s, w) THEN Closed
    ELSE CASE w.kind = "nudge" -> Refreshed(a, w)
           [] w.kind = "ack" /\ a.pending /\ w.mark = a.announced -> Acknowledged(a, w)
           [] OTHER -> a

Fanout(w) ==
    sockets' = [s \in Sockets |-> IF s \in w.targets \cap Open THEN Treated(s, w) ELSE sockets[s]]

(* arm: an alarm as long as a socket is open. *)
Arm == alarm' = (\E s \in Sockets : sockets'[s].state = "open")

-----------------------------------------------------------------------------
(* The reads of a handler *)

Start(h, w) ==
    /\ handlers[h] = Idle
    /\ handlers' = [handlers EXCEPT ![h] = w]

Progress(h, w) == handlers' = [handlers EXCEPT ![h] = w]
Finish(h) == handlers' = [handlers EXCEPT ![h] = Idle]

Fault == faults < MaxFaults /\ faults' = faults + 1

Handler(kind, step, targets, mark) ==
    [kind |-> kind, step |-> step, targets |-> targets, mark |-> mark, trusted |-> {},
     seen |-> Hidden]

(* The credentials of the sockets that are still open, then visibility and   *)
(* head, which matter to the sockets with a credential only.  The two reads  *)
(* are one step: a credential revoked between them is as one revoked before. *)
ReadAuthority(h) ==
    LET w == handlers[h]
        live == IF w.kind = "connect" THEN w.targets ELSE w.targets \cap Open
        trusted == {s \in live : ~sockets[s].revoked}
    IN
    /\ w.step = "read"
    /\ Progress(h, [w EXCEPT !.step = "fanout",
                             !.targets = live,
                             !.trusted = trusted,
                             !.seen = IF visible /\ trusted # {} THEN head ELSE Hidden])
    /\ UNCHANGED <<problemVars, roomVars, faults>>

-----------------------------------------------------------------------------
(* deliverHeraldRooms and the nudge *)

(* HERALD_PENDING_SQL, by a Worker after a write or by the cron. *)
Deliver(h) ==
    /\ generation > delivered
    /\ Start(h, Handler("nudge", "compare", {}, generation))
    /\ UNCHANGED <<problemVars, roomVars, faults>>

(* The room compares the nudge with the generation it has remembered. *)
CompareGeneration(h) ==
    LET mark == handlers[h].mark IN
    /\ handlers[h].step = "compare"
    /\ IF mark > remembered
       THEN /\ Progress(h, Handler("nudge", IF Open = {} THEN "fanout" ELSE "read", Open, mark))
            /\ UNCHANGED roomVars
       ELSE /\ Progress(h, Handler("nudge", "settle", {}, mark))
            /\ UNCHANGED <<remembered, sockets>>
            /\ Arm
    /\ UNCHANGED <<problemVars, faults>>

(* The sweep, then rememberGeneration, a transaction that only raises it,    *)
(* arm and 204; the deadline may pass after the sweep.                       *)
Refresh(h) ==
    /\ handlers[h].kind = "nudge"
    /\ handlers[h].step = "fanout"
    /\ Fanout(handlers[h])
    /\ \/ /\ remembered' = Larger(remembered, handlers[h].mark)
          /\ Arm
          /\ Progress(h, Handler("nudge", "settle", {}, handlers[h].mark))
          /\ UNCHANGED faults
       \/ /\ Fault
          /\ Finish(h)
          /\ UNCHANGED <<remembered, alarm>>
    /\ UNCHANGED <<problemVars>>

Settles(h) == generation = handlers[h].mark /\ delivered < generation

(* HERALD_ACK_SQL: a compare-and-swap on the generation that was delivered.  *)
Settle(h) ==
    /\ handlers[h].step = "settle"
    /\ delivered' = IF Settles(h) THEN generation ELSE delivered
    /\ Finish(h)
    /\ UNCHANGED <<head, visible, generation, roomVars, faults>>

-----------------------------------------------------------------------------
(* Sockets *)

(* The client has read up to since and asks for an upgrade. *)
Connect(h, s, since) ==
    /\ sockets[s] = New
    /\ Start(h, Handler("connect", "read", {s}, since))
    /\ sockets' = [sockets EXCEPT ![s] = Connecting]
    /\ UNCHANGED <<problemVars, remembered, alarm, faults>>

Admitted(w) == w.targets \subseteq w.trusted /\ w.seen >= w.mark

(* connect: a socket that may come in is accepted with the head that was     *)
(* read, and told of it at once, whatever its client has read already.       *)
Accept(h) ==
    LET w == handlers[h]
        accepted(s) == [sockets[s] EXCEPT !.state = "open", !.acknowledged = w.mark]
    IN
    /\ w.kind = "connect"
    /\ w.step = "fanout"
    /\ sockets' = [s \in Sockets |-> IF s \notin w.targets THEN sockets[s]
                                     ELSE IF Admitted(w) THEN Sent(accepted(s), w.seen) ELSE Closed]
    /\ IF Admitted(w) THEN Arm ELSE UNCHANGED alarm
    /\ Finish(h)
    /\ UNCHANGED <<problemVars, remembered, faults>>

(* The client acknowledges the frame it was sent last, perhaps twice. *)
BeginAck(h, s) ==
    /\ s \in Open
    /\ sockets[s].pending
    /\ IF sockets[s].overdue
       THEN /\ sockets' = [sockets EXCEPT ![s] = Closed]
            /\ UNCHANGED handlers
       ELSE /\ Start(h, Handler("ack", "read", {s}, sockets[s].announced))
            /\ UNCHANGED sockets
    /\ UNCHANGED <<problemVars, remembered, alarm, faults>>

CompleteAck(h) ==
    /\ handlers[h].kind = "ack"
    /\ handlers[h].step = "fanout"
    /\ Fanout(handlers[h])
    /\ Finish(h)
    /\ UNCHANGED <<problemVars, remembered, alarm, faults>>

(* The client leaves, sends something else than the acknowledgement it owes, *)
(* or acknowledges too often.                                                *)
Leave(s) ==
    /\ s \in Open
    /\ sockets' = [sockets EXCEPT ![s] = Closed]
    /\ UNCHANGED <<problemVars, remembered, alarm, handlers, faults>>

(* The alarm: a sweep that closes and never sends. *)
FireAlarm ==
    /\ alarm
    /\ alarm' = FALSE
    /\ IF Open = {}
       THEN handlers[Alarm] = Idle /\ UNCHANGED handlers
       ELSE Start(Alarm, Handler("alarm", "read", Open, 0))
    /\ UNCHANGED <<problemVars, remembered, sockets, faults>>

\* Mutant: the sweep does not arm the next alarm.
Revalidate_ArmsOnce ==
    /\ handlers[Alarm].step = "fanout"
    /\ Fanout(handlers[Alarm])
    /\ Finish(Alarm)
    /\ UNCHANGED <<problemVars, remembered, alarm, faults>>

Revalidate ==
    /\ handlers[Alarm].step = "fanout"
    /\ Fanout(handlers[Alarm])
    /\ Arm
    /\ Finish(Alarm)
    /\ UNCHANGED <<problemVars, remembered, faults>>

-----------------------------------------------------------------------------
(* Failures *)

CloseAll(S) == sockets' = [s \in Sockets |-> IF s \in S THEN Closed ELSE sockets[s]]

(* D1 fails, a deadline passes, or an answer is lost.  A nudge is retried    *)
(* (HERALD_RETRY_SQL), a connection refused; an acknowledgement costs its    *)
(* socket, and a failed alarm all of them.                                   *)
Fail(h) ==
    /\ handlers[h] # Idle
    /\ Fault
    /\ CloseAll(CASE handlers[h].kind = "nudge" -> {}
                  [] handlers[h].kind = "alarm" -> Open
                  [] OTHER -> handlers[h].targets \ {s \in Sockets : sockets[s] = New})
    /\ IF handlers[h].kind = "alarm" THEN Arm ELSE UNCHANGED alarm
    /\ Finish(h)
    /\ UNCHANGED <<problemVars, remembered>>

(* The object restarts and keeps some of its hibernated sockets; an alarm    *)
(* that was running is run again.  A delivery that has its 204 goes on.      *)
Restart(kept) ==
    /\ Fault
    /\ CloseAll({s \in Sockets \ kept : sockets[s].state \in {"open", "connecting"}})
    /\ alarm' = (alarm \/ handlers[Alarm] # Idle)
    /\ handlers' = [h \in AllHandlers |-> IF handlers[h].step = "settle" THEN handlers[h] ELSE Idle]
    /\ UNCHANGED <<problemVars, remembered>>

-----------------------------------------------------------------------------
Continue(h) ==
    \/ ReadAuthority(h) \/ CompareGeneration(h) \/ Refresh(h) \/ Settle(h)
    \/ Accept(h) \/ CompleteAck(h)

Environment ==
    \/ Publish \/ ChangeStatus \/ Redact
    \/ \E s \in Sockets : Revoke(s) \/ Lapse(s) \/ Leave(s)
    \/ \E h \in Handlers, s \in Sockets : BeginAck(h, s)
    \/ \E h \in Handlers, s \in Sockets, since \in 0..MaxGeneration : Connect(h, s, since)
    \/ \E h \in AllHandlers : Fail(h)
    \/ \E kept \in SUBSET Open : Restart(kept)

Next ==
    \/ Environment
    \/ \E h \in Handlers : Deliver(h)
    \/ \E h \in AllHandlers : Continue(h)
    \/ FireAlarm
    \/ Revalidate

Spec == Init /\ [][Next]_vars

(* The cron delivers, the platform fires alarms, a handler that is not lost  *)
(* goes on, and the deadline of a frame nobody acknowledges passes.  Neither *)
(* clients nor writers are assumed to do anything.                           *)
Fairness ==
    /\ WF_vars(\E h \in Handlers : Deliver(h))
    /\ \A h \in AllHandlers : WF_vars(Continue(h))
    /\ WF_vars(FireAlarm)
    /\ WF_vars(Revalidate)
    /\ \A s \in Sockets : WF_vars(sockets[s].pending /\ Lapse(s))

-----------------------------------------------------------------------------
(* Every variable holds a value of its kind, and every attachment satisfies  *)
(* the checks of roomAttachment.                                             *)
TypeOK ==
    /\ head \in Nat /\ visible \in BOOLEAN
    /\ generation \in Nat /\ delivered \in 0..generation /\ remembered \in 0..generation
    /\ alarm \in BOOLEAN
    /\ sockets \in [Sockets -> [state : {"new", "connecting", "open", "closed"},
                                acknowledged : 0..head, announced : 0..head,
                                pending : BOOLEAN, dirty : BOOLEAN,
                                revoked : BOOLEAN, overdue : BOOLEAN,
                                told : 0..generation]]
    /\ \A s \in Sockets : /\ sockets[s].acknowledged <= sockets[s].announced
                          /\ ~sockets[s].pending => sockets[s].acknowledged = sockets[s].announced
    /\ handlers \in [AllHandlers ->
                        [kind : {"idle", "nudge", "connect", "ack", "alarm"},
                         step : {"none", "compare", "read", "fanout", "settle"},
                         targets : SUBSET Sockets, mark : Nat, trusted : SUBSET Sockets,
                         seen : Nat \cup {Hidden}]]
    /\ faults \in 0..MaxFaults

(* Once the wake-up row counts as delivered, every open socket has been sent *)
(* a frame since the last change, or is dirty and so will be sent one when   *)
(* it acknowledges: whatever overlapped with the nudge (deliverHeraldRooms,  *)
(* HeraldRoomFanout).                                                        *)
DeliveredRoomsAreTold ==
    delivered = generation => \A s \in Open : sockets[s].told = generation \/ sockets[s].dirty

(* "An intervening ACK cannot be overwritten by stale state", "late          *)
(* duplicate completion cannot overwrite a newer outstanding announcement":  *)
(* then a socket that owes nothing has been told of the head, once the row   *)
(* counts as delivered.                                                      *)
NoneLeftBehind ==
    delivered = generation => \A s \in Open : sockets[s].pending \/ sockets[s].announced = head

(* No client has two acknowledgements of one number in progress at the same  *)
(* time: what completeAck takes for an answer to the frame that is           *)
(* outstanding may otherwise be one to an earlier frame of the same number.  *)
OneAckAtATime ==
    \A h, i \in Handlers :
        /\ handlers[h].kind = "ack" /\ handlers[i].kind = "ack"
        /\ handlers[h].targets \cap handlers[i].targets # {}
        /\ handlers[h].mark = handlers[i].mark
        => h = i

(* Whoever stays connected is told of every change and of the head in the    *)
(* end, and only those stay who may, if clients do not repeat an             *)
(* acknowledgement that is in progress: no commit is lost to a race with a   *)
(* nudge, an upgrade, an acknowledgement or a restart.                       *)
EventuallyCurrent ==
    []OneAckAtATime =>
        <>[](\A s \in Open : /\ sockets[s].told = generation
                             /\ sockets[s].announced = head
                             /\ ~sockets[s].revoked
                             /\ visible)
=============================================================================
