------------------------ MODULE HeraldRooms_proofs ------------------------
(***************************************************************************)
(* Proofs about HeraldRooms: the attachments stay well-formed, no change   *)
(* that counts as delivered passes a socket by, and no socket is left      *)
(* behind the head by clients that do not repeat an acknowledgement which  *)
(* is in progress.                                                         *)
(***************************************************************************)
EXTENDS HeraldRooms, TLAPS

-----------------------------------------------------------------------------
(* The invariants *)

Kinds == {"idle", "nudge", "connect", "ack", "alarm"}
Steps == {"none", "compare", "read", "fanout", "settle"}

(* The attachment of a socket, as roomAttachment checks it. *)
Fields ==
    [state : {"new", "connecting", "open", "closed"},
     acknowledged : Nat, announced : Nat, pending : BOOLEAN, dirty : BOOLEAN,
     revoked : BOOLEAN, overdue : BOOLEAN, told : Nat]

Attachments ==
    {a \in Fields :
        /\ a.acknowledged <= a.announced
        /\ ~a.pending => a.acknowledged = a.announced}

Handling ==
    [kind : Kinds, step : Steps, targets : SUBSET Sockets, mark : Nat, trusted : SUBSET Sockets,
     seen : Nat \cup {Hidden}]

Types ==
    /\ head \in Nat /\ visible \in BOOLEAN
    /\ generation \in Nat /\ delivered \in Nat /\ remembered \in Nat
    /\ alarm \in BOOLEAN
    /\ sockets \in [Sockets -> Attachments]
    /\ handlers \in [AllHandlers -> Handling]
    /\ faults \in 0..MaxFaults

(* No frame is ahead of the problem. *)
SocketsFit == \A s \in Sockets : sockets[s].announced <= head /\ sockets[s].told <= generation

(* What a handler has read is not ahead of the problem either; a nudge that  *)
(* awaits its settlement has been remembered.                                *)
HandlerFits(h) ==
    /\ handlers[h].seen <= head
    /\ handlers[h].kind = "idle" => handlers[h].targets = {}
    /\ handlers[h].step \in {"compare", "settle"} => handlers[h].kind = "nudge"
    /\ handlers[h].kind = "nudge" => handlers[h].mark <= generation
    /\ handlers[h].step = "settle" => handlers[h].mark <= remembered

HandlersFit ==
    /\ \A h \in AllHandlers : HandlerFits(h)
    /\ handlers[Alarm].kind \in {"idle", "alarm"}

MarksAgree == delivered <= remembered /\ remembered <= generation

Told(s) == sockets[s].told = generation \/ sockets[s].dirty

(* The nudge of the last change, as soon as it has listed the sockets. *)
Announces(h) ==
    /\ handlers[h].kind = "nudge"
    /\ handlers[h].step \in {"read", "fanout"}
    /\ handlers[h].mark = generation

(* A generation is remembered when every open socket is told; a socket that  *)
(* a nudge has not listed has been opened after the change.                  *)
RememberedIsTold ==
    /\ remembered = generation => \A s \in Open : Told(s)
    /\ \A h \in AllHandlers : Announces(h) => \A s \in Open \ handlers[h].targets : Told(s)

Acks(h, s) == handlers[h].kind = "ack" /\ s \in handlers[h].targets
Connects(h, s) == handlers[h].kind = "connect" /\ s \in handlers[h].targets

(* Each upgrade has a socket of its own, which nothing else has seen open. *)
UpgradesAreApart ==
    \A s \in Sockets :
        /\ \A h \in AllHandlers : Connects(h, s) => sockets[s].state = "connecting"
        /\ \A h \in AllHandlers : Acks(h, s) => sockets[s].state \in {"open", "closed"}
        /\ \A h, i \in AllHandlers : Connects(h, s) /\ Connects(i, s) => h = i

Fits == Types /\ SocketsFit /\ HandlersFit /\ MarksAgree

RoomInv == Fits /\ UpgradesAreApart /\ RememberedIsTold

(* While an acknowledgement is in progress its frame is outstanding, and     *)
(* unless a change has been noted the head it has read is the last one.      *)
AcksAreDue ==
    \A h \in AllHandlers, s \in Open :
        Acks(h, s) =>
            /\ sockets[s].pending /\ sockets[s].announced = handlers[h].mark
            /\ handlers[h].step = "fanout" /\ ~sockets[s].dirty /\ sockets[s].told = generation
               => handlers[h].seen \in {head, Hidden}

Level(s) == sockets[s].pending \/ sockets[s].announced = head

RememberedIsLevel ==
    /\ remembered = generation => \A s \in Open : Level(s)
    /\ \A h \in AllHandlers : Announces(h) => \A s \in Open \ handlers[h].targets : Level(s)

AckInv == AcksAreDue /\ RememberedIsLevel

-----------------------------------------------------------------------------
(* Attachments *)

\* The values an attachment begins and ends with.
LEMMA FixedAttachments ==
    /\ New \in Attachments /\ Connecting \in Attachments /\ Closed \in Attachments
    /\ New.announced = 0 /\ New.told = 0 /\ New.state = "new"
    /\ Connecting.announced = 0 /\ Connecting.told = 0 /\ Connecting.state = "connecting"
    /\ Closed.announced = 0 /\ Closed.told = 0 /\ Closed.state = "closed"
<1>1. New \in Fields /\ Connecting \in Fields /\ Closed \in Fields
  BY DEF New, Connecting, Closed, Fields
<1>2. \A a \in {New, Connecting, Closed} : a.acknowledged = 0 /\ a.announced = 0 /\ a.told = 0
  BY DEF New, Connecting, Closed
<1>3. New.state = "new" /\ Connecting.state = "connecting" /\ Closed.state = "closed"
  BY DEF New, Connecting, Closed
<1> QED
  BY <1>1, <1>2, <1>3 DEF Attachments, Fields

\* A change of a flag that is nobody's concern but the sweep's.
LEMMA FlagRaised ==
    ASSUME NEW a \in Attachments
    PROVE  /\ [a EXCEPT !.revoked = TRUE] \in Attachments
           /\ [a EXCEPT !.overdue = TRUE] \in Attachments
BY DEF Attachments, Fields

\* send keeps the cursors in order when it goes forward.
LEMMA SentFacts ==
    ASSUME Types, NEW a, NEW through \in Nat,
           a \in Fields,
           a.acknowledged <= through
    PROVE  /\ Sent(a, through) \in Attachments
           /\ Sent(a, through).announced = through /\ Sent(a, through).told = generation
           /\ Sent(a, through).pending /\ Sent(a, through).state = a.state
BY DEF Sent, Attachments, Fields, Types

\* refresh: whoever is not closed owes an acknowledgement and is told.
LEMMA RefreshedFacts ==
    ASSUME Fits, NEW a \in Attachments, NEW w \in Handling,
           a.announced <= head, a.told <= generation, w.seen <= head, w.seen >= 0
    PROVE  LET b == Refreshed(a, w) IN
           /\ b \in Attachments /\ b.announced <= head /\ b.told <= generation
           /\ b.state = a.state /\ b.pending
           /\ b.told = generation \/ b.dirty
           /\ a.pending => b.announced = a.announced /\ b.dirty
<1>1. generation \in Nat /\ head \in Nat
  BY DEF Fits, Types
<1>2. CASE a.pending
  <2>1. Refreshed(a, w) = [a EXCEPT !.dirty = TRUE]
    BY <1>2 DEF Refreshed
  <2> QED
    BY <1>1, <1>2, <2>1 DEF Attachments, Fields
<1>3. CASE ~a.pending
  <2> DEFINE through == Larger(w.seen, a.acknowledged)
  <2>1. through \in Nat /\ a.acknowledged <= through /\ through <= head
    BY <1>1, <1>3 DEF Larger, Attachments, Fields, Handling, Hidden
  <2>2. Refreshed(a, w) = Sent(a, through)
    BY <1>3 DEF Refreshed
  <2> HIDE DEF through
  <2>3. a \in Fields
    BY DEF Attachments, Fields
  <2> QED
    BY <1>1, <1>3, <2>1, <2>2, <2>3, SentFacts DEF Fits
<1> QED
  BY <1>2, <1>3 DEF Attachments, Fields

\* completeAck: what was noted is told; without a note the frame that was read
\* is the last, and otherwise another frame is on its way.
LEMMA AcknowledgedFacts ==
    ASSUME Fits, NEW a \in Attachments, NEW w \in Handling,
           a.announced <= head, a.told <= generation, w.seen <= head,
           w.seen >= a.announced, w.mark = a.announced
    PROVE  LET b == Acknowledged(a, w) IN
           /\ b \in Attachments /\ b.announced <= head /\ b.told <= generation
           /\ b.state = a.state
           /\ a.told = generation \/ a.dirty => b.told = generation \/ b.dirty
           /\ b.pending \/ (~a.dirty /\ b.announced = w.seen)
<1> DEFINE done == [a EXCEPT !.acknowledged = w.mark, !.pending = FALSE, !.dirty = FALSE]
           through == Larger(w.seen, w.mark)
<1>1. generation \in Nat /\ head \in Nat
  BY DEF Fits, Types
<1>2. w.mark \in Nat /\ w.seen \in Nat /\ a.announced \in Nat
  BY DEF Attachments, Fields, Handling, Hidden
<1>3. /\ done \in Fields /\ done.state = a.state /\ done.announced = a.announced
      /\ done.told = a.told /\ done.acknowledged = w.mark /\ ~done.pending
  BY <1>2 DEF Attachments, Fields
<1>4. through \in Nat /\ w.mark <= through /\ through <= head
  BY <1>1, <1>2 DEF Larger
<1>5. Acknowledged(a, w) = IF w.seen > w.mark \/ a.dirty THEN Sent(done, through) ELSE done
  BY DEF Acknowledged
<1> HIDE DEF done, through
<1>6. CASE w.seen > w.mark \/ a.dirty
  BY <1>1, <1>3, <1>4, <1>5, <1>6, SentFacts DEF Fits
<1>7. CASE ~(w.seen > w.mark \/ a.dirty)
  <2>1. Acknowledged(a, w) = done /\ ~a.dirty /\ w.seen = w.mark
    BY <1>2, <1>5, <1>7
  <2>2. done \in Attachments
    BY <1>2, <1>3 DEF Attachments
  <2> QED
    BY <1>1, <1>3, <2>1, <2>2
<1> QED
  BY <1>6, <1>7

\* Fanout closes a socket, or leaves it alone, or refreshes it, or completes the
\* acknowledgement of the frame that is outstanding.
LEMMA TreatedFacts ==
    ASSUME Fits, NEW s \in Sockets, NEW w \in Handling, w.seen <= head
    PROVE  LET a == sockets[s]
               b == Treated(s, w)
           IN
           /\ b \in Attachments /\ b.announced <= head /\ b.told <= generation
           /\ b = Closed
              \/ (b = a /\ w.kind # "nudge")
              \/ (b = Refreshed(a, w) /\ w.kind = "nudge" /\ w.seen >= 0)
              \/ (/\ b = Acknowledged(a, w) /\ w.kind = "ack" /\ a.pending
                  /\ w.mark = a.announced /\ w.seen >= a.announced)
<1> DEFINE a == sockets[s]
<1>1. generation \in Nat /\ head \in Nat /\ a \in Attachments /\ a.announced <= head /\ a.told <= generation
  BY DEF Fits, Types, SocketsFit
<1>2. a.announced \in Nat
  BY <1>1 DEF Attachments, Fields
<1>3. w.seen \in Nat \cup {Hidden}
  BY DEF Handling
<1>4. CASE ~Authorized(s, w)
  <2>1. Treated(s, w) = Closed
    BY <1>4 DEF Treated
  <2> QED
    BY <1>1, <2>1, FixedAttachments
<1>5. CASE Authorized(s, w)
  <2>1. w.seen \in Nat /\ w.seen >= a.announced
    BY <1>3, <1>5 DEF Authorized
  <2>2. CASE w.kind = "nudge"
    <3>1. Treated(s, w) = Refreshed(a, w)
      BY <1>5, <2>2 DEF Treated
    <3> QED
      BY <1>1, <2>1, <2>2, <3>1, RefreshedFacts
  <2>3. CASE w.kind = "ack" /\ a.pending /\ w.mark = a.announced
    <3>1. Treated(s, w) = Acknowledged(a, w)
      BY <1>5, <2>3 DEF Treated
    <3> QED
      BY <1>1, <2>1, <2>3, <3>1, AcknowledgedFacts
  <2>4. CASE w.kind # "nudge" /\ ~(w.kind = "ack" /\ a.pending /\ w.mark = a.announced)
    <3>1. Treated(s, w) = a
      BY <1>5, <2>4 DEF Treated
    <3> QED
      BY <1>1, <2>4, <3>1
  <2> QED
    BY <2>2, <2>3, <2>4
<1> QED
  BY <1>4, <1>5

LEMMA FanoutFacts ==
    ASSUME Fits, NEW h \in AllHandlers, Fanout(handlers[h])
    PROVE  /\ sockets' \in [Sockets -> Attachments]
           /\ \A s \in Sockets : sockets'[s].announced <= head /\ sockets'[s].told <= generation
           /\ \A s \in Sockets :
                 sockets'[s] = IF s \in handlers[h].targets \cap Open
                               THEN Treated(s, handlers[h]) ELSE sockets[s]
<1>1. handlers[h] \in Handling /\ handlers[h].seen <= head
  BY DEF Fits, Types, HandlersFit, HandlerFits
<1>2. \A s \in Sockets : /\ Treated(s, handlers[h]) \in Attachments
                         /\ Treated(s, handlers[h]).announced <= head
                         /\ Treated(s, handlers[h]).told <= generation
  BY <1>1, TreatedFacts
<1>3. sockets \in [Sockets -> Attachments]
  BY DEF Fits, Types
<1>4. \A s \in Sockets : sockets[s].announced <= head /\ sockets[s].told <= generation
  BY DEF Fits, SocketsFit
<1> QED
  BY <1>2, <1>3, <1>4 DEF Fanout

-----------------------------------------------------------------------------
(* Types *)

LEMMA Initial == Init => RoomInv /\ AckInv
<1> SUFFICES ASSUME Init
             PROVE  RoomInv /\ AckInv
  OBVIOUS
<1>1. Idle \in Handling /\ Idle.seen = Hidden /\ Idle.kind = "idle" /\ Idle.step = "none"
      /\ Idle.targets = {}
  BY DEF Idle, Handling, Kinds, Steps
<1>2. \A h \in AllHandlers : handlers[h] = Idle
  BY DEF Init
<1>3. \A s \in Sockets : sockets[s] = New
  BY DEF Init
<1>4. Open = {}
  BY <1>3, FixedAttachments DEF Open
<1>5. Types
  <2>1. 0 \in 0..MaxFaults
    BY HeraldConstants
  <2>2. sockets \in [Sockets -> Attachments]
    BY FixedAttachments DEF Init
  <2>3. handlers \in [AllHandlers -> Handling]
    BY <1>1 DEF Init
  <2> QED
    BY <2>1, <2>2, <2>3 DEF Types, Init
<1>6. SocketsFit /\ MarksAgree
  BY <1>3, FixedAttachments DEF SocketsFit, MarksAgree, Init
<1>7. HandlersFit
  BY <1>1, <1>2 DEF HandlersFit, HandlerFits, Hidden, Init, AllHandlers
<1>8. UpgradesAreApart
  BY <1>1, <1>2 DEF UpgradesAreApart, Connects, Acks
<1>9. RememberedIsTold /\ RememberedIsLevel /\ AcksAreDue
  BY <1>1, <1>2, <1>4 DEF RememberedIsTold, RememberedIsLevel, AcksAreDue, Announces
<1> QED
  BY <1>5, <1>6, <1>7, <1>8, <1>9 DEF RoomInv, AckInv, Fits

\* No counter goes back.
Grows ==
    /\ head' \in Nat /\ generation' \in Nat /\ remembered' \in Nat
    /\ head <= head' /\ generation <= generation' /\ remembered <= remembered'

LEMMA Unmoved ==
    ASSUME Fits, head' = head, generation' = generation, remembered' = remembered
    PROVE  Grows
BY DEF Fits, Types, Grows

LEMMA HandlerPut ==
    ASSUME Fits, Grows, NEW h \in AllHandlers, NEW w \in Handling,
           handlers' = [handlers EXCEPT ![h] = w],
           w.seen <= head,
           w.kind = "idle" => w.targets = {},
           w.step \in {"compare", "settle"} => w.kind = "nudge",
           w.kind = "nudge" => w.mark <= generation,
           w.step = "settle" => w.mark <= remembered',
           h = Alarm => w.kind \in {"idle", "alarm"}
    PROVE  handlers' \in [AllHandlers -> Handling] /\ HandlersFit'
<1>1. handlers \in [AllHandlers -> Handling]
  BY DEF Fits, Types
<1>2. handlers' \in [AllHandlers -> Handling]
  BY <1>1
<1>3. handlers'[h] = w /\ \A i \in AllHandlers \ {h} : handlers'[i] = handlers[i]
  BY <1>1
<1>4. ASSUME NEW i \in AllHandlers
      PROVE  HandlerFits(i)'
  <2>1. handlers'[i] \in Handling
    BY <1>2
  <2>2. /\ handlers'[i].seen <= head
        /\ handlers'[i].kind = "idle" => handlers'[i].targets = {}
        /\ handlers'[i].step \in {"compare", "settle"} => handlers'[i].kind = "nudge"
        /\ handlers'[i].kind = "nudge" => handlers'[i].mark <= generation
        /\ handlers'[i].step = "settle" => handlers'[i].mark <= remembered'
    <3>1. CASE i = h
      BY <1>3, <3>1
    <3>2. CASE i # h
      <4>1. handlers'[i] = handlers[i] /\ HandlerFits(i)
        BY <1>3, <3>2 DEF Fits, HandlersFit
      <4>2. handlers[i].mark \in Nat /\ remembered \in Nat
        BY <1>1 DEF Handling, Fits, Types
      <4> QED
        BY <4>1, <4>2 DEF HandlerFits, Grows
    <3> QED
      BY <3>1, <3>2
  <2>3. handlers'[i].mark \in Nat /\ handlers'[i].seen \in Int /\ head \in Nat /\ generation \in Nat
    BY <2>1 DEF Handling, Hidden, Fits, Types
  <2> QED
    BY <2>2, <2>3 DEF HandlerFits, Grows
<1>5. handlers'[Alarm].kind \in {"idle", "alarm"}
  BY <1>3 DEF Fits, HandlersFit, AllHandlers
<1> QED
  BY <1>2, <1>4, <1>5 DEF HandlersFit

LEMMA HandlersStand ==
    ASSUME Fits, Grows, UNCHANGED handlers
    PROVE  handlers' \in [AllHandlers -> Handling] /\ HandlersFit'
<1>1. handlers \in [AllHandlers -> Handling]
  BY DEF Fits, Types
<1>2. ASSUME NEW i \in AllHandlers
      PROVE  HandlerFits(i)'
  <2>1. handlers[i].mark \in Nat /\ handlers[i].seen \in Int
    BY <1>1 DEF Handling, Hidden
  <2>2. head \in Nat /\ generation \in Nat /\ remembered \in Nat
    BY DEF Fits, Types
  <2>3. HandlerFits(i)
    BY DEF Fits, HandlersFit
  <2> QED
    BY <2>1, <2>2, <2>3 DEF HandlerFits, Grows
<1> QED
  BY <1>1, <1>2 DEF HandlersFit, Fits

\* A handler that is done.
LEMMA HandlerDone ==
    ASSUME Fits, Grows, NEW h \in AllHandlers, Finish(h)
    PROVE  handlers' \in [AllHandlers -> Handling] /\ HandlersFit'
<1>1. Idle \in Handling /\ Idle.seen = Hidden /\ Idle.kind = "idle" /\ Idle.step = "none"
      /\ Idle.targets = {}
  BY DEF Idle, Handling, Kinds, Steps
<1>2. Idle.seen <= head
  BY <1>1 DEF Hidden, Fits, Types
<1> QED
  BY <1>1, <1>2, HandlerPut DEF Finish

\* A handler that goes on or begins, and has read nothing yet.
LEMMA HandlerBegins ==
    ASSUME Fits, Grows, NEW h \in AllHandlers, NEW kind \in Kinds, NEW step \in Steps,
           NEW targets \in SUBSET Sockets, NEW mark \in Nat,
           handlers' = [handlers EXCEPT ![h] = Handler(kind, step, targets, mark)],
           kind # "idle",
           step \in {"compare", "settle"} => kind = "nudge",
           kind = "nudge" => mark <= generation,
           step = "settle" => mark <= remembered',
           h = Alarm => kind \in {"idle", "alarm"}
    PROVE  handlers' \in [AllHandlers -> Handling] /\ HandlersFit'
<1> DEFINE w == Handler(kind, step, targets, mark)
<1>1. w \in Handling /\ w.seen = Hidden /\ w.kind = kind /\ w.step = step /\ w.mark = mark
  BY DEF Handler, Handling
<1>2. w.seen <= head
  BY <1>1 DEF Hidden, Fits, Types
<1> HIDE DEF w
<1> QED
  BY <1>1, <1>2, HandlerPut DEF w

\* Sockets that are unchanged or closed.
LEMMA SocketsClosed ==
    ASSUME Fits, Grows, NEW S, CloseAll(S)
    PROVE  sockets' \in [Sockets -> Attachments] /\ SocketsFit'
<1>1. \A s \in Sockets : sockets'[s] \in {sockets[s], Closed}
  BY DEF CloseAll
<1>2. sockets \in [Sockets -> Attachments] /\ head \in Nat /\ generation \in Nat
  BY DEF Fits, Types
<1>3. ASSUME NEW s \in Sockets
      PROVE  sockets'[s].announced <= head' /\ sockets'[s].told <= generation'
  <2>1. CASE sockets'[s] = sockets[s]
    <3>1. sockets[s].announced \in Nat /\ sockets[s].told \in Nat
      BY <1>2 DEF Attachments, Fields
    <3>2. sockets[s].announced <= head /\ sockets[s].told <= generation
      BY DEF Fits, SocketsFit
    <3> QED
      BY <1>2, <2>1, <3>1, <3>2 DEF Grows
  <2>2. CASE sockets'[s] = Closed
    BY <2>2, FixedAttachments DEF Grows
  <2> QED
    BY <1>1, <2>1, <2>2
<1> QED
  BY <1>2, <1>3, FixedAttachments DEF CloseAll, SocketsFit

LEMMA SocketsStand ==
    ASSUME Fits, Grows, UNCHANGED sockets
    PROVE  sockets' \in [Sockets -> Attachments] /\ SocketsFit'
<1>1. CloseAll({})
  BY DEF CloseAll, Fits, Types
<1> QED
  BY <1>1, SocketsClosed

\* One socket that gets a value of its kind.
LEMMA SocketPut ==
    ASSUME Fits, Grows, NEW s \in Sockets, NEW a \in Attachments,
           sockets' = [sockets EXCEPT ![s] = a], a.announced <= head, a.told <= generation
    PROVE  sockets' \in [Sockets -> Attachments] /\ SocketsFit'
<1>1. sockets \in [Sockets -> Attachments] /\ head \in Nat /\ generation \in Nat
  BY DEF Fits, Types
<1>2. ASSUME NEW t \in Sockets
      PROVE  sockets'[t].announced <= head' /\ sockets'[t].told <= generation'
  <2>1. sockets'[t] \in Attachments
    BY <1>1
  <2>2. sockets'[t].announced \in Nat /\ sockets'[t].told \in Nat
    BY <2>1 DEF Attachments, Fields
  <2>3. sockets'[t].announced <= head /\ sockets'[t].told <= generation
    BY <1>1 DEF Fits, SocketsFit
  <2> QED
    BY <1>1, <2>2, <2>3 DEF Grows
<1> QED
  BY <1>1, <1>2 DEF SocketsFit

\* What a handler knows when its reads have come back.
LEMMA AuthorityRead ==
    ASSUME Fits, NEW h \in AllHandlers, ReadAuthority(h)
    PROVE  \E v \in Handling :
              /\ handlers' = [handlers EXCEPT ![h] = v]
              /\ v.kind = handlers[h].kind /\ v.mark = handlers[h].mark /\ v.step = "fanout"
              /\ v.targets \subseteq handlers[h].targets
              /\ handlers[h].targets \cap Open \subseteq v.targets
              /\ v.kind # "connect" => v.targets \subseteq Open
              /\ v.seen \in {head, Hidden}
<1> DEFINE w == handlers[h]
           live == IF w.kind = "connect" THEN w.targets ELSE w.targets \cap Open
           trusted == {s \in live : ~sockets[s].revoked}
           seen == IF visible /\ trusted # {} THEN head ELSE Hidden
           v == [w EXCEPT !.step = "fanout", !.targets = live, !.trusted = trusted, !.seen = seen]
<1>1. w \in Handling /\ head \in Nat
  BY DEF Fits, Types
<1>2. live \in SUBSET Sockets /\ trusted \in SUBSET Sockets /\ seen \in {head, Hidden}
  BY <1>1 DEF Handling
<1>3. seen \in Nat \cup {Hidden} /\ "fanout" \in Steps
  BY <1>1, <1>2 DEF Steps
<1>4. handlers' = [handlers EXCEPT ![h] = v]
  BY DEF ReadAuthority, Progress
<1>5. /\ live \subseteq w.targets /\ w.targets \cap Open \subseteq live
      /\ w.kind # "connect" => live \subseteq Open
  OBVIOUS
<1> HIDE DEF live, trusted, seen
<1>6. /\ v \in Handling /\ v.kind = w.kind /\ v.mark = w.mark /\ v.step = "fanout"
      /\ v.targets = live /\ v.seen = seen
  BY <1>1, <1>2, <1>3 DEF Handling
<1> QED
  BY <1>2, <1>4, <1>5, <1>6

\* A change of the problem.
Changes == Publish \/ ChangeStatus \/ Redact

LEMMA StepKeepsFit ==
    ASSUME Fits, [Next]_vars
    PROVE  Fits'
<1>1. /\ head \in Nat /\ generation \in Nat /\ delivered \in Nat /\ remembered \in Nat
      /\ delivered <= remembered /\ remembered <= generation
      /\ handlers \in [AllHandlers -> Handling] /\ sockets \in [Sockets -> Attachments]
      /\ visible \in BOOLEAN /\ alarm \in BOOLEAN /\ faults \in 0..MaxFaults
  BY DEF Fits, Types, MarksAgree
<1> DEFINE Kept == /\ sockets' \in [Sockets -> Attachments] /\ SocketsFit'
                   /\ handlers' \in [AllHandlers -> Handling] /\ HandlersFit'
<1>2. Arm \/ UNCHANGED alarm => alarm' \in BOOLEAN
  BY <1>1 DEF Arm
<1>3. Fault => faults' \in 0..MaxFaults
  BY <1>1, HeraldConstants DEF Fault
\* Most steps leave the problem alone.
<1>4. ASSUME UNCHANGED problemVars, UNCHANGED remembered, Kept,
             alarm' \in BOOLEAN, faults' \in 0..MaxFaults
      PROVE  Fits'
  BY <1>1, <1>4 DEF Fits, Types, MarksAgree, problemVars
<1>5. UNCHANGED problemVars /\ UNCHANGED remembered => Grows
  BY Unmoved DEF problemVars
<1>6. AllHandlers = Handlers \cup {Alarm}
  BY DEF AllHandlers
<1>6a. /\ Closed \in Attachments /\ Closed.announced <= head /\ Closed.told <= generation
       /\ Connecting \in Attachments /\ Connecting.announced <= head /\ Connecting.told <= generation
  BY <1>1, FixedAttachments
<1>7. CASE Changes
  <2>1. /\ UNCHANGED <<delivered, roomVars, handlers, faults>>
        /\ generation' = generation + 1 /\ head' \in {head, head + 1} /\ visible' \in BOOLEAN
    BY <1>1, <1>7 DEF Changes, Publish, ChangeStatus, Redact, Raise
  <2>2. Grows /\ UNCHANGED <<sockets, handlers, remembered, alarm>>
    BY <1>1, <2>1 DEF Grows, roomVars
  <2>3. Kept
    BY <2>2, SocketsStand, HandlersStand
  <2> QED
    BY <1>1, <2>1, <2>2, <2>3 DEF Fits, Types, MarksAgree
<1>8. ASSUME NEW s \in Sockets, Revoke(s) \/ Lapse(s)
      PROVE  Fits'
  <2>1. /\ UNCHANGED <<problemVars, remembered, alarm, handlers, faults>>
        /\ \/ sockets' = [sockets EXCEPT ![s].revoked = TRUE]
           \/ sockets' = [sockets EXCEPT ![s].overdue = TRUE]
    BY <1>8 DEF Revoke, Lapse
  <2>2. sockets[s] \in Attachments /\ sockets[s].announced <= head /\ sockets[s].told <= generation
    BY <1>1 DEF Fits, SocketsFit
  <2>3. PICK a : /\ a \in {[sockets[s] EXCEPT !.revoked = TRUE], [sockets[s] EXCEPT !.overdue = TRUE]}
                 /\ sockets' = [sockets EXCEPT ![s] = a]
    BY <1>1, <2>1
  <2>4. a \in Attachments /\ a.announced <= head /\ a.told <= generation
    <3>1. a \in Attachments
      BY <2>2, <2>3, FlagRaised
    <3>2. a.announced = sockets[s].announced /\ a.told = sockets[s].told
      BY <2>2, <2>3 DEF Attachments, Fields
    <3> QED
      BY <2>2, <3>1, <3>2
  <2>5. Kept
    BY <1>5, <2>1, <2>3, <2>4, SocketPut, HandlersStand
  <2> QED
    BY <1>1, <1>4, <2>1, <2>5
<1>9. ASSUME NEW s \in Sockets, Leave(s)
      PROVE  Fits'
  <2>1. UNCHANGED <<problemVars, remembered, alarm, handlers, faults>>
    BY <1>9 DEF Leave
  <2>2. sockets' = [sockets EXCEPT ![s] = Closed]
    BY <1>9 DEF Leave
  <2>3. Kept
    BY <1>5, <1>6a, <2>1, <2>2, SocketPut, HandlersStand
  <2> QED
    BY <1>1, <1>4, <2>1, <2>3
<1>10. ASSUME NEW h \in Handlers, NEW s \in Sockets, BeginAck(h, s)
       PROVE  Fits'
  <2>1. UNCHANGED <<problemVars, remembered, alarm, faults>> /\ Grows /\ h \in AllHandlers /\ h # Alarm
    BY <1>5, <1>6, <1>10, HeraldConstants DEF BeginAck
  <2>2. CASE sockets[s].overdue
    <3>1. sockets' = [sockets EXCEPT ![s] = Closed] /\ UNCHANGED handlers
      BY <1>10, <2>2 DEF BeginAck
    <3>2. Kept
      BY <1>6a, <2>1, <3>1, SocketPut, HandlersStand
    <3> QED
      BY <1>1, <1>4, <2>1, <3>2
  <2>3. CASE ~sockets[s].overdue
    <3>1. /\ UNCHANGED sockets
          /\ handlers' = [handlers EXCEPT ![h] = Handler("ack", "read", {s}, sockets[s].announced)]
      BY <1>10, <2>3 DEF BeginAck, Start
    <3>2. sockets[s].announced \in Nat
      BY <1>1 DEF Attachments, Fields
    <3>3. Kept
      BY <2>1, <3>1, <3>2, SocketsStand, HandlerBegins DEF Kinds, Steps
    <3> QED
      BY <1>1, <1>4, <2>1, <3>3
  <2> QED
    BY <2>2, <2>3
<1>11. ASSUME NEW h \in Handlers, NEW s \in Sockets, NEW since \in 0..MaxGeneration,
              Connect(h, s, since)
       PROVE  Fits'
  <2>1. UNCHANGED <<problemVars, remembered, alarm, faults>> /\ Grows /\ h \in AllHandlers /\ h # Alarm
    BY <1>5, <1>6, <1>11, HeraldConstants DEF Connect
  <2>2. /\ sockets' = [sockets EXCEPT ![s] = Connecting]
        /\ handlers' = [handlers EXCEPT ![h] = Handler("connect", "read", {s}, since)]
    BY <1>11 DEF Connect, Start
  <2>3. since \in Nat
    BY HeraldConstants
  <2>4. sockets' \in [Sockets -> Attachments] /\ SocketsFit'
    BY <1>6a, <2>1, <2>2, SocketPut
  <2>5. handlers' \in [AllHandlers -> Handling] /\ HandlersFit'
    BY <2>1, <2>2, <2>3, HandlerBegins DEF Kinds, Steps
  <2> QED
    BY <1>1, <1>4, <2>1, <2>4, <2>5
<1>12. ASSUME NEW h \in AllHandlers, Fail(h)
       PROVE  Fits'
  <2>1. UNCHANGED <<problemVars, remembered>> /\ Grows /\ Finish(h) /\ faults' \in 0..MaxFaults
    BY <1>3, <1>5, <1>12 DEF Fail
  <2>2. \E S : CloseAll(S)
    BY <1>12 DEF Fail
  <2>3. Kept
    BY <2>1, <2>2, SocketsClosed, HandlerDone
  <2>4. alarm' \in BOOLEAN
    BY <1>2, <1>12 DEF Fail
  <2> QED
    BY <1>4, <2>1, <2>3, <2>4
<1>13. ASSUME NEW kept \in SUBSET Open, Restart(kept)
       PROVE  Fits'
  <2>1. UNCHANGED <<problemVars, remembered>> /\ Grows /\ faults' \in 0..MaxFaults
    BY <1>3, <1>5, <1>13 DEF Restart
  <2>2. \E S : CloseAll(S)
    BY <1>13 DEF Restart
  <2>3. sockets' \in [Sockets -> Attachments] /\ SocketsFit'
    BY <2>1, <2>2, SocketsClosed
  <2>4. alarm' \in BOOLEAN
    BY <1>1, <1>13 DEF Restart
  <2>5. Idle \in Handling /\ Idle.seen = Hidden /\ Idle.kind = "idle" /\ Idle.step = "none"
        /\ Idle.targets = {}
    BY DEF Idle, Handling, Kinds, Steps
  <2>6. handlers' \in [AllHandlers -> Handling]
    BY <1>1, <1>13, <2>5 DEF Restart
  <2>7. HandlersFit'
    <3>1. \A h \in AllHandlers : handlers'[h] = handlers[h] \/ handlers'[h] = Idle
      BY <1>13 DEF Restart
    <3>2. /\ head' = head /\ generation' = generation /\ remembered' = remembered
          /\ \A h \in AllHandlers : HandlerFits(h)
          /\ handlers[Alarm].kind \in {"idle", "alarm"}
      BY <2>1 DEF problemVars, Fits, HandlersFit
    <3>3. ASSUME NEW h \in AllHandlers
          PROVE  HandlerFits(h)'
      BY <1>1, <2>5, <3>1, <3>2 DEF HandlerFits, Hidden
    <3> QED
      BY <1>6, <2>5, <3>1, <3>2, <3>3 DEF HandlersFit
  <2> QED
    BY <1>4, <2>1, <2>3, <2>4, <2>6, <2>7
<1>14. ASSUME NEW h \in Handlers, Deliver(h)
       PROVE  Fits'
  <2>1. /\ UNCHANGED <<problemVars, remembered, alarm, sockets, faults>> /\ Grows
        /\ h \in AllHandlers /\ h # Alarm
    BY <1>5, <1>6, <1>14, HeraldConstants DEF Deliver, roomVars
  <2>2. handlers' = [handlers EXCEPT ![h] = Handler("nudge", "compare", {}, generation)]
    BY <1>14 DEF Deliver, Start
  <2>3. {} \in SUBSET Sockets /\ "nudge" \in Kinds /\ "compare" \in Steps /\ generation <= generation
    BY <1>1 DEF Kinds, Steps
  <2>4. handlers' \in [AllHandlers -> Handling] /\ HandlersFit'
    BY <1>1, <2>1, <2>2, <2>3, HandlerBegins
  <2>5. sockets' \in [Sockets -> Attachments] /\ SocketsFit'
    BY <2>1, SocketsStand
  <2> QED
    BY <1>1, <1>4, <2>1, <2>4, <2>5
<1>15. ASSUME NEW h \in AllHandlers, ReadAuthority(h)
       PROVE  Fits'
  <2> DEFINE w == handlers[h]
  <2>1. /\ UNCHANGED <<problemVars, remembered, alarm, sockets, faults>> /\ Grows
        /\ w \in Handling /\ HandlerFits(h) /\ w.step = "read"
    BY <1>1, <1>5, <1>15 DEF ReadAuthority, roomVars, Fits, HandlersFit
  <2>2. PICK v \in Handling :
            /\ handlers' = [handlers EXCEPT ![h] = v]
            /\ v.kind = w.kind /\ v.mark = w.mark /\ v.step = "fanout" /\ v.targets \subseteq w.targets
            /\ v.seen \in {head, Hidden}
    BY <1>15, AuthorityRead
  <2>3. v.seen <= head
    BY <1>1, <2>2 DEF Hidden
  <2>4. w.kind = "nudge" => w.mark <= generation
    BY <2>1 DEF HandlerFits
  <2>5. h = Alarm => w.kind \in {"idle", "alarm"}
    BY DEF Fits, HandlersFit
  <2>6. w.kind = "idle" => v.targets = {}
    BY <2>1, <2>2 DEF HandlerFits
  <2> HIDE DEF w
  <2>7. Kept
    BY <2>1, <2>2, <2>3, <2>4, <2>5, <2>6, SocketsStand, HandlerPut
  <2> QED
    BY <1>1, <1>4, <2>1, <2>7
<1>16. ASSUME NEW h \in AllHandlers, CompareGeneration(h)
       PROVE  Fits'
  <2> DEFINE mark == handlers[h].mark
  <2>1. /\ UNCHANGED <<problemVars, remembered, sockets, faults>> /\ Grows /\ alarm' \in BOOLEAN
    BY <1>2, <1>5, <1>16 DEF CompareGeneration, roomVars
  <2>2. mark \in Nat /\ mark <= generation /\ h # Alarm
    <3>1. HandlerFits(h) /\ handlers[h].step = "compare" /\ handlers[h] \in Handling
      BY <1>1, <1>16 DEF CompareGeneration, Fits, HandlersFit
    <3> QED
      BY <3>1 DEF HandlerFits, Handling, Fits, HandlersFit
  <2>3. PICK step \in {"fanout", "read", "settle"}, targets \in SUBSET Sockets :
            /\ handlers' = [handlers EXCEPT ![h] = Handler("nudge", step, targets, mark)]
            /\ step = "settle" => mark <= remembered
    BY <1>1, <1>16, <2>2 DEF CompareGeneration, Progress, Open
  <2>4. Kept
    BY <2>1, <2>2, <2>3, SocketsStand, HandlerBegins DEF Kinds, Steps
  <2> QED
    BY <1>1, <1>4, <2>1, <2>4
<1>17. ASSUME NEW h \in AllHandlers, Refresh(h)
       PROVE  Fits'
  <2>1. /\ UNCHANGED problemVars /\ Fanout(handlers[h]) /\ handlers[h].kind = "nudge"
        /\ HandlerFits(h) /\ handlers[h].mark \in Nat
    BY <1>1, <1>17 DEF Refresh, Fits, HandlersFit, Handling
  <2>2. handlers[h].mark <= generation /\ h # Alarm
    BY <2>1 DEF HandlerFits, Fits, HandlersFit
  <2>3. sockets' \in [Sockets -> Attachments] /\ SocketsFit'
    BY <1>1, <2>1, FanoutFacts DEF SocketsFit, problemVars
  <2>4. CASE /\ remembered' = Larger(remembered, handlers[h].mark) /\ Arm
             /\ Progress(h, Handler("nudge", "settle", {}, handlers[h].mark)) /\ UNCHANGED faults
    <3>1. /\ remembered' \in Nat /\ remembered <= remembered' /\ remembered' <= generation
          /\ handlers[h].mark <= remembered'
      BY <1>1, <2>1, <2>2, <2>4 DEF Larger
    <3>2. Grows
      BY <1>1, <2>1, <3>1 DEF Grows, problemVars
    <3>3. handlers' \in [AllHandlers -> Handling] /\ HandlersFit'
      BY <2>1, <2>2, <2>4, <3>1, <3>2, HandlerBegins DEF Progress, Kinds, Steps
    <3>4. alarm' \in BOOLEAN /\ faults' \in 0..MaxFaults
      BY <1>1, <1>2, <2>4
    <3> QED
      BY <1>1, <2>1, <2>3, <3>1, <3>3, <3>4 DEF Fits, Types, MarksAgree, problemVars
  <2>5. CASE Fault /\ Finish(h) /\ UNCHANGED <<remembered, alarm>>
    <3>1. handlers' \in [AllHandlers -> Handling] /\ HandlersFit'
      BY <1>5, <2>1, <2>5, HandlerDone
    <3> QED
      BY <1>1, <1>3, <1>4, <2>1, <2>3, <2>5, <3>1
  <2> QED
    BY <1>17, <2>4, <2>5 DEF Refresh
<1>18. ASSUME NEW h \in AllHandlers, Settle(h)
       PROVE  Fits'
  <2>1. /\ UNCHANGED <<head, visible, generation, remembered, alarm, sockets, faults>>
        /\ Finish(h) /\ Grows /\ handlers[h].step = "settle"
    BY <1>18, Unmoved DEF Settle, roomVars
  <2>2. handlers[h].mark <= remembered
    BY <2>1 DEF Fits, HandlersFit, HandlerFits
  <2>3. delivered' \in Nat /\ delivered' <= remembered
    BY <1>1, <1>18, <2>2 DEF Settle, Settles
  <2>4. Kept
    BY <2>1, SocketsStand, HandlerDone
  <2> QED
    BY <1>1, <2>1, <2>3, <2>4 DEF Fits, Types, MarksAgree
<1>19. ASSUME NEW h \in AllHandlers, Accept(h)
       PROVE  Fits'
  <2> DEFINE w == handlers[h]
             accepted(s) == [sockets[s] EXCEPT !.state = "open", !.acknowledged = w.mark]
  <2>1. /\ UNCHANGED <<problemVars, remembered, faults>> /\ Finish(h) /\ Grows
        /\ w \in Handling /\ HandlerFits(h)
    BY <1>1, <1>5, <1>19 DEF Accept, Fits, HandlersFit
  <2>2. alarm' \in BOOLEAN
    BY <1>1, <1>2, <1>19 DEF Accept
  <2>3. ASSUME NEW s \in Sockets, Admitted(w)
        PROVE  LET a == Sent(accepted(s), w.seen) IN
               a \in Attachments /\ a.announced <= head /\ a.told <= generation
    <3>1. accepted(s) \in Fields /\ accepted(s).acknowledged = w.mark
      BY <1>1, <2>1 DEF Attachments, Fields, Handling
    <3>2. w.seen \in Nat /\ w.mark <= w.seen /\ w.seen <= head
      BY <2>1, <2>3 DEF Admitted, Handling, Hidden, HandlerFits
    <3> HIDE DEF accepted
    <3> QED
      BY <1>1, <3>1, <3>2, SentFacts DEF Fits
  <2> DEFINE result(s) == IF s \notin w.targets THEN sockets[s]
                          ELSE IF Admitted(w) THEN Sent(accepted(s), w.seen) ELSE Closed
  <2>4. sockets' = [s \in Sockets |-> result(s)]
    BY <1>19 DEF Accept
  <2>5. ASSUME NEW s \in Sockets
        PROVE  result(s) \in Attachments /\ result(s).announced <= head /\ result(s).told <= generation
    <3>1. sockets[s] \in Attachments /\ sockets[s].announced <= head /\ sockets[s].told <= generation
      BY <1>1 DEF Fits, SocketsFit
    <3> HIDE DEF accepted
    <3> QED
      BY <1>1, <2>3, <3>1, FixedAttachments
  <2> HIDE DEF result
  <2>6. sockets' \in [Sockets -> Attachments] /\ SocketsFit'
    BY <2>1, <2>4, <2>5 DEF SocketsFit, problemVars
  <2>7. handlers' \in [AllHandlers -> Handling] /\ HandlersFit'
    BY <2>1, HandlerDone
  <2> QED
    BY <1>1, <1>4, <2>1, <2>2, <2>6, <2>7
<1>20. ASSUME NEW h \in AllHandlers, CompleteAck(h) \/ (Revalidate /\ h = Alarm)
       PROVE  Fits'
  <2>1. /\ UNCHANGED <<problemVars, remembered, faults>> /\ Finish(h) /\ Grows
        /\ Fanout(handlers[h]) /\ alarm' \in BOOLEAN
    BY <1>1, <1>2, <1>5, <1>20 DEF CompleteAck, Revalidate
  <2>2. sockets' \in [Sockets -> Attachments] /\ SocketsFit'
    BY <1>1, <2>1, FanoutFacts DEF SocketsFit, problemVars
  <2>3. handlers' \in [AllHandlers -> Handling] /\ HandlersFit'
    BY <2>1, HandlerDone
  <2> QED
    BY <1>1, <1>4, <2>1, <2>2, <2>3
<1>21. CASE FireAlarm
  <2>1. UNCHANGED <<problemVars, remembered, sockets, faults>> /\ Grows /\ alarm' \in BOOLEAN
    BY <1>5, <1>21 DEF FireAlarm
  <2>2. handlers' \in [AllHandlers -> Handling] /\ HandlersFit'
    <3>1. CASE UNCHANGED handlers
      BY <2>1, <3>1, HandlersStand
    <3>2. CASE handlers' = [handlers EXCEPT ![Alarm] = Handler("alarm", "read", Open, 0)]
      <4>1. Open \in SUBSET Sockets
        BY DEF Open
      <4> QED
        BY <1>6, <2>1, <3>2, <4>1, HandlerBegins DEF Kinds, Steps
    <3> QED
      BY <1>21, <3>1, <3>2 DEF FireAlarm, Start
  <2>3. sockets' \in [Sockets -> Attachments] /\ SocketsFit'
    BY <2>1, SocketsStand
  <2> QED
    BY <1>1, <1>4, <2>1, <2>2, <2>3
<1>22. CASE UNCHANGED vars
  <2>1. UNCHANGED <<problemVars, remembered, alarm, sockets, handlers, faults>>
    BY <1>22 DEF vars, roomVars
  <2>2. Kept
    BY <1>5, <2>1, SocketsStand, HandlersStand
  <2> QED
    BY <1>1, <1>4, <2>1, <2>2
<1>23. CASE Environment
  BY <1>7, <1>8, <1>9, <1>10, <1>11, <1>12, <1>13, <1>23 DEF Environment, Changes
<1>24. ASSUME NEW h \in AllHandlers, Continue(h)
       PROVE  Fits'
  BY <1>15, <1>16, <1>17, <1>18, <1>19, <1>20, <1>24 DEF Continue
<1> QED
  BY <1>6, <1>14, <1>20, <1>21, <1>22, <1>23, <1>24 DEF Next

-----------------------------------------------------------------------------
(* Upgrades *)

\* No upgrade or acknowledgement begins, an upgrade that goes on keeps its
\* socket, and no socket is reopened.
LEMMA ApartKept ==
    ASSUME UpgradesAreApart,
           \A s \in Sockets, h \in AllHandlers :
               Connects(h, s)' => Connects(h, s) /\ sockets'[s].state = sockets[s].state,
           \A s \in Sockets, h \in AllHandlers : Acks(h, s)' => Acks(h, s),
           \A s \in Sockets : sockets[s].state \in {"open", "closed"} =>
                                  sockets'[s].state \in {"open", "closed"}
    PROVE  UpgradesAreApart'
BY DEF UpgradesAreApart

\* The handlers other than the one that moves.
LEMMA OthersStand ==
    ASSUME Fits, NEW h \in AllHandlers, NEW w, handlers' = [handlers EXCEPT ![h] = w]
    PROVE  /\ handlers'[h] = w
           /\ \A i \in AllHandlers : i # h => handlers'[i] = handlers[i]
BY DEF Fits, Types

LEMMA StepKeepsApart ==
    ASSUME Fits, UpgradesAreApart, [Next]_vars
    PROVE  UpgradesAreApart'
<1>1. sockets \in [Sockets -> Attachments] /\ handlers \in [AllHandlers -> Handling]
  BY DEF Fits, Types
<1>2. Idle.kind = "idle"
  BY DEF Idle
<1>3. \A s \in Sockets, h \in AllHandlers :
         /\ Connects(h, s) => sockets[s].state = "connecting"
         /\ Acks(h, s) => sockets[s].state \in {"open", "closed"}
  BY DEF UpgradesAreApart
<1>4. AllHandlers = Handlers \cup {Alarm}
  BY DEF AllHandlers
\* One handler goes on, or ends, as something that is none of the two.
<1>5. ASSUME NEW h \in AllHandlers, NEW w, handlers' = [handlers EXCEPT ![h] = w],
             w.kind \notin {"connect", "ack"}
      PROVE  \A s \in Sockets, i \in AllHandlers :
                /\ Connects(i, s)' => i # h /\ Connects(i, s)
                /\ Acks(i, s)' => Acks(i, s)
  BY <1>5, OthersStand DEF Connects, Acks
<1>6. ASSUME NEW h \in AllHandlers, Finish(h)
      PROVE  \A s \in Sockets, i \in AllHandlers :
                /\ Connects(i, s)' => i # h /\ Connects(i, s)
                /\ Acks(i, s)' => Acks(i, s)
  BY <1>2, <1>5, <1>6 DEF Finish
<1>7. CASE Changes \/ UNCHANGED vars
  <2>1. UNCHANGED <<sockets, handlers>>
    BY <1>7 DEF Changes, Publish, ChangeStatus, Redact, Raise, roomVars, vars
  <2> QED
    BY <2>1 DEF UpgradesAreApart, Connects, Acks
<1>8. ASSUME NEW s \in Sockets, Revoke(s) \/ Lapse(s)
      PROVE  UpgradesAreApart'
  <2>1. \A t \in Sockets : sockets'[t].state = sockets[t].state
    BY <1>1, <1>8 DEF Revoke, Lapse, Attachments, Fields
  <2>2. UNCHANGED handlers
    BY <1>8 DEF Revoke, Lapse
  <2> QED
    BY <2>1, <2>2, ApartKept DEF Connects, Acks
<1>9. ASSUME NEW s \in Open, sockets' = [sockets EXCEPT ![s] = Closed], UNCHANGED handlers
      PROVE  UpgradesAreApart'
  <2>1. \A t \in Sockets : sockets'[t] = IF t = s THEN Closed ELSE sockets[t]
    BY <1>1, <1>9
  <2>2. sockets[s].state = "open" /\ Closed.state = "closed"
    BY FixedAttachments DEF Open
  <2> QED
    BY <1>3, <1>9, <2>1, <2>2, ApartKept DEF Connects, Acks
<1>10. ASSUME NEW h \in Handlers, NEW s \in Sockets, BeginAck(h, s)
       PROVE  UpgradesAreApart'
  <2>1. CASE sockets[s].overdue
    BY <1>9, <1>10, <2>1 DEF BeginAck
  <2>2. CASE ~sockets[s].overdue
    <3> DEFINE w == Handler("ack", "read", {s}, sockets[s].announced)
    <3>1. UNCHANGED sockets /\ handlers' = [handlers EXCEPT ![h] = w] /\ s \in Open
      BY <1>10, <2>2 DEF BeginAck, Start
    <3>2. w.kind = "ack" /\ w.targets = {s}
      BY DEF Handler
    <3> HIDE DEF w
    <3>3. \A i \in AllHandlers : handlers'[i] = IF i = h THEN w ELSE handlers[i]
      BY <1>1, <3>1
    <3> QED
      BY <3>1, <3>2, <3>3 DEF UpgradesAreApart, Connects, Acks, Open
  <2> QED
    BY <2>1, <2>2
<1>11. ASSUME NEW h \in Handlers, NEW s \in Sockets, NEW since \in 0..MaxGeneration,
              Connect(h, s, since)
       PROVE  UpgradesAreApart'
  <2> DEFINE w == Handler("connect", "read", {s}, since)
  <2>1. /\ sockets' = [sockets EXCEPT ![s] = Connecting] /\ handlers' = [handlers EXCEPT ![h] = w]
        /\ sockets[s].state = "new" /\ Connecting.state = "connecting"
    BY <1>11, FixedAttachments DEF Connect, Start
  <2>2. w.kind = "connect" /\ w.targets = {s}
    BY DEF Handler
  <2> HIDE DEF w
  <2>3. \A i \in AllHandlers : handlers'[i] = IF i = h THEN w ELSE handlers[i]
    BY <1>1, <2>1
  <2>4. \A t \in Sockets : sockets'[t] = IF t = s THEN Connecting ELSE sockets[t]
    BY <1>1, <2>1
  <2>5. \A i \in AllHandlers : ~Connects(i, s) /\ ~Acks(i, s)
    BY <1>3, <2>1
  <2> QED
    BY <2>1, <2>2, <2>3, <2>4, <2>5 DEF UpgradesAreApart, Connects, Acks
<1>12. ASSUME NEW h \in AllHandlers, Fail(h)
       PROVE  UpgradesAreApart'
  <2> DEFINE w == handlers[h]
             S == CASE w.kind = "nudge" -> {}
                    [] w.kind = "alarm" -> Open
                    [] OTHER -> w.targets \ {s \in Sockets : sockets[s] = New}
  <2>1. CloseAll(S) /\ Finish(h)
    BY <1>12 DEF Fail
  <2>2. \A i \in AllHandlers, s \in Sockets : i # h /\ Connects(i, s) => s \notin S
    <3>1. w.kind = "idle" => w.targets = {}
      BY DEF Fits, HandlersFit, HandlerFits
    <3>2. w.kind \in Kinds
      BY <1>1 DEF Handling
    <3>3. ASSUME NEW i \in AllHandlers, NEW s \in Sockets, i # h, Connects(i, s), s \in S
          PROVE  FALSE
      <4>1. w.kind \notin {"nudge", "alarm", "idle"}
        BY <1>3, <3>1, <3>3 DEF Open
      <4>2. w.kind \in {"connect", "ack"} /\ s \in w.targets
        BY <3>2, <3>3, <4>1 DEF Kinds
      <4> QED
        BY <1>3, <3>3, <4>2 DEF UpgradesAreApart, Connects, Acks
    <3> QED
      BY <3>3
  <2> HIDE DEF S
  <2>3. \A s \in Sockets : sockets'[s] = IF s \in S THEN Closed ELSE sockets[s]
    BY <2>1 DEF CloseAll
  <2> QED
    BY <1>6, <2>1, <2>2, <2>3, FixedAttachments, ApartKept
<1>13. ASSUME NEW kept \in SUBSET Open, Restart(kept)
       PROVE  UpgradesAreApart'
  <2>1. \A h \in AllHandlers : handlers'[h].kind \notin {"connect", "ack"}
    <3>1. \A h \in AllHandlers : handlers[h].step = "settle" => handlers[h].kind = "nudge"
      BY DEF Fits, HandlersFit, HandlerFits
    <3> QED
      BY <1>2, <1>13, <3>1 DEF Restart
  <2> QED
    BY <2>1 DEF UpgradesAreApart, Connects, Acks
<1>14. ASSUME NEW h \in Handlers, Deliver(h)
       PROVE  UpgradesAreApart'
  <2> DEFINE w == Handler("nudge", "compare", {}, generation)
  <2>1. UNCHANGED sockets /\ handlers' = [handlers EXCEPT ![h] = w]
    BY <1>14 DEF Deliver, Start, roomVars
  <2>2. w.kind = "nudge"
    BY DEF Handler
  <2> HIDE DEF w
  <2> QED
    BY <1>4, <1>5, <2>1, <2>2, ApartKept
<1>15. ASSUME NEW h \in AllHandlers, ReadAuthority(h)
       PROVE  UpgradesAreApart'
  <2>1. UNCHANGED sockets
    BY <1>15 DEF ReadAuthority, roomVars
  <2>2. PICK v \in Handling :
            /\ handlers' = [handlers EXCEPT ![h] = v]
            /\ v.kind = handlers[h].kind /\ v.targets \subseteq handlers[h].targets
    BY <1>15, AuthorityRead
  <2>3. \A i \in AllHandlers : handlers'[i] = IF i = h THEN v ELSE handlers[i]
    BY <1>1, <2>2
  <2> QED
    BY <2>1, <2>2, <2>3, ApartKept DEF Connects, Acks
<1>16. ASSUME NEW h \in AllHandlers, CompareGeneration(h)
       PROVE  UpgradesAreApart'
  <2>1. UNCHANGED sockets
    BY <1>16 DEF CompareGeneration, roomVars
  <2>2. PICK step, targets, mark :
            handlers' = [handlers EXCEPT ![h] = Handler("nudge", step, targets, mark)]
    BY <1>16 DEF CompareGeneration, Progress
  <2>3. Handler("nudge", step, targets, mark).kind = "nudge"
    BY DEF Handler
  <2> QED
    BY <1>5, <2>1, <2>2, <2>3, ApartKept
\* What fan-out leaves open was open.
<1>17. ASSUME NEW h \in AllHandlers, Fanout(handlers[h])
       PROVE  \A s \in Sockets : \/ sockets'[s].state = sockets[s].state
                                 \/ sockets[s].state = "open" /\ sockets'[s].state = "closed"
  <2>1. handlers[h] \in Handling /\ handlers[h].seen <= head
    BY <1>1 DEF Fits, HandlersFit, HandlerFits
  <2>2. ASSUME NEW s \in Sockets
        PROVE  Treated(s, handlers[h]).state \in {sockets[s].state, "closed"}
    <3>1. /\ sockets[s] \in Attachments /\ sockets[s].announced <= head /\ sockets[s].told <= generation
      BY <1>1 DEF Fits, SocketsFit
    <3> QED
      BY <2>1, <3>1, TreatedFacts, RefreshedFacts, AcknowledgedFacts, FixedAttachments
  <2>3. ASSUME NEW s \in Sockets
        PROVE  \/ sockets'[s].state = sockets[s].state
               \/ sockets[s].state = "open" /\ sockets'[s].state = "closed"
    <3>1. CASE s \in handlers[h].targets \cap Open
      <4>1. sockets'[s] = Treated(s, handlers[h])
        BY <1>17, <3>1 DEF Fanout
      <4> QED
        BY <2>2, <3>1, <4>1 DEF Open
    <3>2. CASE s \notin handlers[h].targets \cap Open
      <4>1. sockets'[s] = sockets[s]
        BY <1>17, <3>2 DEF Fanout
      <4> QED
        BY <4>1
    <3> QED
      BY <3>1, <3>2
  <2> QED
    BY <2>3
<1>18. ASSUME NEW h \in AllHandlers, Refresh(h) \/ CompleteAck(h) \/ (Revalidate /\ h = Alarm)
       PROVE  UpgradesAreApart'
  <2>1. Fanout(handlers[h])
    BY <1>18 DEF Refresh, CompleteAck, Revalidate
  <2>2. \/ Finish(h)
        \/ handlers' = [handlers EXCEPT ![h] = Handler("nudge", "settle", {}, handlers[h].mark)]
    BY <1>18 DEF Refresh, CompleteAck, Revalidate, Progress
  <2>3. Handler("nudge", "settle", {}, handlers[h].mark).kind = "nudge"
    BY DEF Handler
  <2>4. \A s \in Sockets, i \in AllHandlers :
           /\ Connects(i, s)' => i # h /\ Connects(i, s)
           /\ Acks(i, s)' => Acks(i, s)
    BY <1>5, <1>6, <2>2, <2>3
  <2>5. \A s \in Sockets : \/ sockets'[s].state = sockets[s].state
                           \/ sockets[s].state = "open" /\ sockets'[s].state = "closed"
    BY <1>17, <2>1
  <2> QED
    BY <1>3, <2>4, <2>5, ApartKept
<1>19. ASSUME NEW h \in AllHandlers, Settle(h)
       PROVE  UpgradesAreApart'
  <2>1. UNCHANGED sockets /\ Finish(h)
    BY <1>19 DEF Settle, roomVars
  <2> QED
    BY <1>6, <2>1, ApartKept
<1>20. ASSUME NEW h \in AllHandlers, Accept(h)
       PROVE  UpgradesAreApart'
  <2> DEFINE w == handlers[h]
  <2>1. Finish(h) /\ w.kind = "connect"
    BY <1>20 DEF Accept
  <2>2. ASSUME NEW s \in Sockets
        PROVE  IF s \in w.targets THEN sockets'[s].state \in {"open", "closed"}
               ELSE sockets'[s] = sockets[s]
    <3> DEFINE a == [sockets[s] EXCEPT !.state = "open", !.acknowledged = w.mark]
    <3>1. sockets'[s] = IF s \notin w.targets THEN sockets[s]
                        ELSE IF Admitted(w) THEN Sent(a, w.seen) ELSE Closed
      BY <1>20 DEF Accept
    <3>2. Sent(a, w.seen).state = "open"
      BY <1>1 DEF Sent, Attachments, Fields
    <3> QED
      BY <3>1, <3>2, FixedAttachments
  <2>3. \A s \in Sockets, i \in AllHandlers : Connects(i, s)' => Connects(i, s) /\ s \notin w.targets
    BY <1>6, <2>1 DEF UpgradesAreApart, Connects
  <2>4. \A s \in Sockets, i \in AllHandlers : Acks(i, s)' => Acks(i, s)
    BY <1>6, <2>1
  <2> QED
    BY <2>2, <2>3, <2>4, ApartKept
<1>21. CASE FireAlarm
  <2>1. UNCHANGED sockets
    BY <1>21 DEF FireAlarm
  <2>2. \/ UNCHANGED handlers
        \/ handlers' = [handlers EXCEPT ![Alarm] = Handler("alarm", "read", Open, 0)]
    BY <1>21 DEF FireAlarm, Start
  <2>3. Handler("alarm", "read", Open, 0).kind = "alarm" /\ Alarm \in AllHandlers
    BY <1>4 DEF Handler
  <2>4. \A s \in Sockets, i \in AllHandlers :
           (Connects(i, s)' => Connects(i, s)) /\ (Acks(i, s)' => Acks(i, s))
    BY <1>5, <2>2, <2>3 DEF Connects, Acks
  <2> QED
    BY <2>1, <2>4, ApartKept
<1>22. ASSUME NEW s \in Sockets, Leave(s)
       PROVE  UpgradesAreApart'
  BY <1>9, <1>22 DEF Leave
<1>23. CASE Environment
  BY <1>7, <1>8, <1>10, <1>11, <1>12, <1>13, <1>22, <1>23 DEF Environment, Changes
<1>24. ASSUME NEW h \in AllHandlers, Continue(h)
       PROVE  UpgradesAreApart'
  BY <1>15, <1>16, <1>18, <1>19, <1>20, <1>24 DEF Continue
<1> QED
  BY <1>4, <1>7, <1>14, <1>18, <1>21, <1>23, <1>24 DEF Next

-----------------------------------------------------------------------------
(* What most steps leave alone *)

Same(s) ==
    /\ s \in Open
    /\ sockets'[s].announced = sockets[s].announced /\ sockets'[s].pending = sockets[s].pending
    /\ sockets'[s].dirty = sockets[s].dirty /\ sockets'[s].told = sockets[s].told

(* A handler stays, ends, begins, or goes on with what it has read. *)
Goes(h) ==
    LET v == handlers[h]
        w == handlers'[h]
    IN
    \/ w = v
    \/ w.kind \in {"idle", "alarm", "connect"}
    \/ w.kind = "nudge" /\ (w.step \in {"compare", "settle"} \/ Open' \subseteq w.targets)
    \/ /\ w.kind = "ack" /\ w.step = "read"
       /\ \A s \in w.targets \cap Open' : sockets'[s].pending /\ sockets'[s].announced = w.mark
    \/ /\ w.kind = v.kind /\ w.mark = v.mark /\ v.step = "read" /\ w.step = "fanout"
       /\ v.targets \cap Open \subseteq w.targets /\ w.targets \subseteq v.targets
       /\ w.seen \in {head, Hidden}

Calm ==
    /\ head' = head /\ generation' = generation /\ remembered' = remembered
    /\ \A s \in Open' : Same(s)
    /\ \A h \in AllHandlers : Goes(h)

\* A calm step tells nobody and forgets nothing.
LEMMA CalmKeepsTold ==
    ASSUME Fits, RememberedIsTold, Calm
    PROVE  RememberedIsTold'
<1>1. /\ \A s \in Open' : s \in Open /\ (Told(s) => Told(s)')
      /\ remembered' = remembered /\ generation' = generation
  BY DEF Calm, Same, Told
<1>2. ASSUME NEW h \in AllHandlers, Announces(h)', NEW s \in Open', s \notin handlers'[h].targets
      PROVE  Told(s)'
  <2>1. Goes(h)
    BY DEF Calm
  <2>2. Announces(h) /\ s \notin handlers[h].targets
    BY <1>1, <1>2, <2>1 DEF Announces, Goes
  <2> QED
    BY <1>1, <1>2, <2>2 DEF RememberedIsTold
<1> QED
  BY <1>1, <1>2 DEF RememberedIsTold

LEMMA CalmKeepsLevel ==
    ASSUME Fits, AckInv, Calm
    PROVE  AckInv'
<1>1. /\ \A s \in Open' : s \in Open /\ (Level(s) => Level(s)')
      /\ remembered' = remembered /\ generation' = generation /\ head' = head
  BY DEF Calm, Same, Level
<1>2. RememberedIsLevel'
  <2>1. ASSUME NEW h \in AllHandlers, Announces(h)', NEW s \in Open', s \notin handlers'[h].targets
        PROVE  Level(s)'
    <3>1. Goes(h)
      BY DEF Calm
    <3>2. Announces(h) /\ s \notin handlers[h].targets
      BY <1>1, <2>1, <3>1 DEF Announces, Goes
    <3> QED
      BY <1>1, <2>1, <3>2 DEF AckInv, RememberedIsLevel
  <2> QED
    BY <1>1, <2>1 DEF AckInv, RememberedIsLevel
<1>3. ASSUME NEW h \in AllHandlers, NEW s \in Open', Acks(h, s)'
      PROVE  /\ sockets'[s].pending /\ sockets'[s].announced = handlers'[h].mark
             /\ handlers'[h].step = "fanout" /\ ~sockets'[s].dirty /\ sockets'[s].told = generation'
                => handlers'[h].seen \in {head', Hidden}
  <2>1. Goes(h) /\ Same(s)
    BY <1>3 DEF Calm
  <2>2. CASE handlers'[h] = handlers[h]
    <3>1. Acks(h, s) /\ s \in Open
      BY <1>3, <2>1, <2>2 DEF Acks, Same
    <3> QED
      BY <1>1, <2>1, <2>2, <3>1 DEF AckInv, AcksAreDue, Same
  <2>3. CASE /\ handlers'[h].step = "read"
             /\ \A t \in handlers'[h].targets \cap Open' :
                    sockets'[t].pending /\ sockets'[t].announced = handlers'[h].mark
    BY <1>3, <2>3 DEF Acks
  <2>4. CASE /\ handlers'[h].kind = handlers[h].kind /\ handlers'[h].mark = handlers[h].mark
             /\ handlers'[h].targets \subseteq handlers[h].targets
             /\ handlers'[h].seen \in {head, Hidden}
    <3>1. Acks(h, s) /\ s \in Open
      BY <1>3, <2>1, <2>4 DEF Acks, Same
    <3> QED
      BY <1>1, <2>1, <2>4, <3>1 DEF AckInv, AcksAreDue, Same
  <2> QED
    BY <1>3, <2>1, <2>2, <2>3, <2>4 DEF Goes, Acks
<1>4. AcksAreDue'
  BY <1>3 DEF AcksAreDue
<1> QED
  BY <1>2, <1>4 DEF AckInv

LEMMA CalmSteps ==
    ASSUME Fits, Next \/ UNCHANGED vars
    PROVE  \/ Calm
           \/ Changes
           \/ \E h \in AllHandlers : Refresh(h) \/ CompleteAck(h) \/ Accept(h)
<1>1. sockets \in [Sockets -> Attachments] /\ handlers \in [AllHandlers -> Handling]
  BY DEF Fits, Types
<1>2. Idle.kind = "idle"
  BY DEF Idle
<1>3. AllHandlers = Handlers \cup {Alarm}
  BY DEF AllHandlers
<1>4. ASSUME UNCHANGED sockets
      PROVE  \A s \in Open' : Same(s)
  BY <1>4 DEF Same, Open
<1>5. ASSUME UNCHANGED handlers
      PROVE  \A h \in AllHandlers : Goes(h)
  BY <1>5 DEF Goes
<1>6. ASSUME NEW h \in AllHandlers, NEW w, handlers' = [handlers EXCEPT ![h] = w], w = handlers'[h] => Goes(h)
      PROVE  \A i \in AllHandlers : Goes(i)
  BY <1>6, OthersStand DEF Goes
<1>7. ASSUME NEW h \in AllHandlers, Finish(h)
      PROVE  \A i \in AllHandlers : Goes(i)
  BY <1>2, <1>6, <1>7 DEF Finish, Goes
<1>8. ASSUME NEW S, CloseAll(S)
      PROVE  \A s \in Open' : Same(s)
  BY <1>8, FixedAttachments DEF CloseAll, Same, Open
<1>9. ASSUME NEW s \in Sockets, Revoke(s) \/ Lapse(s)
      PROVE  Calm
  <2>1. UNCHANGED <<head, generation, remembered, handlers>>
    BY <1>9 DEF Revoke, Lapse, problemVars
  <2>2. \A t \in Sockets :
           /\ sockets'[t].state = sockets[t].state /\ sockets'[t].announced = sockets[t].announced
           /\ sockets'[t].pending = sockets[t].pending /\ sockets'[t].dirty = sockets[t].dirty
           /\ sockets'[t].told = sockets[t].told
    BY <1>1, <1>9 DEF Revoke, Lapse, Attachments, Fields
  <2> QED
    BY <1>5, <2>1, <2>2 DEF Calm, Same, Open
<1>10. ASSUME NEW s \in Sockets, NEW a \in {Closed, Connecting}, sockets' = [sockets EXCEPT ![s] = a]
       PROVE  \A t \in Open' : Same(t)
  <2>1. \A t \in Sockets : sockets'[t] = IF t = s THEN a ELSE sockets[t]
    BY <1>1, <1>10
  <2>2. a.state # "open"
    BY FixedAttachments
  <2> QED
    BY <2>1, <2>2 DEF Same, Open
<1>11. ASSUME NEW s \in Sockets, Leave(s)
       PROVE  Calm
  BY <1>5, <1>10, <1>11 DEF Leave, problemVars, Calm
<1>12. ASSUME NEW h \in Handlers, NEW s \in Sockets, BeginAck(h, s)
       PROVE  Calm
  <2>1. UNCHANGED <<head, generation, remembered>>
    BY <1>12 DEF BeginAck, problemVars
  <2>2. CASE sockets[s].overdue
    BY <1>5, <1>10, <1>12, <2>1, <2>2 DEF BeginAck, Calm
  <2>3. CASE ~sockets[s].overdue
    <3> DEFINE w == Handler("ack", "read", {s}, sockets[s].announced)
    <3>1. UNCHANGED sockets /\ handlers' = [handlers EXCEPT ![h] = w] /\ sockets[s].pending
      BY <1>12, <2>3 DEF BeginAck, Start
    <3>2. w.kind = "ack" /\ w.step = "read" /\ w.targets = {s} /\ w.mark = sockets[s].announced
      BY DEF Handler
    <3> HIDE DEF w
    <3>3. w = handlers'[h] => Goes(h)
      BY <3>1, <3>2 DEF Goes
    <3> QED
      BY <1>3, <1>4, <1>6, <2>1, <3>1, <3>3 DEF Calm
  <2> QED
    BY <2>2, <2>3
<1>13. ASSUME NEW h \in Handlers, NEW s \in Sockets, NEW since \in 0..MaxGeneration,
              Connect(h, s, since)
       PROVE  Calm
  <2> DEFINE w == Handler("connect", "read", {s}, since)
  <2>1. /\ UNCHANGED <<head, generation, remembered>>
        /\ sockets' = [sockets EXCEPT ![s] = Connecting] /\ handlers' = [handlers EXCEPT ![h] = w]
    BY <1>13 DEF Connect, Start, problemVars
  <2>2. w.kind = "connect"
    BY DEF Handler
  <2> HIDE DEF w
  <2>3. w = handlers'[h] => Goes(h)
    BY <2>2 DEF Goes
  <2> QED
    BY <1>3, <1>6, <1>10, <2>1, <2>3 DEF Calm
<1>14. ASSUME NEW h \in AllHandlers, Fail(h)
       PROVE  Calm
  <2>1. UNCHANGED <<head, generation, remembered>> /\ Finish(h) /\ \E S : CloseAll(S)
    BY <1>14 DEF Fail, problemVars
  <2> QED
    BY <1>7, <1>8, <2>1 DEF Calm
<1>15. ASSUME NEW kept \in SUBSET Open, Restart(kept)
       PROVE  Calm
  <2>1. UNCHANGED <<head, generation, remembered>> /\ \E S : CloseAll(S)
    BY <1>15 DEF Restart, problemVars
  <2>2. \A h \in AllHandlers : handlers'[h] \in {handlers[h], Idle}
    BY <1>15 DEF Restart
  <2> QED
    BY <1>2, <1>8, <2>1, <2>2 DEF Calm, Goes
<1>16. ASSUME NEW h \in Handlers, Deliver(h)
       PROVE  Calm
  <2> DEFINE w == Handler("nudge", "compare", {}, generation)
  <2>1. UNCHANGED <<head, generation, remembered, sockets>> /\ handlers' = [handlers EXCEPT ![h] = w]
    BY <1>16 DEF Deliver, Start, problemVars, roomVars
  <2>2. w.kind = "nudge" /\ w.step = "compare"
    BY DEF Handler
  <2> HIDE DEF w
  <2>3. w = handlers'[h] => Goes(h)
    BY <2>2 DEF Goes
  <2> QED
    BY <1>3, <1>4, <1>6, <2>1, <2>3 DEF Calm
<1>17. ASSUME NEW h \in AllHandlers, ReadAuthority(h)
       PROVE  Calm
  <2>1. UNCHANGED <<head, generation, remembered, sockets>> /\ handlers[h].step = "read"
    BY <1>17 DEF ReadAuthority, problemVars, roomVars
  <2>2. PICK v \in Handling :
            /\ handlers' = [handlers EXCEPT ![h] = v]
            /\ v.kind = handlers[h].kind /\ v.mark = handlers[h].mark /\ v.step = "fanout"
            /\ v.targets \subseteq handlers[h].targets
            /\ handlers[h].targets \cap Open \subseteq v.targets
            /\ v.seen \in {head, Hidden}
    BY <1>17, AuthorityRead
  <2>3. v = handlers'[h] => Goes(h)
    BY <2>1, <2>2 DEF Goes
  <2> QED
    BY <1>4, <1>6, <2>1, <2>2, <2>3 DEF Calm
<1>18. ASSUME NEW h \in AllHandlers, CompareGeneration(h)
       PROVE  Calm
  <2>1. UNCHANGED <<head, generation, remembered, sockets>>
    BY <1>18 DEF CompareGeneration, problemVars, roomVars
  <2>2. PICK step, targets, mark :
            /\ handlers' = [handlers EXCEPT ![h] = Handler("nudge", step, targets, mark)]
            /\ step = "settle" \/ targets = Open
    BY <1>18 DEF CompareGeneration, Progress
  <2> DEFINE w == Handler("nudge", step, targets, mark)
  <2>3. w.kind = "nudge" /\ w.step = step /\ w.targets = targets
    BY DEF Handler
  <2>4. Open' = Open
    BY <2>1 DEF Open
  <2> HIDE DEF w
  <2>5. w = handlers'[h] => Goes(h)
    BY <2>2, <2>3, <2>4 DEF Goes
  <2>6. handlers' = [handlers EXCEPT ![h] = w]
    BY <2>2 DEF w
  <2> QED
    BY <1>4, <1>6, <2>1, <2>5, <2>6 DEF Calm
<1>19. ASSUME NEW h \in AllHandlers, Settle(h)
       PROVE  Calm
  BY <1>4, <1>7, <1>19 DEF Settle, roomVars, Calm
\* The alarm's sweep sends nothing.
<1>20. CASE Revalidate
  <2>1. /\ UNCHANGED <<head, generation, remembered>> /\ Finish(Alarm) /\ Alarm \in AllHandlers
        /\ Fanout(handlers[Alarm])
    BY <1>3, <1>20 DEF Revalidate, problemVars
  <2>2. /\ handlers[Alarm] \in Handling /\ handlers[Alarm].seen <= head
        /\ handlers[Alarm].kind \in {"idle", "alarm"}
    BY <1>1, <2>1 DEF Fits, HandlersFit, HandlerFits
  <2>3. \A s \in Sockets : Treated(s, handlers[Alarm]) \in {sockets[s], Closed}
    BY <2>2, TreatedFacts
  <2>4. \A s \in Sockets : sockets'[s] \in {sockets[s], Closed}
    BY <2>1, <2>3, FanoutFacts
  <2>5. \A s \in Open' : Same(s)
    BY <2>4, FixedAttachments DEF Same, Open
  <2> QED
    BY <1>7, <2>1, <2>5 DEF Calm
<1>21. CASE FireAlarm
  <2>1. UNCHANGED <<head, generation, remembered, sockets>>
    BY <1>21 DEF FireAlarm, problemVars
  <2> DEFINE w == Handler("alarm", "read", Open, 0)
  <2>2. UNCHANGED handlers \/ handlers' = [handlers EXCEPT ![Alarm] = w]
    BY <1>21 DEF FireAlarm, Start
  <2>3. w.kind = "alarm" /\ Alarm \in AllHandlers
    BY <1>3 DEF Handler
  <2> HIDE DEF w
  <2>4. w = handlers'[Alarm] => Goes(Alarm)
    BY <2>3 DEF Goes
  <2>5. \A h \in AllHandlers : Goes(h)
    BY <1>5, <1>6, <2>2, <2>3, <2>4
  <2> QED
    BY <1>4, <2>1, <2>5 DEF Calm
<1>22. CASE UNCHANGED vars
  BY <1>4, <1>5, <1>22 DEF vars, problemVars, roomVars, Calm
<1>23. CASE Environment
  BY <1>9, <1>11, <1>12, <1>13, <1>14, <1>15, <1>23 DEF Environment, Changes
<1>24. ASSUME NEW h \in AllHandlers, Continue(h)
       PROVE  Calm \/ Refresh(h) \/ CompleteAck(h) \/ Accept(h)
  BY <1>17, <1>18, <1>19, <1>24 DEF Continue
<1> QED
  BY <1>16, <1>20, <1>21, <1>22, <1>23, <1>24 DEF Next

-----------------------------------------------------------------------------
(* What the other steps do to the open sockets *)

\* The three things fan-out does to a socket that stays open.
LEMMA FannedOut ==
    ASSUME Fits, NEW h \in AllHandlers, Fanout(handlers[h]), generation' = generation,
           NEW s \in Open'
    PROVE  LET w == handlers[h] IN
           /\ s \in Open
           /\ \/ sockets'[s] = sockets[s] /\ ~(w.kind = "nudge" /\ s \in w.targets)
              \/ /\ w.kind = "nudge" /\ sockets'[s].pending /\ Told(s)'
                 /\ sockets[s].pending => /\ sockets'[s].announced = sockets[s].announced
                                          /\ sockets'[s].dirty
              \/ /\ w.kind = "ack" /\ s \in w.targets
                 /\ w.mark = sockets[s].announced /\ w.seen >= sockets[s].announced
                 /\ Told(s) => Told(s)'
                 /\ \/ sockets'[s].pending
                    \/ ~sockets[s].dirty /\ sockets'[s].announced = w.seen
<1> DEFINE w == handlers[h]
           a == sockets[s]
<1>1. s \in Sockets /\ sockets'[s].state = "open" /\ w \in Handling /\ w.seen <= head
  BY DEF Open, Fits, Types, HandlersFit, HandlerFits
<1>2. a \in Attachments /\ a.announced <= head /\ a.told <= generation
  BY <1>1 DEF Fits, Types, SocketsFit
<1>3. CASE s \notin w.targets \cap Open
  <2>1. sockets'[s] = a
    BY <1>1, <1>3 DEF Fanout
  <2> QED
    BY <1>1, <1>3, <2>1 DEF Open
<1>4. CASE s \in w.targets \cap Open
  <2>1. sockets'[s] = Treated(s, w)
    BY <1>1, <1>4 DEF Fanout
  <2>2. sockets'[s] # Closed
    BY <1>1, FixedAttachments
  <2>3. CASE sockets'[s] = a /\ w.kind # "nudge"
    BY <1>4, <2>3
  <2>4. CASE sockets'[s] = Refreshed(a, w) /\ w.kind = "nudge" /\ w.seen >= 0
    BY <1>1, <1>2, <1>4, <2>4, RefreshedFacts DEF Told
  <2>5. CASE /\ sockets'[s] = Acknowledged(a, w) /\ w.kind = "ack" /\ a.pending
             /\ w.mark = a.announced /\ w.seen >= a.announced
    BY <1>1, <1>2, <1>4, <2>5, AcknowledgedFacts DEF Told
  <2> QED
    BY <1>1, <2>1, <2>2, <2>3, <2>4, <2>5, TreatedFacts
<1> QED
  BY <1>3, <1>4

\* An upgrade lets its socket in with a frame, and touches no other.
LEMMA Accepted ==
    ASSUME Fits, NEW h \in AllHandlers, Accept(h), NEW s \in Open'
    PROVE  \/ /\ Connects(h, s) /\ sockets'[s].pending
              /\ sockets'[s].told = generation
           \/ s \in Open /\ sockets'[s] = sockets[s]
<1> DEFINE w == handlers[h]
           a == [sockets[s] EXCEPT !.state = "open", !.acknowledged = w.mark]
<1>1. s \in Sockets /\ sockets'[s].state = "open"
  BY DEF Open
<1>2. sockets[s] \in Fields
  BY <1>1 DEF Fits, Types, Attachments
<1>3. sockets'[s] = IF s \notin w.targets THEN sockets[s]
                    ELSE IF Admitted(w) THEN Sent(a, w.seen) ELSE Closed
  BY <1>1 DEF Accept
<1>4. Sent(a, w.seen).pending /\ Sent(a, w.seen).told = generation
  BY <1>2 DEF Sent, Fields
<1>5. w.kind = "connect" /\ Closed.state = "closed"
  BY FixedAttachments DEF Accept
<1> HIDE DEF a
<1> QED
  BY <1>1, <1>3, <1>4, <1>5 DEF Connects, Open

\* A change of the problem outdates every nudge and every frame.
LEMMA Outdated ==
    ASSUME Fits, Changes
    PROVE  /\ UNCHANGED <<sockets, handlers, remembered>> /\ Open' = Open
           /\ generation' # remembered' /\ \A h \in AllHandlers : ~Announces(h)'
           /\ \A s \in Sockets : sockets'[s].told # generation'
<1>1. /\ UNCHANGED <<sockets, handlers, remembered>> /\ generation' = generation + 1
      /\ generation \in Nat /\ remembered \in Nat /\ remembered <= generation
  BY DEF Changes, Publish, ChangeStatus, Redact, Raise, roomVars, Fits, Types, MarksAgree
<1>2. ASSUME NEW h \in AllHandlers
      PROVE  ~Announces(h)'
  <2>1. handlers[h].mark \in Nat /\ (handlers[h].kind = "nudge" => handlers[h].mark <= generation)
    BY DEF Fits, Types, Handling, HandlersFit, HandlerFits
  <2> QED
    BY <1>1, <2>1 DEF Announces
<1>3. ASSUME NEW s \in Sockets
      PROVE  sockets'[s].told # generation'
  <2>1. sockets[s].told \in Nat /\ sockets[s].told <= generation
    BY DEF Fits, Types, SocketsFit, Attachments, Fields
  <2> QED
    BY <1>1, <2>1
<1> QED
  BY <1>1, <1>2, <1>3 DEF Open

\* A nudge that ends, or waits to be settled, announces nothing.
LEMMA RefreshEnds ==
    ASSUME Fits, NEW h \in AllHandlers, Refresh(h)
    PROVE  /\ ~Announces(h)' /\ \A s \in Sockets : ~Acks(h, s)'
           /\ \A i \in AllHandlers : i # h => handlers'[i] = handlers[i]
           /\ generation' = generation /\ head' = head
           /\ remembered' = generation' => remembered = generation \/ Announces(h)
<1>1. Idle.kind = "idle" /\ Idle.step = "none"
  BY DEF Idle
<1> DEFINE w == Handler("nudge", "settle", {}, handlers[h].mark)
<1>2. w.kind = "nudge" /\ w.step = "settle"
  BY DEF Handler
<1>3. \E v \in {Idle, w} : handlers' = [handlers EXCEPT ![h] = v]
  BY DEF Refresh, Progress, Finish
<1> HIDE DEF w
<1>4. /\ handlers'[h].kind # "ack" /\ handlers'[h].step \notin {"read", "fanout"}
      /\ \A i \in AllHandlers : i # h => handlers'[i] = handlers[i]
  BY <1>1, <1>2, <1>3, OthersStand
<1>5. /\ generation' = generation /\ head' = head
      /\ remembered' \in {remembered, Larger(remembered, handlers[h].mark)}
      /\ handlers[h].kind = "nudge" /\ handlers[h].step = "fanout"
  BY DEF Refresh, problemVars
<1> QED
  BY <1>4, <1>5 DEF Announces, Acks, Larger

\* A handler that is done announces and acknowledges nothing.
LEMMA DoneIsSilent ==
    ASSUME Fits, NEW h \in AllHandlers, Finish(h)
    PROVE  /\ ~Announces(h)' /\ \A s \in Sockets : ~Acks(h, s)'
           /\ \A i \in AllHandlers : i # h => handlers'[i] = handlers[i]
<1>1. Idle.kind = "idle"
  BY DEF Idle
<1> QED
  BY <1>1, OthersStand DEF Finish, Announces, Acks

-----------------------------------------------------------------------------
(* Every change reaches every socket *)

LEMMA StepTells ==
    ASSUME RoomInv, [Next]_vars
    PROVE  RememberedIsTold'
<1>1. Fits /\ UpgradesAreApart /\ RememberedIsTold
  BY DEF RoomInv
<1>2. CASE Calm
  BY <1>1, <1>2, CalmKeepsTold
<1>3. CASE Changes
  BY <1>1, <1>3, Outdated DEF RememberedIsTold
<1>4. ASSUME NEW h \in AllHandlers, Refresh(h)
      PROVE  RememberedIsTold'
  <2>1. Fanout(handlers[h]) /\ handlers[h].kind = "nudge" /\ generation' = generation
    BY <1>4 DEF Refresh, problemVars
  <2>2. ASSUME NEW s \in Open'
        PROVE  s \in Open /\ (Told(s) \/ s \in handlers[h].targets => Told(s)')
    BY <1>1, <2>1, <2>2, FannedOut DEF Told
  <2>3. remembered' = generation' => \A s \in Open' : Told(s)'
    BY <1>1, <1>4, <2>2, RefreshEnds DEF RememberedIsTold
  <2>4. ASSUME NEW i \in AllHandlers, Announces(i)', NEW s \in Open', s \notin handlers'[i].targets
        PROVE  Told(s)'
    <3>1. i # h /\ handlers'[i] = handlers[i] /\ Announces(i)
      BY <1>1, <1>4, <2>1, <2>4, RefreshEnds DEF Announces
    <3> QED
      BY <1>1, <2>2, <2>4, <3>1 DEF RememberedIsTold
  <2> QED
    BY <2>3, <2>4 DEF RememberedIsTold
<1>5. ASSUME NEW h \in AllHandlers, CompleteAck(h) \/ Accept(h)
      PROVE  RememberedIsTold'
  <2>1. Finish(h) /\ generation' = generation /\ remembered' = remembered
    BY <1>5 DEF CompleteAck, Accept, problemVars
  <2>2. ASSUME NEW s \in Open'
        PROVE  Told(s)' \/ (s \in Open /\ (Told(s) => Told(s)'))
    <3>1. CASE CompleteAck(h)
      <4>1. Fanout(handlers[h])
        BY <3>1 DEF CompleteAck
      <4> QED
        BY <1>1, <2>1, <2>2, <4>1, FannedOut DEF Told
    <3>2. CASE Accept(h)
      BY <1>1, <2>1, <2>2, <3>2, Accepted DEF Told
    <3> QED
      BY <1>5, <3>1, <3>2
  <2>3. ASSUME NEW i \in AllHandlers, Announces(i)', NEW s \in Open', s \notin handlers'[i].targets
        PROVE  Told(s)'
    <3>1. handlers'[i] = handlers[i] /\ Announces(i)
      BY <1>1, <2>1, <2>3, DoneIsSilent DEF Announces
    <3> QED
      BY <1>1, <2>2, <2>3, <3>1 DEF RememberedIsTold
  <2> QED
    BY <1>1, <2>1, <2>2, <2>3 DEF RememberedIsTold
<1> QED
  BY <1>1, <1>2, <1>3, <1>4, <1>5, CalmSteps

LEMMA StepKeepsRoom ==
    ASSUME RoomInv, [Next]_vars
    PROVE  RoomInv'
BY StepKeepsFit, StepKeepsApart, StepTells DEF RoomInv

-----------------------------------------------------------------------------
(* Nobody is left behind by one acknowledgement at a time *)

LEMMA StepLevels ==
    ASSUME RoomInv, AckInv, OneAckAtATime, [Next]_vars
    PROVE  AckInv'
<1>1. Fits /\ UpgradesAreApart /\ RememberedIsTold /\ AcksAreDue /\ RememberedIsLevel
  BY DEF RoomInv, AckInv
<1>2. CASE Calm
  BY <1>1, <1>2, CalmKeepsLevel
<1>3. CASE Changes
  <2>1. RememberedIsLevel'
    BY <1>1, <1>3, Outdated DEF RememberedIsLevel
  <2>2. AcksAreDue'
    <3> SUFFICES ASSUME NEW h \in AllHandlers, NEW s \in Open', Acks(h, s)'
                 PROVE  /\ sockets'[s].pending /\ sockets'[s].announced = handlers'[h].mark
                        /\ sockets'[s].told # generation'
      BY DEF AcksAreDue
    <3>1. s \in Open /\ s \in Sockets /\ Acks(h, s)
      BY <1>1, <1>3, Outdated DEF Acks, Open
    <3> QED
      BY <1>1, <1>3, <3>1, Outdated DEF AcksAreDue
  <2> QED
    BY <2>1, <2>2 DEF AckInv
<1>4. ASSUME NEW h \in AllHandlers, Refresh(h)
      PROVE  AckInv'
  <2>1. Fanout(handlers[h]) /\ handlers[h].kind = "nudge" /\ generation' = generation /\ head' = head
    BY <1>4 DEF Refresh, problemVars
  <2>2. ASSUME NEW s \in Open'
        PROVE  s \in Open /\ (Level(s) \/ s \in handlers[h].targets => Level(s)')
    BY <1>1, <2>1, <2>2, FannedOut DEF Level
  <2>3. RememberedIsLevel'
    <3>1. remembered' = generation' => \A s \in Open' : Level(s)'
      BY <1>1, <1>4, <2>2, RefreshEnds DEF RememberedIsLevel
    <3>2. ASSUME NEW i \in AllHandlers, Announces(i)', NEW s \in Open', s \notin handlers'[i].targets
          PROVE  Level(s)'
      <4>1. i # h /\ handlers'[i] = handlers[i] /\ Announces(i)
        BY <1>1, <1>4, <2>1, <3>2, RefreshEnds DEF Announces
      <4> QED
        BY <1>1, <2>2, <3>2, <4>1 DEF RememberedIsLevel
    <3> QED
      BY <3>1, <3>2 DEF RememberedIsLevel
  <2>4. ASSUME NEW i \in AllHandlers, NEW s \in Open', Acks(i, s)'
        PROVE  /\ sockets'[s].pending /\ sockets'[s].announced = handlers'[i].mark
               /\ handlers'[i].step = "fanout" /\ ~sockets'[s].dirty /\ sockets'[s].told = generation'
                  => handlers'[i].seen \in {head', Hidden}
    <3>1. s \in Sockets
      BY DEF Open
    <3>2. handlers'[i] = handlers[i] /\ Acks(i, s)
      BY <1>1, <1>4, <2>4, <3>1, RefreshEnds DEF Acks
    <3>3. /\ sockets[s].pending /\ sockets[s].announced = handlers[i].mark
          /\ handlers[i].step = "fanout" /\ ~sockets[s].dirty /\ sockets[s].told = generation
             => handlers[i].seen \in {head, Hidden}
      BY <1>1, <2>2, <3>2 DEF AcksAreDue
    <3> QED
      BY <1>1, <2>1, <3>2, <3>3, FannedOut
  <2> QED
    BY <2>3, <2>4 DEF AckInv, AcksAreDue
<1>5. ASSUME NEW h \in AllHandlers, CompleteAck(h)
      PROVE  AckInv'
  <2>1. /\ Fanout(handlers[h]) /\ Finish(h) /\ handlers[h].kind = "ack" /\ handlers[h].step = "fanout"
        /\ generation' = generation /\ head' = head /\ remembered' = remembered
    BY <1>5 DEF CompleteAck, problemVars
  \* What has been told of the last change is brought to the head.
  <2>2. ASSUME NEW s \in Open', Told(s), Level(s)
        PROVE  Level(s)'
    <3>1. s \in Open
      BY <1>1, <2>1, FannedOut
    <3>2. CASE sockets'[s] = sockets[s]
      BY <2>1, <2>2, <3>2 DEF Level
    <3>3. CASE /\ s \in handlers[h].targets /\ handlers[h].seen >= sockets[s].announced
               /\ ~sockets[s].dirty /\ sockets'[s].announced = handlers[h].seen
      <4>1. sockets[s].announced \in Nat
        BY <3>1 DEF Fits, Types, Attachments, Fields, Open, RoomInv
      <4>2. sockets[s].told = generation /\ Acks(h, s)
        BY <2>1, <2>2, <3>3 DEF Told, Acks
      <4>3. handlers[h].seen \in {head, Hidden}
        BY <1>1, <2>1, <3>1, <3>3, <4>2 DEF AcksAreDue
      <4>4. handlers[h].seen # Hidden
        BY <3>3, <4>1 DEF Hidden
      <4> QED
        BY <2>1, <3>3, <4>3, <4>4 DEF Level
    <3>4. CASE sockets'[s].pending
      BY <3>4 DEF Level
    <3> QED
      BY <1>1, <2>1, <3>2, <3>3, <3>4, FannedOut
  <2>3. RememberedIsLevel'
    <3>1. \A s \in Open' : s \in Open
      BY <1>1, <2>1, FannedOut
    <3>2. ASSUME NEW i \in AllHandlers, Announces(i)', NEW s \in Open', s \notin handlers'[i].targets
          PROVE  Level(s)'
      <4>1. handlers'[i] = handlers[i] /\ Announces(i)
        BY <1>1, <2>1, <3>2, DoneIsSilent DEF Announces
      <4> QED
        BY <1>1, <2>2, <3>1, <3>2, <4>1 DEF RememberedIsTold, RememberedIsLevel
    <3> QED
      BY <1>1, <2>1, <2>2, <3>1, <3>2 DEF RememberedIsTold, RememberedIsLevel
  \* No other acknowledgement of the same frame is in progress.
  <2>4. ASSUME NEW i \in AllHandlers, NEW s \in Open', Acks(i, s)'
        PROVE  /\ sockets'[s].pending /\ sockets'[s].announced = handlers'[i].mark
               /\ handlers'[i].step = "fanout" /\ ~sockets'[s].dirty /\ sockets'[s].told = generation'
                  => handlers'[i].seen \in {head', Hidden}
    <3>1. s \in Sockets /\ s \in Open
      BY <1>1, <2>1, FannedOut DEF Open
    <3>2. i # h /\ handlers'[i] = handlers[i] /\ Acks(i, s)
      BY <1>1, <2>1, <2>4, <3>1, DoneIsSilent DEF Acks
    <3>3. /\ sockets[s].pending /\ sockets[s].announced = handlers[i].mark
          /\ handlers[i].step = "fanout" /\ ~sockets[s].dirty /\ sockets[s].told = generation
             => handlers[i].seen \in {head, Hidden}
      BY <1>1, <3>1, <3>2 DEF AcksAreDue
    <3>4. ~(s \in handlers[h].targets /\ handlers[h].mark = sockets[s].announced)
      <4>1. i \in Handlers /\ h \in Handlers
        BY <1>1, <2>1, <3>2 DEF Acks, Fits, HandlersFit, AllHandlers
      <4> QED
        BY <2>1, <3>2, <3>3, <4>1 DEF OneAckAtATime, Acks
    <3>5. sockets'[s] = sockets[s]
      BY <1>1, <2>1, <3>4, FannedOut
    <3> QED
      BY <2>1, <3>2, <3>3, <3>5
  <2> QED
    BY <2>3, <2>4 DEF AckInv, AcksAreDue
<1>6. ASSUME NEW h \in AllHandlers, Accept(h)
      PROVE  AckInv'
  <2>1. /\ Finish(h) /\ generation' = generation /\ head' = head /\ remembered' = remembered
    BY <1>6 DEF Accept, problemVars
  <2>2. ASSUME NEW s \in Open'
        PROVE  \/ Connects(h, s) /\ Level(s)'
               \/ s \in Open /\ sockets'[s] = sockets[s] /\ (Level(s) => Level(s)')
    BY <1>1, <1>6, <2>1, <2>2, Accepted DEF Level
  <2>3. RememberedIsLevel'
    <3>1. ASSUME NEW i \in AllHandlers, Announces(i)', NEW s \in Open', s \notin handlers'[i].targets
          PROVE  Level(s)'
      <4>1. handlers'[i] = handlers[i] /\ Announces(i)
        BY <1>1, <2>1, <3>1, DoneIsSilent DEF Announces
      <4> QED
        BY <1>1, <2>2, <3>1, <4>1 DEF RememberedIsLevel
    <3> QED
      BY <1>1, <2>1, <2>2, <3>1 DEF RememberedIsLevel
  <2>4. ASSUME NEW i \in AllHandlers, NEW s \in Open', Acks(i, s)'
        PROVE  /\ sockets'[s].pending /\ sockets'[s].announced = handlers'[i].mark
               /\ handlers'[i].step = "fanout" /\ ~sockets'[s].dirty /\ sockets'[s].told = generation'
                  => handlers'[i].seen \in {head', Hidden}
    <3>1. s \in Sockets
      BY DEF Open
    <3>2. handlers'[i] = handlers[i] /\ Acks(i, s)
      BY <1>1, <2>1, <2>4, <3>1, DoneIsSilent DEF Acks
    <3>3. ~Connects(h, s)
      BY <1>1, <3>1, <3>2 DEF UpgradesAreApart
    <3> QED
      BY <1>1, <2>1, <2>2, <3>2, <3>3 DEF AcksAreDue
  <2> QED
    BY <2>3, <2>4 DEF AckInv, AcksAreDue
<1> QED
  BY <1>1, <1>2, <1>3, <1>4, <1>5, <1>6, CalmSteps

-----------------------------------------------------------------------------
(* The theorems *)

LEMMA RoomInvariance == Spec => []RoomInv
<1>1. Init => RoomInv
  BY Initial
<1>2. RoomInv /\ [Next]_vars => RoomInv'
  BY StepKeepsRoom
<1> QED
  BY <1>1, <1>2, PTL DEF Spec

(* Type correctness, and the checks of roomAttachment: cursors in order and  *)
(* never ahead of the problem, marks never ahead of the generation.          *)
THEOREM RoomTypes == Spec => []TypeOK
<1>1. RoomInv => TypeOK
  <2> SUFFICES ASSUME RoomInv
               PROVE  TypeOK
    OBVIOUS
  <2>1. Types /\ SocketsFit /\ MarksAgree
    BY DEF RoomInv, Fits
  <2> DEFINE Row == [state : {"new", "connecting", "open", "closed"},
                     acknowledged : 0..head, announced : 0..head, pending : BOOLEAN,
                     dirty : BOOLEAN, revoked : BOOLEAN, overdue : BOOLEAN, told : 0..generation]
  <2>2. ASSUME NEW s \in Sockets
        PROVE  /\ sockets[s] \in Row
               /\ sockets[s].acknowledged <= sockets[s].announced
               /\ ~sockets[s].pending => sockets[s].acknowledged = sockets[s].announced
    <3>1. /\ sockets[s] \in Fields /\ sockets[s].announced <= head /\ sockets[s].told <= generation
          /\ sockets[s].acknowledged <= sockets[s].announced
          /\ ~sockets[s].pending => sockets[s].acknowledged = sockets[s].announced
      BY <2>1 DEF Types, SocketsFit, Attachments
    <3>2. head \in Nat /\ generation \in Nat
      BY <2>1 DEF Types
    <3> QED
      BY <3>1, <3>2 DEF Fields
  <2>3. sockets \in [Sockets -> Row]
    BY <2>1, <2>2 DEF Types
  <2>4. delivered \in 0..generation /\ remembered \in 0..generation
    BY <2>1 DEF Types, MarksAgree
  <2>5. handlers \in [AllHandlers ->
                        [kind : {"idle", "nudge", "connect", "ack", "alarm"},
                         step : {"none", "compare", "read", "fanout", "settle"},
                         targets : SUBSET Sockets, mark : Nat, trusted : SUBSET Sockets,
                         seen : Nat \cup {Hidden}]]
    BY <2>1 DEF Types, Handling, Kinds, Steps
  <2> QED
    BY <2>1, <2>2, <2>3, <2>4, <2>5 DEF Types, TypeOK
<1> QED
  BY <1>1, RoomInvariance, PTL

(* The wake-up row never counts as delivered while an open socket has        *)
(* neither been sent a frame since the last change nor been noted as owed    *)
(* one, whatever overlaps with the nudge: deliverHeraldRooms, the room's     *)
(* GENERATION_KEY and HeraldRoomFanout keep this between them.               *)
THEOREM ChangesAreTold == Spec => []DeliveredRoomsAreTold
<1>1. RoomInv => DeliveredRoomsAreTold
  <2> SUFFICES ASSUME RoomInv, delivered = generation
               PROVE  \A s \in Open : Told(s)
    BY DEF DeliveredRoomsAreTold, Told
  <2>1. remembered = generation
    BY DEF RoomInv, Fits, MarksAgree, Types
  <2> QED
    BY <2>1 DEF RoomInv, RememberedIsTold
<1> QED
  BY <1>1, RoomInvariance, PTL

(* If no client repeats an acknowledgement that is in progress, a socket     *)
(* that owes none has been told of the head once the row counts as           *)
(* delivered: completeAck then never takes a stale answer for the last.      *)
THEOREM OneAckLeavesNoneBehind == Spec /\ []OneAckAtATime => []NoneLeftBehind
<1>1. Init => RoomInv /\ AckInv
  BY Initial
<1>2. RoomInv /\ AckInv /\ OneAckAtATime /\ [Next]_vars => RoomInv' /\ AckInv'
  BY StepKeepsRoom, StepLevels
<1>3. RoomInv /\ AckInv => NoneLeftBehind
  <2> SUFFICES ASSUME RoomInv, AckInv, delivered = generation
               PROVE  \A s \in Open : Level(s)
    BY DEF NoneLeftBehind, Level
  <2>1. remembered = generation
    BY DEF RoomInv, Fits, MarksAgree, Types
  <2> QED
    BY <2>1 DEF AckInv, RememberedIsLevel
<1> QED
  BY <1>1, <1>2, <1>3, PTL DEF Spec

=============================================================================
