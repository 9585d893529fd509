----------------------- MODULE SearchFreshness_proofs -----------------------
(***************************************************************************)
(* The index never lags in silence.  One drain handles one row at a time:  *)
(* whatever row it is about to index was the head of its claim when it was *)
(* looked up, and every younger row of that claim is still pending.  So an *)
(* index entry that is stale always goes with a row that is not delivered, *)
(* which a search counts as backlog.                                       *)
(***************************************************************************)
EXTENDS SearchFreshness, FiniteSetTheorems, TLAPS

-----------------------------------------------------------------------------
(* Numbers and sets of numbers *)

\* A set of natural numbers has a least element.
LEMMA LeastNatural ==
    ASSUME NEW S \in SUBSET Nat, S # {}
    PROVE  \E m \in S : \A n \in S : m <= n
<1>1. PICK m \in S : \A n \in S : <<n, m>> \notin OpToRel(<, Nat)
  BY NatLessThanWellFounded, WFMin
<1>2. ASSUME NEW n \in S
      PROVE  m <= n
  <2>1. m \in Nat /\ n \in Nat
    OBVIOUS
  <2>2. ~ (n < m)
    BY <1>1, <2>1 DEF OpToRel
  <2> QED
    BY <2>1, <2>2
<1> QED
  BY <1>2

\* A set of natural numbers with a bound has a greatest element, and Max finds it.
LEMMA GreatestNatural ==
    ASSUME NEW b \in Nat, NEW S \in SUBSET (0..b), S # {}
    PROVE  Max(S) \in S /\ \A n \in S : n <= Max(S)
<1> DEFINE T == {k \in Nat : b - k \in S}
<1>1. T # {}
  <2>1. PICK x \in S : TRUE
    OBVIOUS
  <2>2. x \in 0..b
    OBVIOUS
  <2>3. b - x \in Nat /\ b - (b - x) = x
    BY <2>2
  <2> QED
    BY <2>1, <2>3
<1>2. PICK k \in T : \A n \in T : k <= n
  BY <1>1, LeastNatural
<1>3. ASSUME NEW n \in S
      PROVE  n <= b - k
  <2>1. n \in 0..b
    OBVIOUS
  <2>2. b - n \in T
    BY <2>1
  <2> QED
    BY <1>2, <2>1, <2>2
<1>4. \E x \in S : \A y \in S : x >= y
  <2>1. \A y \in S : y \in 0..b
    OBVIOUS
  <2> QED
    BY <1>2, <1>3, <2>1
<1>5. Max(S) \in S /\ \A y \in S : Max(S) >= y
  BY <1>4 DEF Max
<1> QED
  BY <1>5

-----------------------------------------------------------------------------
(* Types *)

Rows == [claim : Claims \cup {NoClaim}, state : {"pending", "delivered", "quarantined"},
         sound : BOOLEAN]

\* A row of the page is in hand.
Handling == phase \in {"source", "apply", "refuse", "ack"}

\* Every variable holds a value of its kind, and no cursor, tally or mark is
\* beyond the rows there are.
OutboxTypeOK ==
    /\ rows \in Seq(Rows)
    /\ redacted \subseteq DOMAIN rows
    /\ fts \in [Claims -> 0..Len(rows)]
    /\ cursor \in 0..Len(rows) /\ wrap \in 0..Len(rows)
    /\ alarm \in {"none", "hot", "idle"}
    /\ attempts \subseteq DOMAIN rows /\ reclaimAfter \in 0..Len(rows)
    /\ phase \in {"idle", "sweep", "select", "row", "source", "apply", "refuse", "ack", "finish",
                  "wrapped"}
    /\ source \in {"none", "alarm", "fetch"}
    /\ page \subseteq [id : DOMAIN rows, sound : BOOLEAN]
    /\ Handling => page # {}
    /\ scanAfter \in 0..Len(rows) /\ needsAlarm \in BOOLEAN
    /\ commands \in 0..MaxCommands /\ mishaps \in 0..MaxMishaps

\* The row at hand is one of the page.
LEMMA CurrentIsOfThePage ==
    ASSUME OutboxTypeOK, page # {}
    PROVE  /\ Current \in page
           /\ Current.id \in DOMAIN rows /\ Current.id \in 1..Len(rows)
           /\ Current.sound \in BOOLEAN
<1> DEFINE ids == {row.id : row \in page}
<1>1. DOMAIN rows = 1..Len(rows) /\ Len(rows) \in Nat
  BY DEF OutboxTypeOK
<1>2. ids \in SUBSET Nat /\ ids # {}
  BY <1>1 DEF OutboxTypeOK
<1>3. PICK m \in ids : \A n \in ids : m <= n
  BY <1>2, LeastNatural
<1>4. \E row \in page : \A other \in page : row.id <= other.id
  BY <1>3
<1>5. Current \in page
  BY <1>4 DEF Current
<1> QED
  BY <1>1, <1>5 DEF OutboxTypeOK

\* The head of a claim is its youngest row.
LEMMA GreatestRow ==
    ASSUME NEW s \in Seq(Rows), NEW c
    PROVE  LET h == Max({i \in DOMAIN s : s[i].claim = c} \cup {0}) IN
           /\ h \in 0..Len(s)
           /\ h # 0 => h \in DOMAIN s /\ s[h].claim = c
           /\ \A i \in DOMAIN s : s[i].claim = c => i <= h
<1> DEFINE S == {i \in DOMAIN s : s[i].claim = c} \cup {0}
<1>1. DOMAIN s = 1..Len(s) /\ Len(s) \in Nat
  OBVIOUS
<1>2. S \in SUBSET (0..Len(s)) /\ S # {}
  BY <1>1
<1> HIDE DEF S
<1>3. Max(S) \in S /\ \A n \in S : n <= Max(S)
  BY <1>1, <1>2, GreatestNatural
<1> QED
  BY <1>1, <1>2, <1>3 DEF S

LEMMA HeadFacts ==
    ASSUME rows \in Seq(Rows), NEW c
    PROVE  /\ HeadOf(c) \in 0..Len(rows)
           /\ HeadOf(c) # 0 => HeadOf(c) \in DOMAIN rows /\ rows[HeadOf(c)].claim = c
           /\ \A i \in DOMAIN rows : rows[i].claim = c => i <= HeadOf(c)
BY GreatestRow DEF HeadOf

LEMMA NextHeadFacts ==
    ASSUME (rows \in Seq(Rows))', NEW c
    PROVE  /\ HeadOf(c)' \in 0..Len(rows')
           /\ HeadOf(c)' # 0 => HeadOf(c)' \in DOMAIN rows' /\ rows'[HeadOf(c)'].claim = c
           /\ \A i \in DOMAIN rows' : rows'[i].claim = c => i <= HeadOf(c)'
BY GreatestRow DEF HeadOf

\* What an UPDATE of one row leaves alone.
LEMMA RowUpdated ==
    ASSUME NEW s \in Seq(Rows), NEW i \in DOMAIN s, NEW state \in {"pending", "delivered", "quarantined"}
    PROVE  LET t == [s EXCEPT ![i].state = state] IN
           /\ t \in Seq(Rows) /\ Len(t) = Len(s) /\ DOMAIN t = DOMAIN s
           /\ \A j \in DOMAIN s : /\ t[j].claim = s[j].claim /\ t[j].sound = s[j].sound
                                  /\ t[j].state = IF j = i THEN state ELSE s[j].state
<1>1. s[i] \in Rows
  OBVIOUS
<1>2. [s[i] EXCEPT !.state = state] \in Rows
  BY <1>1 DEF Rows
<1> QED
  BY <1>1, <1>2 DEF Rows

LEMMA RowCorrupted ==
    ASSUME NEW s \in Seq(Rows), NEW i \in DOMAIN s
    PROVE  LET t == [s EXCEPT ![i].sound = FALSE] IN
           /\ t \in Seq(Rows) /\ Len(t) = Len(s) /\ DOMAIN t = DOMAIN s
           /\ \A j \in DOMAIN s : /\ t[j].claim = s[j].claim /\ t[j].state = s[j].state
                                  /\ t[j].sound = IF j = i THEN FALSE ELSE s[j].sound
<1>1. s[i] \in Rows
  OBVIOUS
<1>2. [s[i] EXCEPT !.sound = FALSE] \in Rows
  BY <1>1 DEF Rows
<1> QED
  BY <1>1, <1>2 DEF Rows

LEMMA RowAppended ==
    ASSUME NEW s \in Seq(Rows), NEW c \in Claims
    PROVE  LET t == Append(s, Row(c)) IN
           /\ t \in Seq(Rows) /\ Len(t) = Len(s) + 1
           /\ DOMAIN t = 1..(Len(s) + 1) /\ DOMAIN s = 1..Len(s) /\ Len(s) \in Nat
           /\ \A j \in DOMAIN s : t[j] = s[j]
           /\ t[Len(s) + 1] = Row(c)
<1>1. Row(c) \in Rows
  BY DEF Row, Rows
<1> QED
  BY <1>1

LEMMA InitialTypes == OutboxInit => OutboxTypeOK
<1> SUFFICES ASSUME OutboxInit
             PROVE  OutboxTypeOK
  OBVIOUS
<1>1. Legacy \in Nat /\ 0 \in 0..MaxCommands /\ 0 \in 0..MaxMishaps
  BY OutboxConstants
<1>2. Row(NoClaim) \in Rows
  BY DEF Row, Rows
<1>3. rows \in [1..Legacy -> Rows]
  BY <1>2 DEF OutboxInit
<1>4. rows \in Seq(Rows) /\ Len(rows) = Legacy /\ 0 \in 0..Len(rows)
  BY <1>1, <1>3
<1> QED
  BY <1>1, <1>4 DEF OutboxInit, OutboxTypeOK, Handling

LEMMA BoundsKept ==
    ASSUME OutboxTypeOK
    PROVE  /\ Mishap => commands' \in 0..MaxCommands /\ mishaps' \in 0..MaxMishaps
           /\ Command => commands' \in 0..MaxCommands
           /\ UNCHANGED boundVars => commands' \in 0..MaxCommands /\ mishaps' \in 0..MaxMishaps
BY OutboxConstants DEF OutboxTypeOK, Mishap, Command, boundVars

\* A page of pending rows is a page.
LEMMA RowsOfThePage ==
    ASSUME OutboxTypeOK, NEW after, NEW through
    PROVE  \A i \in PendingRows(after, through) :
               i \in DOMAIN rows /\ rows[i].state = "pending" /\ rows[i].sound \in BOOLEAN
<1>1. \A i \in DOMAIN rows : rows[i] \in Rows
  BY DEF OutboxTypeOK
<1>2. \A i \in DOMAIN rows : rows[i].sound \in BOOLEAN
  BY <1>1 DEF Rows
<1> QED
  BY <1>2 DEF PendingRows, FirstOf, Pending

\* A full page of tallies has a last one.
LEMMA LastTally ==
    ASSUME OutboxTypeOK, NEW keys, keys \subseteq attempts, Cardinality(keys) = ReclaimBatch
    PROVE  Max(keys) \in 0..Len(rows)
<1>1. keys # {}
  BY FS_EmptySet, OutboxConstants
<1>2. keys \in SUBSET (0..Len(rows)) /\ Len(rows) \in Nat
  BY DEF OutboxTypeOK
<1>3. Max(keys) \in keys
  BY <1>1, <1>2, GreatestNatural
<1> QED
  BY <1>2, <1>3

\* A drain that ends leaves its variables at rest.
LEMMA AtRest ==
    ASSUME Len(rows') \in Nat, EndDrain
    PROVE  /\ phase' = "idle" /\ source' = "none" /\ ~Handling'
           /\ page' \subseteq [id : DOMAIN rows', sound : BOOLEAN]
           /\ scanAfter' \in 0..Len(rows') /\ needsAlarm' \in BOOLEAN
<1>1. 0 \in 0..Len(rows') /\ page' = {} /\ phase' = "idle" /\ source' = "none" /\ scanAfter' = 0
      /\ needsAlarm' = FALSE
  BY DEF EndDrain
<1>2. ~Handling'
  BY <1>1 DEF Handling
<1>3. page' \subseteq [id : DOMAIN rows', sound : BOOLEAN]
  BY <1>1
<1> QED
  BY <1>1, <1>2, <1>3

LEMMA TypesKept == OutboxTypeOK /\ [OutboxNext]_outboxVars => OutboxTypeOK'
<1> SUFFICES ASSUME OutboxTypeOK, [OutboxNext]_outboxVars
             PROVE  OutboxTypeOK'
  OBVIOUS
<1> USE DEF handoffVars, sweepVars, drainVars, Handling
<1>a. DOMAIN rows = 1..Len(rows) /\ Len(rows) \in Nat
  BY DEF OutboxTypeOK
<1>b. rows \in Seq(Rows)
  BY DEF OutboxTypeOK
<1>1. ASSUME NEW c \in Claims, Commit(c)
      PROVE  OutboxTypeOK'
  <2>1. rows' = Append(rows, Row(c))
    BY <1>1 DEF Commit
  <2>2. rows' \in Seq(Rows) /\ Len(rows') = Len(rows) + 1 /\ DOMAIN rows' = 1..(Len(rows) + 1)
    BY <1>b, <2>1, RowAppended
  <2>3. DOMAIN rows \subseteq DOMAIN rows' /\ 0..Len(rows) \subseteq 0..Len(rows')
    BY <1>a, <2>2
  <2>4. commands' \in 0..MaxCommands /\ mishaps' \in 0..MaxMishaps
    BY <1>1, BoundsKept DEF Commit
  <2> QED
    BY <1>1, <2>2, <2>3, <2>4 DEF Commit, OutboxTypeOK
<1>2. ASSUME NEW i \in DOMAIN rows, Redact(i) \/ PlantMalformed(i) \/ RestoreRow(i)
      PROVE  OutboxTypeOK'
  <2>1. CASE Redact(i)
    BY <2>1, <1>a, BoundsKept DEF Redact, OutboxTypeOK
  <2>2. CASE PlantMalformed(i)
    BY <2>2, RowCorrupted, <1>a, BoundsKept DEF PlantMalformed, OutboxTypeOK
  <2>3. CASE RestoreRow(i)
    BY <2>3, RowUpdated, <1>a, BoundsKept DEF RestoreRow, OutboxTypeOK
  <2> QED
    BY <1>2, <2>1, <2>2, <2>3
<1>3. CASE RebuildPublicClaimFts
  <2>1. \A c \in Claims : HeadOf(c) \in 0..Len(rows)
    BY HeadFacts DEF OutboxTypeOK
  <2> QED
    BY <1>3, <2>1, OutboxConstants DEF RebuildPublicClaimFts, OutboxTypeOK
<1>4. CASE Nudge \/ DrainNow
  BY <1>4, <1>a, BoundsKept DEF Nudge, DrainNow, Begin, OutboxTypeOK
<1>5. CASE AlarmFires
  BY <1>5, <1>a, BoundsKept DEF AlarmFires, Begin, boundVars, OutboxTypeOK
<1>6. CASE DrainFails \/ Evict \/ HoldBeforeAck
  <2>1. UNCHANGED <<rows, redacted, fts, wrap, attempts, reclaimAfter>>
    BY <1>6 DEF DrainFails, Evict, HoldBeforeAck
  <2>2. cursor' \in 0..Len(rows) /\ alarm' \in {"none", "hot", "idle"}
    BY <1>6 DEF DrainFails, Evict, HoldBeforeAck, OutboxTypeOK
  <2>3. EndDrain /\ commands' \in 0..MaxCommands /\ mishaps' \in 0..MaxMishaps
    BY <1>6, BoundsKept DEF DrainFails, Evict, HoldBeforeAck
  <2> QED
    BY <1>a, <2>1, <2>2, <2>3, AtRest DEF OutboxTypeOK
<1>7. CASE Sweep
  <2>1. CASE ReclaimAttemptKeys /\ UNCHANGED boundVars
    <3> DEFINE keys == FirstOf(ReclaimBatch, {i \in attempts : i > reclaimAfter})
    <3>1. keys \subseteq attempts
      BY DEF FirstOf
    <3> HIDE DEF keys
    <3>2. /\ attempts' \subseteq attempts
          /\ reclaimAfter' \in 0..Len(rows)
          /\ needsAlarm' \in BOOLEAN
      BY <2>1, <3>1, <1>a, LastTally DEF ReclaimAttemptKeys, keys
    <3> QED
      BY <1>7, <2>1, <3>2, BoundsKept DEF Sweep, OutboxTypeOK
  <2>2. CASE Mishap /\ needsAlarm' = TRUE /\ UNCHANGED sweepVars
    BY <1>7, <2>2, <1>a, BoundsKept DEF Sweep, OutboxTypeOK
  <2> QED
    BY <1>7, <2>1, <2>2 DEF Sweep
<1>8. CASE Select
  <2> DEFINE stale == wrap # 0 /\ cursor >= wrap
             through == IF stale THEN 0 ELSE wrap
             after == IF stale THEN 0 ELSE cursor
             from == IF through = 0 /\ PendingRows(after, 0) = {} THEN 0 ELSE after
  <2>1. through \in 0..Len(rows) /\ from \in 0..Len(rows)
    BY <1>a DEF OutboxTypeOK
  <2>2. /\ wrap' = through /\ cursor' = from /\ scanAfter' = from /\ phase' = "row"
        /\ page' = {[id |-> i, sound |-> rows[i].sound] : i \in PendingRows(from, through)}
        /\ UNCHANGED <<handoffVars, alarm, sweepVars, source, needsAlarm, boundVars>>
    BY <1>8 DEF Select
  <2> HIDE DEF from, through
  <2>3. page' \subseteq [id : DOMAIN rows, sound : BOOLEAN]
    BY <2>2, RowsOfThePage
  <2>4. commands' \in 0..MaxCommands /\ mishaps' \in 0..MaxMishaps
    BY <2>2, BoundsKept
  <2> QED
    BY <2>1, <2>2, <2>3, <2>4 DEF OutboxTypeOK
<1>9. ASSUME Quarantine, page # {}
      PROVE  OutboxTypeOK'
  <2>1. Current \in page /\ Current.id \in DOMAIN rows /\ Current.id \in 0..Len(rows)
    BY <1>9, <1>a, CurrentIsOfThePage
  <2>0. LET t == [rows EXCEPT ![Current.id].state = "quarantined"] IN
        t \in Seq(Rows) /\ Len(t) = Len(rows) /\ DOMAIN t = DOMAIN rows
    <3> DEFINE i == Current.id
    <3>1. i \in DOMAIN rows
      BY <2>1
    <3> HIDE DEF i
    <3>2. LET t == [rows EXCEPT ![i].state = "quarantined"] IN
          t \in Seq(Rows) /\ Len(t) = Len(rows) /\ DOMAIN t = DOMAIN rows
      BY <1>b, <3>1, RowUpdated
    <3> QED
      BY <3>2 DEF i
  <2>2. rows' \in Seq(Rows) /\ Len(rows') = Len(rows) /\ DOMAIN rows' = DOMAIN rows /\ attempts' \subseteq attempts
    BY <1>9, <2>0 DEF Quarantine
  <2> QED
    BY <1>9, <2>1, <2>2, BoundsKept DEF Quarantine, NextRow, OutboxTypeOK
<1>10. CASE QuarantineMalformed \/ QuarantineSource
  <2>1. page # {} /\ Quarantine
    BY <1>10 DEF QuarantineMalformed, QuarantineSource, OutboxTypeOK
  <2> QED
    BY <2>1, <1>9
<1>11. CASE RecordAttempt
  BY <1>11, CurrentIsOfThePage, <1>a, BoundsKept DEF RecordAttempt, OutboxTypeOK
<1>12. CASE ReadSource
  <2>1. phase' \in {"apply", "ack", "refuse"}
    BY <1>12 DEF ReadSource
  <2> QED
    BY <1>12, <2>1, <1>a, BoundsKept DEF ReadSource, OutboxTypeOK
<1>13. CASE ApplyEffect
  <2>1. Current.id \in 0..Len(rows)
    BY <1>13, <1>a, CurrentIsOfThePage DEF ApplyEffect, OutboxTypeOK
  <2> QED
    BY <1>13, <2>1, <1>a, BoundsKept DEF ApplyEffect, OutboxTypeOK
<1>14. CASE Acknowledge \/ AcknowledgeThenCrash
  <2>1. Current \in page /\ Current.id \in DOMAIN rows /\ Current.id \in 0..Len(rows)
    BY <1>14, <1>a, CurrentIsOfThePage DEF Acknowledge, AcknowledgeThenCrash, OutboxTypeOK
  <2>0. LET t == [rows EXCEPT ![Current.id].state = "delivered"] IN
        t \in Seq(Rows) /\ Len(t) = Len(rows) /\ DOMAIN t = DOMAIN rows
    <3> DEFINE i == Current.id
    <3>1. i \in DOMAIN rows
      BY <2>1
    <3> HIDE DEF i
    <3>2. LET t == [rows EXCEPT ![i].state = "delivered"] IN
          t \in Seq(Rows) /\ Len(t) = Len(rows) /\ DOMAIN t = DOMAIN rows
      BY <1>b, <3>1, RowUpdated
    <3> QED
      BY <3>2 DEF i
  <2>2. rows' \in Seq(Rows) /\ Len(rows') = Len(rows) /\ DOMAIN rows' = DOMAIN rows /\ attempts' \subseteq attempts
    BY <1>14, <2>1, <2>0 DEF Acknowledge, AcknowledgeThenCrash, OutboxTypeOK
  <2>3. cursor' \in 0..Len(rows) /\ alarm' \in {"none", "hot", "idle"} /\ UNCHANGED <<redacted, fts, wrap, reclaimAfter>>
    BY <1>14 DEF Acknowledge, AcknowledgeThenCrash, OutboxTypeOK
  <2>4. commands' \in 0..MaxCommands /\ mishaps' \in 0..MaxMishaps
    BY <1>14, BoundsKept DEF Acknowledge, AcknowledgeThenCrash
  <2>5. EndDrain \/ (NextRow /\ UNCHANGED <<source, needsAlarm>>)
    BY <1>14 DEF Acknowledge, AcknowledgeThenCrash
  <2>6. CASE EndDrain
    BY <1>a, <2>2, <2>3, <2>4, <2>6, AtRest DEF OutboxTypeOK
  <2>7. CASE NextRow /\ UNCHANGED <<source, needsAlarm>>
    BY <1>a, <2>1, <2>2, <2>3, <2>4, <2>7 DEF NextRow, OutboxTypeOK
  <2> QED
    BY <2>5, <2>6, <2>7
<1>15. CASE PersistCursor
  BY <1>15, <1>a, BoundsKept DEF PersistCursor, OutboxTypeOK
<1>16. ASSUME NEW which \in {"hot", IdleAlarm}, Arm(which)
      PROVE  alarm' \in {"none", "hot", "idle"} /\ commands' \in 0..MaxCommands /\ mishaps' \in 0..MaxMishaps
  BY <1>16, <1>a, BoundsKept DEF Arm, IdleAlarm, OutboxTypeOK
<1>17. CASE Finish \/ EndWrap
  <2>1. UNCHANGED <<rows, redacted, fts, attempts, reclaimAfter>>
    BY <1>17 DEF Finish, EndWrap
  <2>2. cursor' \in 0..Len(rows) /\ wrap' \in 0..Len(rows)
    BY <1>17, <1>a DEF Finish, EndWrap, OutboxTypeOK
  <2>3. \/ EndDrain /\ \E which \in {"hot", IdleAlarm} : Arm(which)
        \/ phase' = "wrapped" /\ UNCHANGED <<alarm, source, page, scanAfter, needsAlarm, boundVars>>
    BY <1>17 DEF Finish, EndWrap
  <2>4. CASE EndDrain /\ \E which \in {"hot", IdleAlarm} : Arm(which)
    BY <1>a, <1>16, <2>1, <2>2, <2>4, AtRest DEF OutboxTypeOK
  <2>5. CASE phase' = "wrapped" /\ UNCHANGED <<alarm, source, page, scanAfter, needsAlarm, boundVars>>
    BY <1>a, <2>1, <2>2, <2>5, BoundsKept DEF OutboxTypeOK
  <2> QED
    BY <2>3, <2>4, <2>5
<1>19. CASE UNCHANGED outboxVars
  BY <1>19 DEF outboxVars, OutboxTypeOK
<1> QED
  BY <1>1, <1>2, <1>3, <1>4, <1>5, <1>6, <1>7, <1>8, <1>10, <1>11, <1>12, <1>13, <1>14, <1>15,
     <1>17, <1>19 DEF OutboxNext, DrainStep, OutboxEnvironment

-----------------------------------------------------------------------------
(* What a drain knows of its page and of the row in hand *)

\* Nobody but the drain settles a row.
PageIsPending == \A row \in page : rows[row.id].state = "pending"

PageNamesOnce == \A row, other \in page : row.id = other.id => row = other

HandIsSound == Handling => Current.sound

\* The row was the head when it was looked up; what came since is not handled yet.
ApplyIsCurrent ==
    phase = "apply" =>
        /\ rows[Current.id].claim \in Claims
        /\ \A i \in DOMAIN rows :
              i > Current.id /\ rows[i].claim = rows[Current.id].claim => rows[i].state = "pending"

RefusalIsDue == phase = "refuse" => rows[Current.id].claim = NoClaim

\* The row is indexed, or it need not be.
AckIsIndexed ==
    phase = "ack" =>
        LET c == rows[Current.id].claim IN
        /\ c \in Claims
        /\ Current.id = HeadOf(c) /\ Current.id \notin redacted => fts[c] = Current.id

DrainInv ==
    /\ PageIsPending /\ PageNamesOnce /\ HandIsSound
    /\ ApplyIsCurrent /\ RefusalIsDue /\ AckIsIndexed

OutboxInv == OutboxTypeOK /\ DrainInv /\ DeliveredHeadIsIndexed /\ OnlyBadRowsQuarantined

\* The claims of the rows never change, so neither do their heads without a commit.
LEMMA HeadsStay ==
    ASSUME DOMAIN rows' = DOMAIN rows, \A i \in DOMAIN rows : rows'[i].claim = rows[i].claim
    PROVE  \A c : HeadOf(c)' = HeadOf(c)
<1>1. \A c : {i \in DOMAIN rows' : rows'[i].claim = c} = {i \in DOMAIN rows : rows[i].claim = c}
  OBVIOUS
<1> QED
  BY <1>1 DEF HeadOf

\* A step that leaves D1 alone and takes no row in hand.
LEMMA OffHand ==
    ASSUME OutboxInv, OutboxTypeOK', UNCHANGED handoffVars, page' \subseteq page, ~Handling'
    PROVE  OutboxInv'
<1>1. UNCHANGED <<rows, redacted, fts>>
  BY DEF handoffVars
<1>2. \A c : HeadOf(c)' = HeadOf(c)
  BY <1>1, HeadsStay
<1>3. DeliveredHeadIsIndexed'
  BY <1>1, <1>2 DEF OutboxInv, DeliveredHeadIsIndexed
<1>4. OnlyBadRowsQuarantined'
  BY <1>1 DEF OutboxInv, OnlyBadRowsQuarantined
<1>5. PageIsPending' /\ PageNamesOnce'
  BY <1>1 DEF OutboxInv, DrainInv, PageIsPending, PageNamesOnce
<1>6. HandIsSound' /\ ApplyIsCurrent' /\ RefusalIsDue' /\ AckIsIndexed'
  BY DEF HandIsSound, ApplyIsCurrent, RefusalIsDue, AckIsIndexed, Handling
<1> QED
  BY <1>3, <1>4, <1>5, <1>6 DEF OutboxInv, DrainInv

LEMMA CommitKeeps ==
    ASSUME OutboxInv, OutboxTypeOK', NEW c \in Claims, Commit(c)
    PROVE  OutboxInv'
<1>1. rows \in Seq(Rows) /\ rows' = Append(rows, Row(c)) /\ UNCHANGED <<redacted, fts, phase, page>>
  BY DEF Commit, OutboxInv, OutboxTypeOK, drainVars
<1>2. /\ DOMAIN rows' = 1..(Len(rows) + 1) /\ DOMAIN rows = 1..Len(rows) /\ Len(rows) \in Nat
      /\ \A i \in DOMAIN rows : rows'[i] = rows[i]
      /\ rows'[Len(rows) + 1].claim = c /\ rows'[Len(rows) + 1].state = "pending"
      /\ rows' \in Seq(Rows)
  BY <1>1, RowAppended DEF Row
<1>3. /\ Current' = Current
      /\ page # {} => Current.id \in DOMAIN rows
      /\ \A row \in page : row.id \in DOMAIN rows
  BY <1>1, CurrentIsOfThePage DEF Current, OutboxInv, OutboxTypeOK
<1>4. /\ HeadOf(c)' = Len(rows) + 1
      /\ \A d : d # c => HeadOf(d)' = HeadOf(d)
  <2>1. HeadOf(c)' = Len(rows) + 1
    BY <1>2, NextHeadFacts
  <2>2. ASSUME NEW d, d # c
        PROVE  HeadOf(d)' = HeadOf(d)
    <3>1. {i \in DOMAIN rows' : rows'[i].claim = d} = {i \in DOMAIN rows : rows[i].claim = d}
      BY <1>2, <2>2
    <3> QED
      BY <3>1 DEF HeadOf
  <2> QED
    BY <2>1, <2>2
<1>5. DeliveredHeadIsIndexed'
  <2> SUFFICES ASSUME NEW d \in Claims, HeadOf(d)' # 0, HeadOf(d)' \notin redacted',
                      rows'[HeadOf(d)'].state = "delivered"
               PROVE  fts'[d] = HeadOf(d)'
    BY DEF DeliveredHeadIsIndexed
  <2>1. d # c /\ HeadOf(d)' = HeadOf(d)
    BY <1>2, <1>4
  <2>2. HeadOf(d) \in DOMAIN rows
    BY <1>1, <2>1, HeadFacts
  <2> QED
    BY <1>1, <1>2, <2>1, <2>2 DEF OutboxInv, DeliveredHeadIsIndexed
<1>6. OnlyBadRowsQuarantined'
  BY <1>2 DEF OutboxInv, OnlyBadRowsQuarantined
<1>7. PageIsPending' /\ PageNamesOnce' /\ HandIsSound'
  BY <1>1, <1>2, <1>3 DEF OutboxInv, DrainInv, PageIsPending, PageNamesOnce, HandIsSound, Handling
<1>8. ASSUME Handling
      PROVE  /\ Current.id \in DOMAIN rows /\ Current'.id = Current.id
             /\ rows'[Current.id] = rows[Current.id] /\ Current.id # Len(rows) + 1
  <2>1. page # {}
    BY <1>8 DEF OutboxInv, OutboxTypeOK
  <2> QED
    BY <1>2, <1>3, <2>1
<1>9. ApplyIsCurrent' /\ RefusalIsDue'
  <2>1. CASE phase = "apply"
    BY <1>1, <1>2, <1>8, <2>1 DEF OutboxInv, DrainInv, ApplyIsCurrent, RefusalIsDue, Handling
  <2>2. CASE phase = "refuse"
    BY <1>1, <1>2, <1>8, <2>2 DEF OutboxInv, DrainInv, ApplyIsCurrent, RefusalIsDue, Handling
  <2> QED
    BY <1>1, <2>1, <2>2 DEF ApplyIsCurrent, RefusalIsDue
<1>10. AckIsIndexed'
  <2> SUFFICES ASSUME phase = "ack"
               PROVE  AckIsIndexed'
    BY <1>1 DEF AckIsIndexed
  <2>1. PICK d : d = rows[Current.id].claim
    OBVIOUS
  <2>2. d \in Claims /\ (Current.id = HeadOf(d) /\ Current.id \notin redacted => fts[d] = Current.id)
    BY <2>1 DEF OutboxInv, DrainInv, AckIsIndexed
  <2>3. Current.id = HeadOf(d)' => Current.id = HeadOf(d)
    BY <1>4, <1>8 DEF Handling
  <2>4. rows'[Current'.id].claim = d /\ Current'.id = Current.id
    BY <1>8, <2>1 DEF Handling
  <2> QED
    BY <1>1, <2>2, <2>3, <2>4 DEF AckIsIndexed
<1> QED
  BY <1>5, <1>6, <1>7, <1>9, <1>10 DEF OutboxInv, DrainInv

\* What others do to the rows while a drain has one in hand.
LEMMA InHandKept ==
    ASSUME OutboxInv, OutboxTypeOK', UNCHANGED <<phase, page>>,
           DOMAIN rows' = DOMAIN rows,
           \A i \in DOMAIN rows : /\ rows'[i].claim = rows[i].claim
                                  /\ rows[i].state = "pending" => rows'[i].state = "pending",
           redacted \subseteq redacted',
           \A c \in Claims : fts'[c] \in {fts[c], HeadOf(c)}
    PROVE  DrainInv'
<1>1. \A c : HeadOf(c)' = HeadOf(c)
  BY HeadsStay
<1>2. Current' = Current /\ \A row \in page : row.id \in DOMAIN rows
  BY DEF Current, OutboxInv, OutboxTypeOK
<1>3. PageIsPending' /\ PageNamesOnce' /\ HandIsSound'
  BY <1>2 DEF OutboxInv, DrainInv, PageIsPending, PageNamesOnce, HandIsSound, Handling
<1>4. ASSUME Handling
      PROVE  Current.id \in DOMAIN rows
  <2>1. page # {}
    BY <1>4 DEF OutboxInv, OutboxTypeOK
  <2> QED
    BY <2>1, CurrentIsOfThePage DEF OutboxInv
<1>5. ApplyIsCurrent' /\ RefusalIsDue'
  <2>1. CASE phase = "apply"
    BY <1>2, <1>4, <2>1 DEF OutboxInv, DrainInv, ApplyIsCurrent, RefusalIsDue, Handling
  <2>2. CASE phase = "refuse"
    BY <1>2, <1>4, <2>2 DEF OutboxInv, DrainInv, ApplyIsCurrent, RefusalIsDue, Handling
  <2> QED
    BY <2>1, <2>2 DEF ApplyIsCurrent, RefusalIsDue
<1>6. AckIsIndexed'
  <2> SUFFICES ASSUME phase = "ack"
               PROVE  AckIsIndexed'
    BY DEF AckIsIndexed
  <2>1. PICK d : d = rows[Current.id].claim
    OBVIOUS
  <2>2. d \in Claims /\ (Current.id = HeadOf(d) /\ Current.id \notin redacted => fts[d] = Current.id)
    BY <2>1 DEF OutboxInv, DrainInv, AckIsIndexed
  <2>3. HeadOf(d)' = HeadOf(d) /\ fts'[d] \in {fts[d], HeadOf(d)}
    BY <1>1, <2>2
  <2>4. rows'[Current'.id].claim = d /\ Current'.id = Current.id
    BY <1>2, <1>4, <2>1 DEF Handling
  <2> QED
    BY <2>2, <2>3, <2>4 DEF AckIsIndexed
<1> QED
  BY <1>3, <1>5, <1>6 DEF DrainInv

LEMMA OthersKeep ==
    ASSUME OutboxInv, OutboxTypeOK',
           \/ \E i \in DOMAIN rows : Redact(i) \/ PlantMalformed(i) \/ RestoreRow(i)
           \/ RebuildPublicClaimFts
    PROVE  OutboxInv'
<1>1. rows \in Seq(Rows) /\ redacted \subseteq redacted' /\ UNCHANGED <<phase, page>>
  BY DEF Redact, PlantMalformed, RestoreRow, RebuildPublicClaimFts, OutboxInv, OutboxTypeOK, drainVars
<1>2. \/ rows' = rows
      \/ \E i \in DOMAIN rows :
            \/ rows[i].state = "pending" /\ rows' = [rows EXCEPT ![i].sound = FALSE]
            \/ rows[i].state = "delivered" /\ rows' = [rows EXCEPT ![i].state = "pending"]
  BY DEF Redact, PlantMalformed, RestoreRow, RebuildPublicClaimFts, Pending
<1>3. /\ DOMAIN rows' = DOMAIN rows
      /\ \A j \in DOMAIN rows :
            /\ rows'[j].claim = rows[j].claim
            /\ rows[j].state = "pending" => rows'[j].state = "pending"
            /\ rows'[j].state \in {rows[j].state, "pending"}
            /\ rows[j].state \in {"delivered", "quarantined"} => rows'[j].sound = rows[j].sound
  <2>1. CASE rows' = rows
    BY <2>1
  <2>2. CASE \E i \in DOMAIN rows : rows[i].state = "pending" /\ rows' = [rows EXCEPT ![i].sound = FALSE]
    <3>1. PICK i \in DOMAIN rows : rows[i].state = "pending" /\ rows' = [rows EXCEPT ![i].sound = FALSE]
      BY <2>2
    <3>2. /\ DOMAIN rows' = DOMAIN rows
          /\ \A j \in DOMAIN rows :
                /\ rows'[j].claim = rows[j].claim /\ rows'[j].state = rows[j].state
                /\ rows'[j].sound = IF j = i THEN FALSE ELSE rows[j].sound
      BY <1>1, <3>1, RowCorrupted
    <3> QED
      BY <3>1, <3>2
  <2>3. CASE \E i \in DOMAIN rows : rows[i].state = "delivered" /\ rows' = [rows EXCEPT ![i].state = "pending"]
    BY <1>1, <2>3, RowUpdated
  <2> QED
    BY <1>2, <2>1, <2>2, <2>3
<1>4. \/ fts' = fts
      \/ fts' = [c \in Claims |-> HeadOf(c)]
  BY DEF Redact, PlantMalformed, RestoreRow, RebuildPublicClaimFts
<1>5. \A c \in Claims : HeadOf(c)' = HeadOf(c)
  BY <1>3, HeadsStay
<1>6. DrainInv'
  BY <1>1, <1>3, <1>4, InHandKept
<1>7. DeliveredHeadIsIndexed'
  <2> SUFFICES ASSUME NEW c \in Claims, HeadOf(c) # 0, HeadOf(c) \notin redacted,
                      rows'[HeadOf(c)].state = "delivered"
               PROVE  fts'[c] = HeadOf(c)
    BY <1>1, <1>5 DEF DeliveredHeadIsIndexed
  <2>1. HeadOf(c) \in DOMAIN rows
    BY <1>1, HeadFacts
  <2>2. rows[HeadOf(c)].state = "delivered"
    BY <1>3, <2>1
  <2>3. fts[c] = HeadOf(c)
    BY <2>2 DEF OutboxInv, DeliveredHeadIsIndexed
  <2> QED
    BY <1>4, <2>3
<1>8. OnlyBadRowsQuarantined'
  BY <1>3 DEF OutboxInv, OnlyBadRowsQuarantined
<1> QED
  BY <1>6, <1>7, <1>8 DEF OutboxInv

LEMMA SelectKeeps ==
    ASSUME OutboxInv, OutboxTypeOK', Select
    PROVE  OutboxInv'
<1>1. PICK after, through : page' = {[id |-> i, sound |-> rows[i].sound] : i \in PendingRows(after, through)}
  BY DEF Select
<1>2. UNCHANGED <<rows, redacted, fts>> /\ phase' = "row"
  BY DEF Select, handoffVars
<1>3. PageIsPending' /\ PageNamesOnce'
  BY <1>1, <1>2, RowsOfThePage DEF OutboxInv, PageIsPending, PageNamesOnce
<1>4. HandIsSound' /\ ApplyIsCurrent' /\ RefusalIsDue' /\ AckIsIndexed'
  BY <1>2 DEF HandIsSound, ApplyIsCurrent, RefusalIsDue, AckIsIndexed, Handling
<1>5. \A c : HeadOf(c)' = HeadOf(c)
  BY <1>2, HeadsStay
<1>6. DeliveredHeadIsIndexed' /\ OnlyBadRowsQuarantined'
  BY <1>2, <1>5 DEF OutboxInv, DeliveredHeadIsIndexed, OnlyBadRowsQuarantined
<1> QED
  BY <1>3, <1>4, <1>6 DEF OutboxInv, DrainInv

\* The row in hand is settled and the drain lets go of it.
LEMMA SettlingKeeps ==
    ASSUME OutboxInv, OutboxTypeOK', page # {}, page' \subseteq page \ {Current}, ~Handling',
           UNCHANGED <<redacted, fts>>,
           NEW state \in {"delivered", "quarantined"},
           rows' = [rows EXCEPT ![Current.id].state = state],
           state = "quarantined" => ~Current.sound \/ rows[Current.id].claim = NoClaim,
           state = "delivered" => phase = "ack",
           rows[Current.id].sound = Current.sound
    PROVE  OutboxInv'
<1>1. Current \in page /\ Current.id \in DOMAIN rows /\ rows \in Seq(Rows)
  BY CurrentIsOfThePage DEF OutboxInv, OutboxTypeOK
<1>2. /\ DOMAIN rows' = DOMAIN rows
      /\ \A j \in DOMAIN rows :
            /\ rows'[j].claim = rows[j].claim /\ rows'[j].sound = rows[j].sound
            /\ rows'[j].state = IF j = Current.id THEN state ELSE rows[j].state
  <2>1. LET t == [rows EXCEPT ![Current.id].state = state] IN
        /\ DOMAIN t = DOMAIN rows
        /\ \A j \in DOMAIN rows :
              /\ t[j].claim = rows[j].claim /\ t[j].sound = rows[j].sound
              /\ t[j].state = IF j = Current.id THEN state ELSE rows[j].state
    BY <1>1, RowUpdated
  <2> QED
    BY <2>1
<1>3. \A c : HeadOf(c)' = HeadOf(c)
  BY <1>2, HeadsStay
<1>4. PageIsPending' /\ PageNamesOnce'
  <2>1. \A row \in page' : row \in page /\ row # Current /\ row.id \in DOMAIN rows
    BY DEF OutboxInv, OutboxTypeOK
  <2>2. \A row \in page' : row.id # Current.id
    BY <1>1, <2>1 DEF OutboxInv, DrainInv, PageNamesOnce
  <2> QED
    BY <1>2, <2>1, <2>2 DEF OutboxInv, DrainInv, PageIsPending, PageNamesOnce
<1>5. HandIsSound' /\ ApplyIsCurrent' /\ RefusalIsDue' /\ AckIsIndexed'
  BY DEF HandIsSound, ApplyIsCurrent, RefusalIsDue, AckIsIndexed, Handling
<1>6. DeliveredHeadIsIndexed'
  <2> SUFFICES ASSUME NEW c \in Claims, HeadOf(c) # 0, HeadOf(c) \notin redacted,
                      rows'[HeadOf(c)].state = "delivered"
               PROVE  fts[c] = HeadOf(c)
    BY <1>3 DEF DeliveredHeadIsIndexed
  <2>1. HeadOf(c) \in DOMAIN rows /\ rows[HeadOf(c)].claim = c
    BY <1>1, HeadFacts
  <2>2. CASE HeadOf(c) = Current.id
    BY <1>2, <2>1, <2>2 DEF OutboxInv, DrainInv, AckIsIndexed
  <2>3. CASE HeadOf(c) # Current.id
    BY <1>2, <2>1, <2>3 DEF OutboxInv, DeliveredHeadIsIndexed
  <2> QED
    BY <2>2, <2>3
<1>7. OnlyBadRowsQuarantined'
  <2> SUFFICES ASSUME NEW j \in DOMAIN rows
               PROVE  /\ rows'[j].state = "quarantined" => ~rows[j].sound \/ rows[j].claim = NoClaim
                      /\ rows'[j].state = "delivered" => rows[j].sound /\ rows[j].claim # NoClaim
    BY <1>2 DEF OnlyBadRowsQuarantined
  <2>1. CASE j = Current.id
    BY <1>2, <2>1, OutboxConstants DEF OutboxInv, DrainInv, HandIsSound, AckIsIndexed, Handling
  <2>2. CASE j # Current.id
    BY <1>2, <2>2 DEF OutboxInv, OnlyBadRowsQuarantined
  <2> QED
    BY <2>1, <2>2
<1> QED
  BY <1>4, <1>5, <1>6, <1>7 DEF OutboxInv, DrainInv

\* The drain moves on to the next row of its page.
LEMMA MovingOn ==
    ASSUME OutboxInv, NextRow
    PROVE  page' \subseteq page \ {Current} /\ page' \subseteq page /\ ~Handling'
BY DEF NextRow, Handling

LEMMA QuarantineKeeps ==
    ASSUME OutboxInv, OutboxTypeOK', QuarantineMalformed \/ QuarantineSource
    PROVE  OutboxInv'
<1>1. page # {} /\ Quarantine /\ NextRow /\ UNCHANGED <<redacted, fts>>
  BY DEF QuarantineMalformed, QuarantineSource, Quarantine, OutboxInv, OutboxTypeOK, Handling
<1>2. ~Current.sound \/ rows[Current.id].claim = NoClaim
  BY DEF QuarantineMalformed, QuarantineSource, OutboxInv, DrainInv, RefusalIsDue
<1>3. CASE Unchanged(Current)
  <2>1. /\ rows' = [rows EXCEPT ![Current.id].state = "quarantined"]
        /\ rows[Current.id].sound = Current.sound
    BY <1>1, <1>3 DEF Quarantine, Unchanged
  <2> QED
    BY <1>1, <1>2, <2>1, MovingOn, SettlingKeeps
<1>4. CASE ~Unchanged(Current)
  <2>1. rows' = rows
    BY <1>1, <1>4 DEF Quarantine
  <2> QED
    BY <1>1, <2>1, MovingOn, OffHand DEF handoffVars
<1> QED
  BY <1>3, <1>4

LEMMA AcknowledgeKeeps ==
    ASSUME OutboxInv, OutboxTypeOK', Acknowledge \/ AcknowledgeThenCrash
    PROVE  OutboxInv'
<1>1. phase = "ack" /\ page # {} /\ UNCHANGED <<redacted, fts>>
  BY DEF Acknowledge, AcknowledgeThenCrash, OutboxInv, OutboxTypeOK, Handling
<1>2. NextRow \/ EndDrain
  BY DEF Acknowledge, AcknowledgeThenCrash
<1>3. page' \subseteq page \ {Current} /\ page' \subseteq page /\ ~Handling'
  BY <1>2, MovingOn DEF EndDrain, Handling
<1>4. CASE Unchanged(Current)
  <2>1. /\ rows' = [rows EXCEPT ![Current.id].state = "delivered"]
        /\ rows[Current.id].sound = Current.sound
    BY <1>4 DEF Acknowledge, AcknowledgeThenCrash, Unchanged
  <2> QED
    BY <1>1, <1>3, <2>1, SettlingKeeps
<1>5. CASE ~Unchanged(Current)
  <2>1. rows' = rows
    BY <1>5 DEF Acknowledge, AcknowledgeThenCrash
  <2> QED
    BY <1>1, <1>3, <2>1, OffHand DEF handoffVars
<1> QED
  BY <1>4, <1>5

LEMMA RecordAttemptKeeps ==
    ASSUME OutboxInv, OutboxTypeOK', RecordAttempt
    PROVE  OutboxInv'
<1>1. UNCHANGED <<rows, redacted, fts, page>> /\ phase' = "source" /\ Current.sound /\ Current' = Current
  BY DEF RecordAttempt, handoffVars, Current
<1>2. \A c : HeadOf(c)' = HeadOf(c)
  BY <1>1, HeadsStay
<1>3. DeliveredHeadIsIndexed' /\ OnlyBadRowsQuarantined'
  BY <1>1, <1>2 DEF OutboxInv, DeliveredHeadIsIndexed, OnlyBadRowsQuarantined
<1>4. PageIsPending' /\ PageNamesOnce' /\ HandIsSound'
  BY <1>1 DEF OutboxInv, DrainInv, PageIsPending, PageNamesOnce, HandIsSound
<1>5. ApplyIsCurrent' /\ RefusalIsDue' /\ AckIsIndexed'
  BY <1>1 DEF ApplyIsCurrent, RefusalIsDue, AckIsIndexed
<1> QED
  BY <1>3, <1>4, <1>5 DEF OutboxInv, DrainInv

\* What the lookup of the source finds out about the row.
LEMMA ReadSourceKeeps ==
    ASSUME OutboxInv, OutboxTypeOK', ReadSource
    PROVE  OutboxInv'
<1>1. /\ UNCHANGED <<rows, redacted, fts, page>> /\ Current' = Current
      /\ phase = "source" /\ phase' \in {"apply", "ack", "refuse"}
  BY DEF ReadSource, handoffVars, Current
<1>2. \A c : HeadOf(c)' = HeadOf(c)
  BY <1>1, HeadsStay
<1>3. DeliveredHeadIsIndexed' /\ OnlyBadRowsQuarantined'
  BY <1>1, <1>2 DEF OutboxInv, DeliveredHeadIsIndexed, OnlyBadRowsQuarantined
<1>4. PageIsPending' /\ PageNamesOnce' /\ HandIsSound'
  BY <1>1 DEF OutboxInv, DrainInv, PageIsPending, PageNamesOnce, HandIsSound, Handling
<1>5. Current.id \in DOMAIN rows /\ rows \in Seq(Rows)
  <2>1. page # {}
    BY <1>1 DEF OutboxInv, OutboxTypeOK, Handling
  <2> QED
    BY <2>1, CurrentIsOfThePage DEF OutboxInv, OutboxTypeOK
<1>6. rows[Current.id].claim \in Claims \cup {NoClaim}
  <2>1. rows[Current.id] \in Rows
    BY <1>5
  <2> QED
    BY <2>1 DEF Rows
<1>7. PICK d : d = rows[Current.id].claim
  OBVIOUS
<1>8. /\ HeadOf(d) \in 0..Len(rows) /\ Current.id <= HeadOf(d)
      /\ \A i \in DOMAIN rows : rows[i].claim = d => i <= HeadOf(d)
  BY <1>5, <1>7, HeadFacts
<1>9. DOMAIN rows = 1..Len(rows) /\ Len(rows) \in Nat
  BY <1>5
<1>10. ApplyIsCurrent'
  <2> SUFFICES ASSUME phase' = "apply"
               PROVE  ApplyIsCurrent'
    BY DEF ApplyIsCurrent
  <2>1. d \in Claims /\ ~(Current.id < HeadOf(d))
    BY <1>7 DEF ReadSource, SourceOf, Superseded
  <2>2. \A i \in DOMAIN rows : rows[i].claim = d => ~(i > Current.id)
    BY <1>5, <1>8, <1>9, <2>1
  <2> QED
    BY <1>1, <1>7, <2>1, <2>2 DEF ApplyIsCurrent
<1>11. RefusalIsDue'
  <2> SUFFICES ASSUME phase' = "refuse"
               PROVE  RefusalIsDue'
    BY DEF RefusalIsDue
  <2>1. d \notin Claims
    BY <1>7 DEF ReadSource, SourceOf
  <2> QED
    BY <1>1, <1>6, <1>7, <2>1 DEF RefusalIsDue
<1>12. AckIsIndexed'
  <2> SUFFICES ASSUME phase' = "ack"
               PROVE  AckIsIndexed'
    BY DEF AckIsIndexed
  <2>1. d \in Claims /\ (Current.id < HeadOf(d) \/ Current.id \in redacted)
    <3>1. SourceOf(Current.id) = "retired"
      BY DEF ReadSource
    <3> QED
      BY <1>7, <3>1 DEF SourceOf, Superseded
  <2>2. Current.id # HeadOf(d)' \/ Current.id \in redacted
    BY <1>2, <1>5, <1>8, <1>9, <2>1
  <2> QED
    BY <1>1, <1>7, <2>1, <2>2 DEF AckIsIndexed
<1> QED
  BY <1>3, <1>4, <1>10, <1>11, <1>12 DEF OutboxInv, DrainInv

\* The entry of the row's claim becomes the row; an entry for a younger row cannot be lost,
\* since every younger row of the claim is still to be handled.
LEMMA ApplyEffectKeeps ==
    ASSUME OutboxInv, OutboxTypeOK', ApplyEffect
    PROVE  OutboxInv'
<1>1. /\ UNCHANGED <<rows, redacted, page>> /\ Current' = Current
      /\ phase = "apply" /\ phase' = "ack"
      /\ fts' = [fts EXCEPT ![rows[Current.id].claim] = Current.id]
  BY DEF ApplyEffect, Current
<1>2. \A c : HeadOf(c)' = HeadOf(c)
  BY <1>1, HeadsStay
<1>3. /\ Current \in page /\ Current.id \in DOMAIN rows /\ rows \in Seq(Rows)
      /\ rows[Current.id].state = "pending"
  <2>1. page # {}
    BY <1>1 DEF OutboxInv, OutboxTypeOK, Handling
  <2> QED
    BY <2>1, CurrentIsOfThePage DEF OutboxInv, OutboxTypeOK, DrainInv, PageIsPending
<1>4. PICK d : d = rows[Current.id].claim
  OBVIOUS
<1>5. /\ d \in Claims
      /\ \A i \in DOMAIN rows : i > Current.id /\ rows[i].claim = d => rows[i].state = "pending"
  BY <1>1, <1>4 DEF OutboxInv, DrainInv, ApplyIsCurrent
<1>6. fts'[d] = Current.id /\ \A c \in Claims \ {d} : fts'[c] = fts[c]
  BY <1>1, <1>4, <1>5 DEF OutboxInv, OutboxTypeOK
<1>7. DeliveredHeadIsIndexed'
  <2> SUFFICES ASSUME NEW c \in Claims, HeadOf(c) # 0, HeadOf(c) \notin redacted,
                      rows[HeadOf(c)].state = "delivered"
               PROVE  fts'[c] = HeadOf(c)
    BY <1>1, <1>2 DEF DeliveredHeadIsIndexed
  <2>1. c # d
    <3> SUFFICES ASSUME c = d
                 PROVE  FALSE
      OBVIOUS
    <3>1. HeadOf(c) \in DOMAIN rows /\ rows[HeadOf(c)].claim = d /\ Current.id <= HeadOf(c)
      BY <1>3, <1>4, HeadFacts
    <3>2. HeadOf(c) \in Nat /\ Current.id \in Nat
      BY <1>3, <3>1
    <3>3. HeadOf(c) = Current.id \/ HeadOf(c) > Current.id
      BY <3>1, <3>2
    <3> QED
      BY <1>3, <1>5, <3>1, <3>3
  <2> QED
    BY <1>6, <2>1 DEF OutboxInv, DeliveredHeadIsIndexed
<1>8. OnlyBadRowsQuarantined' /\ PageIsPending' /\ PageNamesOnce' /\ HandIsSound'
  BY <1>1 DEF OutboxInv, DrainInv, OnlyBadRowsQuarantined, PageIsPending, PageNamesOnce, HandIsSound,
              Handling
<1>9. ApplyIsCurrent' /\ RefusalIsDue' /\ AckIsIndexed'
  BY <1>1, <1>4, <1>5, <1>6 DEF ApplyIsCurrent, RefusalIsDue, AckIsIndexed
<1> QED
  BY <1>7, <1>8, <1>9 DEF OutboxInv, DrainInv

LEMMA InitialOutbox == OutboxInit => OutboxInv
<1> SUFFICES ASSUME OutboxInit
             PROVE  OutboxInv
  OBVIOUS
<1>1. OutboxTypeOK
  BY InitialTypes
<1>2. \A i \in DOMAIN rows : rows[i] = Row(NoClaim)
  BY DEF OutboxInit
<1>3. \A i \in DOMAIN rows : rows[i].state = "pending"
  BY <1>2 DEF Row
<1>4. DeliveredHeadIsIndexed /\ OnlyBadRowsQuarantined
  BY <1>1, <1>3, HeadFacts DEF DeliveredHeadIsIndexed, OnlyBadRowsQuarantined, OutboxTypeOK
<1>5. DrainInv
  BY DEF OutboxInit, DrainInv, PageIsPending, PageNamesOnce, HandIsSound, ApplyIsCurrent,
         RefusalIsDue, AckIsIndexed, Handling
<1> QED
  BY <1>1, <1>4, <1>5 DEF OutboxInv

LEMMA OutboxStep == OutboxInv /\ [OutboxNext]_outboxVars => OutboxInv'
<1> SUFFICES ASSUME OutboxInv, [OutboxNext]_outboxVars
             PROVE  OutboxInv'
  OBVIOUS
<1>0. OutboxTypeOK'
  BY TypesKept DEF OutboxInv
<1>1. CASE \E c \in Claims : Commit(c)
  BY <1>0, <1>1, CommitKeeps
<1>2. CASE (\E i \in DOMAIN rows : Redact(i) \/ PlantMalformed(i) \/ RestoreRow(i))
           \/ RebuildPublicClaimFts
  BY <1>0, <1>2, OthersKeep
<1>3. CASE Select
  BY <1>0, <1>3, SelectKeeps
<1>4. CASE QuarantineMalformed \/ QuarantineSource
  BY <1>0, <1>4, QuarantineKeeps
<1>5. CASE RecordAttempt
  BY <1>0, <1>5, RecordAttemptKeeps
<1>6. CASE ReadSource
  BY <1>0, <1>6, ReadSourceKeeps
<1>7. CASE ApplyEffect
  BY <1>0, <1>7, ApplyEffectKeeps
<1>8. CASE Acknowledge \/ AcknowledgeThenCrash
  BY <1>0, <1>8, AcknowledgeKeeps
<1>9. CASE Nudge
  <2>1. CASE Handling
    BY <1>9, <2>1 DEF Nudge, Handling
  <2>2. CASE ~Handling
    BY <1>0, <1>9, <2>2, OffHand DEF Nudge, drainVars, Handling
  <2> QED
    BY <2>1, <2>2
<1>10. CASE AlarmFires \/ DrainNow
  BY <1>0, <1>10, OffHand DEF AlarmFires, DrainNow, Begin, Handling
<1>11. CASE DrainFails \/ Evict \/ HoldBeforeAck
  BY <1>0, <1>11, OffHand DEF DrainFails, Evict, HoldBeforeAck, EndDrain, Handling
<1>12. CASE Sweep \/ PersistCursor
  BY <1>0, <1>12, OffHand DEF Sweep, PersistCursor, Handling
<1>13. CASE Finish \/ EndWrap
  <2>1. UNCHANGED handoffVars /\ (EndDrain \/ (phase' = "wrapped" /\ UNCHANGED page))
    BY <1>13 DEF Finish, EndWrap
  <2> QED
    BY <1>0, <2>1, OffHand DEF EndDrain, Handling
<1>14. CASE UNCHANGED outboxVars
  <2>1. UNCHANGED <<rows, redacted, fts, phase, page>>
    BY <1>14 DEF outboxVars
  <2>2. DrainInv'
    BY <1>0, <2>1, InHandKept
  <2>3. DeliveredHeadIsIndexed' /\ OnlyBadRowsQuarantined'
    BY <2>1, HeadsStay DEF OutboxInv, DeliveredHeadIsIndexed, OnlyBadRowsQuarantined
  <2> QED
    BY <1>0, <2>2, <2>3 DEF OutboxInv
<1> QED
  BY <1>1, <1>2, <1>3, <1>4, <1>5, <1>6, <1>7, <1>8, <1>9, <1>10, <1>11, <1>12, <1>13, <1>14
     DEF OutboxNext, DrainStep, OutboxEnvironment

-----------------------------------------------------------------------------
(* A search beside the drain *)

SearchTypeOK ==
    /\ at \in {"start", "cursor", "backlog", "window", "page", "changed", "answered"}
    /\ upTo \in 0..Len(rows)
    /\ lag \in BOOLEAN
    /\ found \in [Claims -> 0..Len(rows)]

\* The head of the claim is one that the search covers, and has not been withdrawn.
Due(c) == HeadOf(c) \in 1..upTo /\ HeadOf(c) \notin redacted

\* An index that holds every head that the search covers.
Covered == \A c \in Claims : Due(c) => fts[c] = HeadOf(c)

\* A window that pins every such head.
Pinned == \A c \in Claims : Due(c) => found[c] = HeadOf(c)

\* The row about to be indexed is no older than what the search covers.
ApplyIsNewer ==
    phase = "apply" =>
        \A i \in 1..upTo : rows[i].claim = rows[Current.id].claim => i <= Current.id

SearchInv ==
    /\ OutboxInv
    /\ SearchTypeOK
    /\ at = "backlog" /\ ~lag => Covered /\ ApplyIsNewer
    /\ at \in {"window", "page", "answered"} /\ ~lag => Pinned

\* What a step of the outbox does to an index entry.
Reindexed(c) ==
    \/ fts'[c] = fts[c]
    \/ fts'[c] = HeadOf(c)
    \/ phase = "apply" /\ c = rows[Current.id].claim /\ fts'[c] = Current.id

\* Rows are only appended, withdrawals are never taken back, and an index entry changes only
\* to the claim's head or to the row in hand.
LEMMA OutboxGrows ==
    ASSUME OutboxInv, [OutboxNext]_outboxVars
    PROVE  /\ Len(rows) <= Len(rows') /\ DOMAIN rows \subseteq DOMAIN rows'
           /\ \A i \in DOMAIN rows : rows'[i].claim = rows[i].claim
           /\ redacted \subseteq redacted'
           /\ \A c \in Claims : Reindexed(c)
<1>0. rows \in Seq(Rows) /\ DOMAIN rows = 1..Len(rows) /\ Len(rows) \in Nat
  BY DEF OutboxInv, OutboxTypeOK
<1>1. CASE UNCHANGED handoffVars
  BY <1>0, <1>1 DEF handoffVars, Reindexed
<1>2. CASE \E c \in Claims : Commit(c)
  <2>1. PICK c \in Claims : rows' = Append(rows, Row(c)) /\ UNCHANGED <<redacted, fts>>
    BY <1>2 DEF Commit
  <2> QED
    BY <1>0, <2>1, RowAppended DEF Reindexed
<1>3. ASSUME NEW i \in DOMAIN rows, NEW state \in {"pending", "delivered", "quarantined"},
             \/ rows' = [rows EXCEPT ![i].sound = FALSE]
             \/ rows' = [rows EXCEPT ![i].state = state],
             UNCHANGED <<redacted, fts>>
      PROVE  /\ Len(rows) <= Len(rows') /\ DOMAIN rows \subseteq DOMAIN rows'
             /\ \A j \in DOMAIN rows : rows'[j].claim = rows[j].claim
             /\ redacted \subseteq redacted'
             /\ \A c \in Claims : Reindexed(c)
  <2>1. CASE rows' = [rows EXCEPT ![i].sound = FALSE]
    BY <1>0, <1>3, <2>1, RowCorrupted DEF Reindexed
  <2>2. CASE rows' = [rows EXCEPT ![i].state = state]
    BY <1>0, <1>3, <2>2, RowUpdated DEF Reindexed
  <2> QED
    BY <1>3, <2>1, <2>2
<1>4. CASE \E i \in DOMAIN rows : PlantMalformed(i) \/ RestoreRow(i)
  <2>1. PICK i \in DOMAIN rows : PlantMalformed(i) \/ RestoreRow(i)
    BY <1>4
  <2>2. /\ rows' = [rows EXCEPT ![i].sound = FALSE] \/ rows' = [rows EXCEPT ![i].state = "pending"]
        /\ UNCHANGED <<redacted, fts>>
    BY <2>1 DEF PlantMalformed, RestoreRow
  <2> QED
    BY <1>3, <2>2
<1>5. CASE \E i \in DOMAIN rows : Redact(i)
  BY <1>0, <1>5 DEF Redact, Reindexed
<1>6. CASE RebuildPublicClaimFts
  BY <1>0, <1>6 DEF RebuildPublicClaimFts, Reindexed
<1>7. ASSUME Quarantine \/ Acknowledge \/ AcknowledgeThenCrash, page # {}
      PROVE  /\ Len(rows) <= Len(rows') /\ DOMAIN rows \subseteq DOMAIN rows'
             /\ \A j \in DOMAIN rows : rows'[j].claim = rows[j].claim
             /\ redacted \subseteq redacted'
             /\ \A c \in Claims : Reindexed(c)
  <2>1. UNCHANGED <<redacted, fts>>
    BY <1>7 DEF Quarantine, Acknowledge, AcknowledgeThenCrash
  <2>2. \/ rows' = rows
        \/ rows' = [rows EXCEPT ![Current.id].state = "quarantined"]
        \/ rows' = [rows EXCEPT ![Current.id].state = "delivered"]
    BY <1>7 DEF Quarantine, Acknowledge, AcknowledgeThenCrash
  <2>3. Current.id \in DOMAIN rows
    BY <1>7, CurrentIsOfThePage DEF OutboxInv
  <2>4. CASE rows' = rows
    BY <1>1, <2>1, <2>4 DEF handoffVars
  <2>5. CASE rows' = [rows EXCEPT ![Current.id].state = "quarantined"]
    BY <1>3, <2>1, <2>3, <2>5
  <2>6. CASE rows' = [rows EXCEPT ![Current.id].state = "delivered"]
    BY <1>3, <2>1, <2>3, <2>6
  <2> QED
    BY <2>2, <2>4, <2>5, <2>6
<1>8. CASE QuarantineMalformed \/ QuarantineSource \/ Acknowledge \/ AcknowledgeThenCrash
  <2>1. (Quarantine \/ Acknowledge \/ AcknowledgeThenCrash) /\ page # {}
    BY <1>8 DEF QuarantineMalformed, QuarantineSource, Acknowledge, AcknowledgeThenCrash,
                OutboxInv, OutboxTypeOK, Handling
  <2> QED
    BY <1>7, <2>1
<1>9. CASE ApplyEffect
  <2>1. UNCHANGED <<rows, redacted>> /\ phase = "apply"
        /\ fts' = [fts EXCEPT ![rows[Current.id].claim] = Current.id]
    BY <1>9 DEF ApplyEffect
  <2>2. \A c \in Claims : Reindexed(c)
    BY <2>1 DEF Reindexed, OutboxInv, OutboxTypeOK
  <2> QED
    BY <1>0, <2>1, <2>2
<1>10. CASE Nudge \/ DrainNow \/ DrainFails \/ Evict \/ HoldBeforeAck \/ AlarmFires
            \/ Sweep \/ Select \/ RecordAttempt \/ ReadSource \/ PersistCursor \/ Finish \/ EndWrap
            \/ UNCHANGED outboxVars
  <2>1. UNCHANGED handoffVars
    BY <1>10 DEF Nudge, DrainNow, DrainFails, Evict, HoldBeforeAck, AlarmFires, Begin,
                 Sweep, Select, RecordAttempt, ReadSource, PersistCursor, Finish, EndWrap,
                 outboxVars, handoffVars
  <2> QED
    BY <1>1, <2>1
<1> QED
  BY <1>2, <1>4, <1>5, <1>6, <1>8, <1>9, <1>10 DEF OutboxNext, DrainStep, OutboxEnvironment

\* How a row comes to be the one that is indexed next.
LEMMA TakingInHand ==
    ASSUME [OutboxNext]_outboxVars, phase' = "apply"
    PROVE  \/ phase = "apply" /\ UNCHANGED page
           \/ ReadSource
<1>1. CASE UNCHANGED <<phase, page>>
  BY <1>1
<1>2. CASE OutboxEnvironment \/ UNCHANGED outboxVars
  <2>1. UNCHANGED <<phase, page>> \/ phase' = "idle" \/ phase' = "sweep"
    BY <1>2 DEF OutboxEnvironment, Commit, Redact, PlantMalformed, RestoreRow, RebuildPublicClaimFts,
                Nudge, DrainNow, Begin, DrainFails, Evict, HoldBeforeAck, AcknowledgeThenCrash,
                EndDrain, drainVars, outboxVars
  <2> QED
    BY <1>1, <2>1
<1>3. CASE AlarmFires
  BY <1>3 DEF AlarmFires, Begin
<1>4. CASE DrainStep
  <2>1. CASE Sweep \/ Select \/ RecordAttempt \/ ApplyEffect \/ PersistCursor
    BY <2>1 DEF Sweep, Select, RecordAttempt, ApplyEffect, PersistCursor
  <2>2. CASE QuarantineMalformed \/ QuarantineSource \/ Acknowledge
    BY <2>2 DEF QuarantineMalformed, QuarantineSource, Quarantine, Acknowledge, NextRow, EndDrain
  <2>3. CASE Finish \/ EndWrap
    BY <2>3 DEF Finish, EndWrap, EndDrain
  <2> QED
    BY <1>4, <2>1, <2>2, <2>3 DEF DrainStep
<1> QED
  BY <1>2, <1>3, <1>4 DEF OutboxNext

\* A head that the search covers afterwards was the head, and covered, before.
LEMMA DueBefore ==
    ASSUME SearchInv, [OutboxNext]_outboxVars, OutboxInv', upTo' = upTo,
           NEW c \in Claims, Due(c)'
    PROVE  Due(c) /\ HeadOf(c)' = HeadOf(c)
<1>1. /\ DOMAIN rows \subseteq DOMAIN rows' /\ redacted \subseteq redacted'
      /\ \A i \in DOMAIN rows : rows'[i].claim = rows[i].claim
  BY OutboxGrows DEF SearchInv
<1>2. /\ rows \in Seq(Rows) /\ rows' \in Seq(Rows)
      /\ DOMAIN rows = 1..Len(rows) /\ DOMAIN rows' = 1..Len(rows')
      /\ Len(rows) \in Nat /\ Len(rows') \in Nat /\ upTo \in 0..Len(rows)
  <2>1. rows \in Seq(Rows) /\ rows' \in Seq(Rows) /\ upTo \in 0..Len(rows)
    BY DEF SearchInv, SearchTypeOK, OutboxInv, OutboxTypeOK
  <2> QED
    BY <2>1
<1>3. PICK h : h = HeadOf(c)'
  OBVIOUS
<1>4. PICK g : g = HeadOf(c)
  OBVIOUS
<1>5. h \in 1..upTo /\ h \notin redacted'
  BY <1>3 DEF Due
<1>6. h \in DOMAIN rows /\ h # 0
  BY <1>2, <1>5
<1>7. rows'[h].claim = c /\ \A i \in DOMAIN rows' : rows'[i].claim = c => i <= h
  BY <1>2, <1>3, <1>6, NextHeadFacts
<1>8. rows[h].claim = c
  BY <1>1, <1>6, <1>7
<1>9. g \in 0..Len(rows) /\ h <= g /\ (g # 0 => g \in DOMAIN rows /\ rows[g].claim = c)
  BY <1>2, <1>4, <1>6, <1>8, HeadFacts
<1>10. g <= h
  BY <1>1, <1>2, <1>5, <1>7, <1>9
<1>11. g = h
  BY <1>2, <1>5, <1>9, <1>10
<1>12. h \notin redacted
  BY <1>1, <1>5
<1> QED
  BY <1>3, <1>4, <1>5, <1>11, <1>12 DEF Due

\* A covering index stays one, whatever the ledger and the drain do.
LEMMA CoverKept ==
    ASSUME SearchInv, [OutboxNext]_outboxVars, OutboxInv', UNCHANGED searchVars,
           at = "backlog", ~lag
    PROVE  Covered' /\ ApplyIsNewer'
<1>1. /\ Len(rows) <= Len(rows') /\ DOMAIN rows \subseteq DOMAIN rows'
      /\ \A i \in DOMAIN rows : rows'[i].claim = rows[i].claim
      /\ \A c \in Claims : Reindexed(c)
      /\ rows \in Seq(Rows)
  BY OutboxGrows DEF SearchInv, OutboxInv, OutboxTypeOK
<1>2. /\ upTo' = upTo /\ 1..upTo \subseteq DOMAIN rows /\ upTo \in Nat
      /\ Covered /\ ApplyIsNewer
  <2>1. upTo' = upTo /\ upTo \in 0..Len(rows) /\ rows \in Seq(Rows) /\ Covered /\ ApplyIsNewer
    BY DEF SearchInv, SearchTypeOK, searchVars, OutboxInv, OutboxTypeOK
  <2> QED
    BY <2>1
<1>3. Covered'
  <2> SUFFICES ASSUME NEW c \in Claims, Due(c)'
               PROVE  fts'[c] = HeadOf(c)'
    BY DEF Covered
  <2>1. Due(c) /\ HeadOf(c)' = HeadOf(c)
    BY <1>2, DueBefore
  <2>2. fts[c] = HeadOf(c)
    BY <1>2, <2>1 DEF Covered
  <2>3. ASSUME phase = "apply", c = rows[Current.id].claim
        PROVE  Current.id = HeadOf(c)
    <3>1. Current.id \in DOMAIN rows
      BY <2>3, CurrentIsOfThePage DEF SearchInv, OutboxInv, OutboxTypeOK, Handling
    <3>2. Current.id <= HeadOf(c) /\ HeadOf(c) \in Nat /\ Current.id \in Nat
      BY <1>1, <2>3, <3>1, HeadFacts
    <3>3. HeadOf(c) \in 1..upTo /\ rows[HeadOf(c)].claim = c
      BY <1>1, <2>1, HeadFacts DEF Due
    <3>4. HeadOf(c) <= Current.id
      BY <1>2, <2>3, <3>3 DEF ApplyIsNewer
    <3> QED
      BY <3>2, <3>4
  <2> QED
    BY <1>1, <2>1, <2>2, <2>3 DEF Reindexed
<1>4. ApplyIsNewer'
  <2> SUFFICES ASSUME phase' = "apply"
               PROVE  \A i \in 1..upTo : rows'[i].claim = rows'[Current'.id].claim => i <= Current'.id
    BY <1>2 DEF ApplyIsNewer
  <2>1. Handling /\ UNCHANGED page
    BY TakingInHand DEF ReadSource, Handling
  <2>2. Current' = Current /\ Current.id \in DOMAIN rows
    <3>1. page # {}
      BY <2>1 DEF SearchInv, OutboxInv, OutboxTypeOK
    <3> QED
      BY <2>1, <3>1, CurrentIsOfThePage DEF Current, SearchInv, OutboxInv
  <2>3. CASE phase = "apply"
    BY <1>1, <1>2, <2>2, <2>3 DEF ApplyIsNewer
  <2>4. CASE ReadSource
    <3>1. SourceOf(Current.id) = "valid"
      BY <2>4 DEF ReadSource
    <3>2. PICK d : d = rows[Current.id].claim
      OBVIOUS
    <3>3. d \in Claims /\ ~(Current.id < HeadOf(d))
      BY <3>1, <3>2 DEF SourceOf, Superseded
    <3>4. HeadOf(d) \in Nat /\ Current.id \in Nat /\ DOMAIN rows \subseteq Nat
      BY <1>1, <2>2, HeadFacts
    <3>5. \A i \in DOMAIN rows : rows[i].claim = d => i <= Current.id
      BY <1>1, <3>3, <3>4, HeadFacts
    <3> QED
      BY <1>1, <1>2, <2>2, <3>2, <3>5
  <2> QED
    BY <2>3, <2>4, TakingInHand
<1> QED
  BY <1>3, <1>4

\* With nothing undelivered every head is indexed, and no row is in hand.
LEMMA NoBacklogCovers ==
    ASSUME OutboxInv, SearchTypeOK, ~Backlog
    PROVE  Covered /\ ApplyIsNewer
<1>1. rows \in Seq(Rows) /\ 1..upTo \subseteq DOMAIN rows /\ \A i \in DOMAIN rows : rows[i].state = "delivered"
  BY DEF Backlog, OutboxInv, OutboxTypeOK, SearchTypeOK
<1>2. phase # "apply"
  <2> SUFFICES ASSUME phase = "apply"
               PROVE  FALSE
    OBVIOUS
  <2>1. page # {}
    BY DEF OutboxInv, OutboxTypeOK, Handling
  <2>2. Current.id \in DOMAIN rows /\ rows[Current.id].state = "pending"
    BY <2>1, CurrentIsOfThePage DEF OutboxInv, DrainInv, PageIsPending
  <2> QED
    BY <1>1, <2>2
<1>3. ASSUME NEW c \in Claims, Due(c)
      PROVE  fts[c] = HeadOf(c)
  <2>1. HeadOf(c) \in 1..upTo /\ HeadOf(c) \notin redacted
    BY <1>3 DEF Due
  <2>2. HeadOf(c) \in DOMAIN rows /\ HeadOf(c) # 0
    BY <1>1, <2>1
  <2> QED
    BY <1>1, <2>1, <2>2 DEF OutboxInv, DeliveredHeadIsIndexed
<1> QED
  BY <1>2, <1>3 DEF Covered, ApplyIsNewer

LEMMA InitialSearch == SearchInit => SearchInv
<1> SUFFICES ASSUME SearchInit
             PROVE  SearchInv
  OBVIOUS
<1>1. OutboxInv
  BY InitialOutbox DEF SearchInit
<1>2. 0 \in 0..Len(rows)
  BY <1>1 DEF OutboxInv, OutboxTypeOK
<1>3. at = "start" /\ SearchTypeOK
  BY <1>2 DEF SearchInit, SearchTypeOK
<1> QED
  BY <1>1, <1>3 DEF SearchInv

LEMMA SearchStep == SearchInv /\ [SearchNext]_searchingVars => SearchInv'
<1> SUFFICES ASSUME SearchInv, [SearchNext]_searchingVars
             PROVE  SearchInv'
  OBVIOUS
<1>1. CASE [OutboxNext]_outboxVars /\ UNCHANGED searchVars
  <2>1. OutboxInv'
    BY <1>1, OutboxStep DEF SearchInv
  <2>2. /\ Len(rows) <= Len(rows') /\ DOMAIN rows \subseteq DOMAIN rows'
        /\ \A i \in DOMAIN rows : rows'[i].claim = rows[i].claim
        /\ redacted \subseteq redacted' /\ redacted \subseteq DOMAIN rows
        /\ Len(rows) \in Nat /\ Len(rows') \in Nat /\ 1..upTo \subseteq DOMAIN rows
    <3>1. /\ rows \in Seq(Rows) /\ rows' \in Seq(Rows) /\ redacted \subseteq DOMAIN rows
          /\ upTo \in 0..Len(rows)
      BY <2>1 DEF SearchInv, SearchTypeOK, OutboxInv, OutboxTypeOK
    <3>2. DOMAIN rows = 1..Len(rows) /\ Len(rows) \in Nat /\ Len(rows') \in Nat
      BY <3>1
    <3>3. 1..upTo \subseteq DOMAIN rows
      BY <3>1, <3>2
    <3> QED
      BY <1>1, <3>1, <3>2, <3>3, OutboxGrows DEF SearchInv
  <2>3. SearchTypeOK'
    <3>1. 0..Len(rows) \subseteq 0..Len(rows')
      BY <2>2
    <3> QED
      BY <1>1, <3>1 DEF SearchInv, SearchTypeOK, searchVars
  <2>4. (at = "backlog" /\ ~lag => Covered /\ ApplyIsNewer)'
    BY <1>1, <2>1, CoverKept DEF searchVars
  <2>5. (at \in {"window", "page", "answered"} /\ ~lag => Pinned)'
    <3> SUFFICES ASSUME at \in {"window", "page", "answered"}, ~lag, NEW c \in Claims, Due(c)'
                 PROVE  found[c] = HeadOf(c)'
      BY <1>1 DEF Pinned, searchVars
    <3>1. Due(c) /\ HeadOf(c)' = HeadOf(c)
      BY <1>1, <2>1, DueBefore DEF searchVars
    <3> QED
      BY <3>1 DEF SearchInv, Pinned
  <2> QED
    BY <2>1, <2>3, <2>4, <2>5 DEF SearchInv
<1>2. CASE ExecuteSearch
  <2>1. UNCHANGED outboxVars
    BY <1>2 DEF ExecuteSearch
  <2>2. UNCHANGED <<rows, redacted, fts, phase, page>>
    BY <2>1 DEF outboxVars
  <2>3. OutboxInv'
    BY <2>1, OutboxStep DEF SearchInv
  <2>4. SearchTypeOK'
    <3>1. Len(rows) \in Nat /\ fts \in [Claims -> 0..Len(rows)]
      BY DEF SearchInv, OutboxInv, OutboxTypeOK
    <3>2. Len(rows) \in 0..Len(rows) /\ Backlog \in BOOLEAN
      BY <3>1 DEF Backlog
    <3>3. at' \in {"start", "cursor", "backlog", "window", "page", "changed", "answered"}
          /\ upTo' \in 0..Len(rows)
      BY <1>2, <3>2 DEF ExecuteSearch, ReadCursor, ReadBacklog, ReadSearchWindow, HydrateSearchPage,
                        RecheckWindow, SearchInv, SearchTypeOK
    <3>4. lag' \in BOOLEAN
      <4>1. lag' = lag \/ lag' = Backlog \/ lag' = TRUE
        BY <1>2 DEF ExecuteSearch, ReadCursor, ReadBacklog, ReadSearchWindow, HydrateSearchPage,
                    RecheckWindow
      <4>2. lag \in BOOLEAN
        BY DEF SearchInv, SearchTypeOK
      <4> QED
        BY <3>2, <4>1, <4>2, Zenon
    <3>5. found' \in [Claims -> 0..Len(rows)]
      BY <1>2, <3>1 DEF ExecuteSearch, ReadCursor, ReadBacklog, ReadSearchWindow, HydrateSearchPage,
                        RecheckWindow, SearchInv, SearchTypeOK
    <3> QED
      BY <2>2, <3>3, <3>4, <3>5 DEF SearchTypeOK
  <2>5. CASE ReadCursor
    BY <2>3, <2>4, <2>5 DEF ReadCursor, SearchInv
  <2>6. CASE ReadBacklog
    <3>1. at' = "backlog" /\ upTo' = upTo /\ (~lag' => ~Backlog)
      <4>1. lag' = Backlog \/ lag' = TRUE
        BY <2>6 DEF ReadBacklog
      <4>2. ~lag' => ~Backlog
        BY <4>1, Zenon
      <4> QED
        BY <2>6, <4>2 DEF ReadBacklog
    <3>2. ~lag' => Covered /\ ApplyIsNewer
      BY <3>1, NoBacklogCovers DEF SearchInv
    <3>3. ~lag' => Covered' /\ ApplyIsNewer'
      BY <2>2, <3>1, <3>2 DEF Covered, Due, HeadOf, ApplyIsNewer, Current
    <3> QED
      BY <2>3, <2>4, <3>1, <3>3 DEF SearchInv
  <2>7. CASE ReadSearchWindow
    <3>1. /\ at = "backlog" /\ at' = "window" /\ UNCHANGED <<upTo, lag>>
          /\ \A c \in Claims : found'[c] \in Listed(c)
      BY <2>7 DEF ReadSearchWindow
    <3>2. ASSUME ~lag, NEW c \in Claims, Due(c)
          PROVE  found'[c] = HeadOf(c)
      <4>1. fts[c] = HeadOf(c) /\ HeadOf(c) \in 1..upTo /\ HeadOf(c) \notin redacted
        BY <3>1, <3>2 DEF SearchInv, Covered, Due
      <4>2. fts[c] # 0
        BY <4>1 DEF SearchInv, SearchTypeOK
      <4>3. Listed(c) = {HeadOf(c)}
        BY <4>1, <4>2 DEF Listed
      <4> QED
        BY <3>1, <4>3
    <3>3. ~lag' => Pinned'
      BY <2>2, <3>1, <3>2 DEF Pinned, Due, HeadOf
    <3> QED
      BY <2>3, <2>4, <3>1, <3>3 DEF SearchInv
  <2>8. CASE HydrateSearchPage \/ RecheckWindow
    <3>1. /\ at \in {"window", "page"} /\ at' \in {"page", "changed", "answered"}
          /\ UNCHANGED <<upTo, lag, found>>
      BY <2>8 DEF HydrateSearchPage, RecheckWindow
    <3>2. ~lag' => Pinned'
      BY <2>2, <3>1 DEF SearchInv, Pinned, Due, HeadOf
    <3> QED
      BY <2>3, <2>4, <3>1, <3>2 DEF SearchInv
  <2> QED
    BY <1>2, <2>5, <2>6, <2>7, <2>8 DEF ExecuteSearch
<1>3. CASE UNCHANGED searchingVars
  BY <1>1, <1>3 DEF searchingVars
<1> QED
  BY <1>1, <1>2, <1>3 DEF SearchNext

-----------------------------------------------------------------------------
(* What the runs check, for every instance *)

LEMMA SearchIsInvariant == SearchSpec => []SearchInv
<1> QED
  BY InitialSearch, SearchStep, PTL DEF SearchSpec

(* Every variable of the drain and of a search keeps its type, and no cursor, wrap mark,    *)
(* tally, index entry or source_cursor runs ahead of the outbox rows there are.             *)
THEOREM OutboxAndSearchTypes == SearchSpec => [](OutboxTypeOK /\ SearchTypeOK)
<1>1. SearchInv => OutboxTypeOK /\ SearchTypeOK
  BY DEF SearchInv, OutboxInv
<1> QED
  BY <1>1, SearchIsInvariant, PTL

(* However a drain is interrupted and older rows are replayed, the delivered handoff of a   *)
(* claim's newest event is what public_claim_fts holds.                                     *)
THEOREM IndexFollowsTheHead == SearchSpec => []DeliveredHeadIsIndexed
<1>1. SearchInv => DeliveredHeadIsIndexed
  BY DEF SearchInv, OutboxInv
<1> QED
  BY <1>1, SearchIsInvariant, PTL

(* quarantine and acknowledge put every row where it belongs, although the row can change   *)
(* between the page's SELECT and the update.                                                *)
THEOREM QuarantineIsForBadRows == SearchSpec => []OnlyBadRowsQuarantined
<1>1. SearchInv => OnlyBadRowsQuarantined
  BY DEF SearchInv, OutboxInv
<1> QED
  BY <1>1, SearchIsInvariant, PTL

(* The reads of executeSearch are not atomic, and still a search that names no omission has  *)
(* found every claim last published before its cursor was read, unless it was withdrawn.     *)
THEOREM SearchNamesItsLag == SearchSpec => []NoSilentMiss
<1>1. SearchInv => NoSilentMiss
  BY DEF SearchInv, NoSilentMiss, Pinned, Due
<1> QED
  BY <1>1, SearchIsInvariant, PTL

-----------------------------------------------------------------------------
(* The alarm *)

\* The alarm is armed, or a drain that it started is under way.
Awake == alarm # "none" \/ source = "alarm"
RestIsQuiet == phase = "idle" => source = "none"

\* An empty page is read only where nothing is pending.
LEMMA EmptyPage ==
    ASSUME OutboxTypeOK, PendingRows(0, 0) = {}
    PROVE  Pending = {}
<1>1. Pending \in SUBSET Nat /\ \A i \in Pending : i > 0
  BY DEF OutboxTypeOK, Pending
<1> SUFFICES ASSUME Pending # {} PROVE FALSE
  OBVIOUS
<1>2. PICK m \in Pending : \A n \in Pending : m <= n
  BY <1>1, LeastNatural
<1> DEFINE S == {i \in Pending : i > 0 /\ (0 # 0 => i <= 0)}
<1>3. m \in S /\ {j \in S : j < m} = {}
  <2>1. m \in Nat /\ m > 0
    BY <1>1
  <2>2. \A j \in S : j \in Nat /\ m <= j
    BY <1>1, <1>2
  <2>3. m \in S
    BY <2>1
  <2> HIDE DEF S
  <2>4. ASSUME NEW j \in S PROVE ~ (j < m)
    BY <2>1, <2>2
  <2> QED
    BY <2>3, <2>4
<1>4. Cardinality({j \in S : j < m}) = 0
  BY <1>3, FS_EmptySet
<1>5. m \in FirstOf(DrainBatch, S)
  BY <1>3, <1>4, OutboxConstants DEF FirstOf
<1> QED
  BY <1>5 DEF PendingRows

\* A drain that ends, ends with its alarm armed, or leaves the one that is.
LEMMA ArmAgain ==
    ASSUME NEW which \in {"hot", "idle"}, Arm(which)
    PROVE  /\ Awake => alarm' # "none"
           /\ alarm' = "idle" => which = "idle" \/ alarm = "idle"
BY DEF Arm, Awake

\* What a step of the drainer does to the alarm.
AlarmKept ==
    /\ RestIsQuiet => RestIsQuiet'
    /\ RestIsQuiet /\ Awake => Awake'
    /\ alarm' = "idle" => alarm = "idle" \/ Pending = {}

LEMMA FinishKeepsAlarm == OutboxTypeOK /\ (Finish \/ EndWrap) => AlarmKept
<1> SUFFICES ASSUME OutboxTypeOK, Finish \/ EndWrap PROVE AlarmKept
  OBVIOUS
<1>1. IdleAlarm \in {"hot", "idle"}
  BY DEF IdleAlarm
<1>2. ASSUME EndDrain, NEW which \in {"hot", "idle"}, Arm(which), which = "idle" => Pending = {}
      PROVE  AlarmKept
  BY <1>2, ArmAgain DEF EndDrain, AlarmKept, RestIsQuiet, Awake
<1>3. CASE EndWrap
  BY <1>1, <1>2, <1>3 DEF EndWrap
<1>4. CASE Finish
  <2>1. CASE Arm("hot") /\ EndDrain
    BY <1>2, <2>1
  <2>2. CASE Arm(IdleAlarm) /\ EndDrain /\ wrap = 0 /\ scanAfter = 0 /\ PendingRows(scanAfter, wrap) = {}
    BY <1>1, <1>2, <2>2, EmptyPage
  <2>3. CASE phase' = "wrapped" /\ UNCHANGED <<alarm, source>>
    BY <2>3 DEF AlarmKept, RestIsQuiet, Awake
  <2> QED
    BY <1>4, <2>1, <2>2, <2>3 DEF Finish
<1> QED
  BY <1>3, <1>4

LEMMA AlarmStep == OutboxTypeOK /\ [SearchNext]_searchingVars => AlarmKept
<1> SUFFICES ASSUME OutboxTypeOK, [SearchNext]_searchingVars PROVE AlarmKept
  OBVIOUS
<1> USE DEF AlarmKept, RestIsQuiet, Awake
<1>1. CASE UNCHANGED <<alarm, source, phase>>
  BY <1>1
<1>2. CASE AlarmFires \/ DrainNow
  BY <1>2 DEF AlarmFires, DrainNow, Begin
<1>3. CASE Nudge
  BY <1>3 DEF Nudge, drainVars
<1>4. CASE DrainFails \/ Evict \/ HoldBeforeAck \/ AcknowledgeThenCrash
  BY <1>4 DEF DrainFails, Evict, HoldBeforeAck, AcknowledgeThenCrash, EndDrain
<1>5. CASE Sweep \/ Select \/ RecordAttempt \/ ReadSource \/ ApplyEffect \/ PersistCursor
  BY <1>5 DEF Sweep, Select, RecordAttempt, ReadSource, ApplyEffect, PersistCursor
<1>6. CASE QuarantineMalformed \/ QuarantineSource
  BY <1>6 DEF QuarantineMalformed, QuarantineSource, Quarantine, NextRow
<1>7. CASE Acknowledge
  BY <1>7 DEF Acknowledge, NextRow, EndDrain
<1>8. CASE Finish \/ EndWrap
  BY <1>8, FinishKeepsAlarm
<1>9. CASE (\E c \in Claims : Commit(c)) \/ (\E i \in DOMAIN rows : Redact(i) \/ PlantMalformed(i) \/ RestoreRow(i))
           \/ RebuildPublicClaimFts
  BY <1>1, <1>9 DEF Commit, Redact, PlantMalformed, RestoreRow, RebuildPublicClaimFts, drainVars
<1>10. CASE ExecuteSearch \/ UNCHANGED searchingVars
  BY <1>1, <1>10 DEF ExecuteSearch, searchingVars, outboxVars
<1> QED
  BY <1>2, <1>3, <1>4, <1>5, <1>6, <1>7, <1>8, <1>9, <1>10
     DEF SearchNext, OutboxNext, DrainStep, OutboxEnvironment

(* Once a nudge has armed the alarm, there is always an alarm to come or a drain that arms   *)
(* the next one: no failed drain, eviction, lost acknowledgement or death between the        *)
(* storage writes and setAlarm leaves the singleton asleep (outbox-do.ts, alarm and drain).  *)
THEOREM DrainerStaysAwake == SearchSpec => [](Awake => []Awake)
<1>1. SearchInit => RestIsQuiet
  BY DEF SearchInit, OutboxInit, RestIsQuiet
<1>2. SearchInv => OutboxTypeOK
  BY DEF SearchInv, OutboxInv
<1>3. SearchInv /\ RestIsQuiet /\ [SearchNext]_searchingVars => RestIsQuiet' /\ (Awake => Awake')
  BY <1>2, AlarmStep DEF AlarmKept
<1> QED
  BY <1>1, <1>3, SearchIsInvariant, PTL DEF SearchSpec

(* The drainer falls back to the five-minute alarm only in a state in which no row of the    *)
(* outbox is pending, wherever its cursor and its wrapped interval stand (Finish, EndWrap).  *)
THEOREM QuietMeansDrained == SearchSpec => [][alarm # "idle" /\ alarm' = "idle" => Pending = {}]_searchingVars
<1>1. SearchInv /\ [SearchNext]_searchingVars => (alarm # "idle" /\ alarm' = "idle" => Pending = {})
  BY AlarmStep DEF AlarmKept, SearchInv, OutboxInv
<1> QED
  BY <1>1, SearchIsInvariant, PTL DEF SearchSpec
=============================================================================
