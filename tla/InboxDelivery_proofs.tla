------------------------ MODULE InboxDelivery_proofs ------------------------
(***************************************************************************)
(* Proofs about InboxDelivery: nobody whom the cursor of a job has passed  *)
(* was skipped, a client that polls misses no notice, a pass notifies only *)
(* who qualifies, and no stale pass undoes progress.                       *)
(***************************************************************************)
EXTENDS InboxDelivery, FiniteSetTheorems, SequenceTheorems, TLAPS

-----------------------------------------------------------------------------
(* Sets of numbers *)

\* A set of natural numbers has a least element.
LEMMA LeastNatural ==
    ASSUME NEW S \in SUBSET Nat, S # {}
    PROVE  \E m \in S : \A n \in S : m <= n
<1>1. PICK m \in S : \A n \in S : <<n, m>> \notin OpToRel(<, Nat)
  BY NatLessThanWellFounded, WFMin
<1>2. ASSUME NEW n \in S
      PROVE  m <= n
  <2>1. m \in Nat /\ n \in Nat
    OBVIOUS
  <2>2. ~ (n < m)
    BY <1>1, <2>1 DEF OpToRel
  <2> QED
    BY <2>1, <2>2
<1> QED
  BY <1>2

\* A finite set of natural numbers has a greatest element: a smallest subset
\* without one would have one when it loses an element.
LEMMA GreatestNatural ==
    ASSUME NEW S \in SUBSET Nat, IsFiniteSet(S), S # {}
    PROVE  Max(S) \in S /\ \A n \in S : n <= Max(S)
<1> DEFINE Topped(R) == \E m \in R : \A n \in R : n <= m
           Bad == {R \in SUBSET S : R # {} /\ ~Topped(R)}
<1>1. ASSUME NEW R \in SUBSET S
      PROVE  IsFiniteSet(R) /\ Cardinality(R) \in Nat
  BY FS_Subset, FS_CardinalityType
<1>2. Bad = {}
  <2> SUFFICES ASSUME Bad # {} PROVE FALSE
    OBVIOUS
  <2> DEFINE Sizes == {Cardinality(R) : R \in Bad}
  <2>1. Sizes \in SUBSET Nat /\ Sizes # {}
    BY <1>1
  <2>2. PICK m \in Sizes : \A n \in Sizes : m <= n
    BY <2>1, LeastNatural
  <2>3. PICK R \in Bad : m = Cardinality(R)
    BY <2>2
  <2>4. PICK x \in R : TRUE
    OBVIOUS
  <2>5. /\ IsFiniteSet(R) /\ Cardinality(R) \in Nat
        /\ Cardinality(R \ {x}) = Cardinality(R) - 1
    BY <1>1, <2>4, FS_RemoveElement
  <2>6. R \ {x} \notin Bad
    <3> SUFFICES ASSUME R \ {x} \in Bad PROVE FALSE
      OBVIOUS
    <3>1. Cardinality(R \ {x}) \in Sizes
      OBVIOUS
    <3> HIDE DEF Sizes, Bad
    <3> QED
      BY <2>2, <2>3, <2>5, <3>1
  <2>7. CASE R \ {x} = {}
    <3>1. \A n \in R : n = x
      BY <2>7
    <3>2. x \in Nat
      BY <2>4
    <3> QED
      BY <2>4, <3>1, <3>2
  <2>8. CASE R \ {x} # {}
    <3>1. PICK y \in R \ {x} : \A n \in R \ {x} : n <= y
      BY <2>6, <2>8
    <3>2. x \in Nat /\ y \in Nat /\ \A n \in R : n \in Nat
      BY <2>4, <3>1
    <3>3. CASE x <= y
      <4>1. \A n \in R : n <= y
        BY <3>1, <3>2, <3>3
      <4> QED
        BY <3>1, <4>1
    <3>4. CASE y <= x
      <4>1. \A n \in R : n <= x
        BY <3>1, <3>2, <3>4
      <4> QED
        BY <2>4, <4>1
    <3> QED
      BY <3>2, <3>3, <3>4
  <2> QED
    BY <2>7, <2>8
<1>3. PICK m \in S : \A n \in S : n <= m
  BY <1>2
<1>4. \A n \in S : m >= n
  <2>1. m \in Nat /\ \A n \in S : n \in Nat
    OBVIOUS
  <2> QED
    BY <1>3, <2>1
<1>5. Max(S) \in S /\ \A n \in S : Max(S) >= n
  BY <1>4 DEF Max
<1> QED
  BY <1>5

-----------------------------------------------------------------------------
(* Sequences *)

LEMMA RemoveAtFacts ==
    ASSUME NEW S, NEW s \in Seq(S), NEW k \in 1..Len(s)
    PROVE  /\ RemoveAt(s, k) \in Seq(S)
           /\ Len(RemoveAt(s, k)) = Len(s) - 1
           /\ \A j \in 1..(Len(s) - 1) : RemoveAt(s, k)[j] = IF j < k THEN s[j] ELSE s[j + 1]
<1> DEFINE a == SubSeq(s, 1, k - 1)
           b == SubSeq(s, k + 1, Len(s))
<1>1. Len(s) \in Nat /\ \A i \in 1..Len(s) : s[i] \in S
  OBVIOUS
<1>2. a \in Seq(S) /\ Len(a) = k - 1 /\ \A i \in 1..(k - 1) : a[i] = s[i]
  BY <1>1, SubSeqProperties
<1>3. b \in Seq(S) /\ Len(b) = Len(s) - k /\ \A i \in 1..(Len(s) - k) : b[i] = s[i + k]
  BY <1>1, SubSeqProperties
<1> HIDE DEF a, b
<1>4. RemoveAt(s, k) = a \o b
  BY DEF RemoveAt, a, b
<1>5. /\ a \o b \in Seq(S) /\ Len(a \o b) = Len(s) - 1
      /\ \A i \in 1..(Len(s) - 1) : (a \o b)[i] = IF i <= Len(a) THEN a[i] ELSE b[i - Len(a)]
  <2>1. /\ a \o b \in Seq(S) /\ Len(a \o b) = Len(a) + Len(b)
        /\ \A i \in 1..(Len(a) + Len(b)) : (a \o b)[i] = IF i <= Len(a) THEN a[i] ELSE b[i - Len(a)]
    BY <1>2, <1>3, ConcatProperties
  <2>2. Len(a) + Len(b) = Len(s) - 1
    BY <1>1, <1>2, <1>3
  <2> QED
    BY <2>1, <2>2
<1>6. ASSUME NEW j \in 1..(Len(s) - 1)
      PROVE  (a \o b)[j] = IF j < k THEN s[j] ELSE s[j + 1]
  <2>1. CASE j < k
    BY <1>1, <1>2, <1>5, <2>1
  <2>2. CASE ~(j < k)
    <3>1. j - (k - 1) \in 1..(Len(s) - k) /\ j - (k - 1) + k = j + 1
      BY <1>1, <2>2
    <3>2. b[j - (k - 1)] = s[j + 1]
      BY <1>3, <3>1
    <3> QED
      BY <1>1, <1>2, <1>5, <2>2, <3>2
  <2> QED
    BY <2>1, <2>2
<1> QED
  BY <1>4, <1>5, <1>6

LEMMA InsertAtFacts ==
    ASSUME NEW S, NEW s \in Seq(S), NEW k \in 1..Len(s), NEW x \in S
    PROVE  /\ InsertAt(s, k, x) \in Seq(S)
           /\ Len(InsertAt(s, k, x)) = Len(s) + 1
           /\ \A j \in 1..(Len(s) + 1) :
                 InsertAt(s, k, x)[j] = IF j < k THEN s[j] ELSE IF j = k THEN x ELSE s[j - 1]
<1> DEFINE a == SubSeq(s, 1, k - 1)
           b == SubSeq(s, k, Len(s))
<1>1. Len(s) \in Nat /\ \A i \in 1..Len(s) : s[i] \in S
  OBVIOUS
<1>2. a \in Seq(S) /\ Len(a) = k - 1 /\ \A i \in 1..(k - 1) : a[i] = s[i]
  BY <1>1, SubSeqProperties
<1>3. b \in Seq(S) /\ Len(b) = Len(s) - k + 1 /\ \A i \in 1..(Len(s) - k + 1) : b[i] = s[i + k - 1]
  BY <1>1, SubSeqProperties
<1> HIDE DEF a, b
<1> DEFINE c == a \o <<x>>
<1>4. /\ c \in Seq(S) /\ Len(c) = k
      /\ \A i \in 1..k : c[i] = IF i <= Len(a) THEN a[i] ELSE <<x>>[i - Len(a)]
  <2>1. <<x>> \in Seq(S) /\ Len(<<x>>) = 1 /\ <<x>>[1] = x
    OBVIOUS
  <2> QED
    BY <1>1, <1>2, <2>1, ConcatProperties
<1>5. c[k] = x /\ \A i \in 1..(k - 1) : c[i] = s[i]
  <2>1. k - Len(a) = 1 /\ ~(k <= Len(a)) /\ k \in 1..k
    BY <1>2
  <2>2. c[k] = x
    BY <1>4, <2>1
  <2>3. \A i \in 1..(k - 1) : i \in 1..k /\ i <= Len(a)
    BY <1>2
  <2> QED
    BY <1>2, <1>4, <2>2, <2>3
<1> HIDE DEF c
<1>6. InsertAt(s, k, x) = c \o b
  BY DEF InsertAt, a, b, c
<1>7. /\ c \o b \in Seq(S) /\ Len(c \o b) = Len(s) + 1
      /\ \A i \in 1..(Len(s) + 1) : (c \o b)[i] = IF i <= Len(c) THEN c[i] ELSE b[i - Len(c)]
  <2>1. /\ c \o b \in Seq(S) /\ Len(c \o b) = Len(c) + Len(b)
        /\ \A i \in 1..(Len(c) + Len(b)) : (c \o b)[i] = IF i <= Len(c) THEN c[i] ELSE b[i - Len(c)]
    BY <1>3, <1>4, ConcatProperties
  <2>2. Len(c) + Len(b) = Len(s) + 1
    BY <1>1, <1>3, <1>4
  <2> QED
    BY <2>1, <2>2
<1>8. ASSUME NEW j \in 1..(Len(s) + 1)
      PROVE  (c \o b)[j] = IF j < k THEN s[j] ELSE IF j = k THEN x ELSE s[j - 1]
  <2>1. CASE j <= k
    BY <1>1, <1>4, <1>5, <1>7, <2>1
  <2>2. CASE ~(j <= k)
    <3>1. j - k \in 1..(Len(s) - k + 1) /\ j - k + k - 1 = j - 1
      BY <1>1, <2>2
    <3>2. b[j - k] = s[j - 1]
      BY <1>3, <3>1
    <3> QED
      BY <1>1, <1>4, <1>7, <2>2, <3>2
  <2> QED
    BY <2>1, <2>2
<1> QED
  BY <1>6, <1>7, <1>8

-----------------------------------------------------------------------------
(* The invariants *)

(* The queue holds every pending job and every running pass, each once.      *)
QueueIsExact ==
    /\ Range(line) = {e \in Events : job[e].state = "pending"} \cup {p \in Passes : passes[p].at # "idle"}
    /\ IsInjective(line)

(* Nothing is known of an event that is not on the ledger.                   *)
NothingPrecedesItsEvent ==
    /\ IsFiniteSet(Published)
    /\ \A e \in Events : source[e] = "absent" => job[e] = NoJob /\ ~writer[e].due /\ writer[e].left = {}
    /\ \A p \in Passes : \A s \in passes[p].jobs : source[s.event] # "absent"
    /\ \A f \in Fellows : \A n \in inbox[f] : source[n.event] # "absent"

(* An inbox is numbered without a gap, and tells of an event once.  No       *)
(* client's cursor is ahead of it.                                           *)
InboxesAreInOrder ==
    \A f \in Fellows :
        /\ IsFiniteSet(inbox[f])
        /\ {n.seq : n \in inbox[f]} = 1..(NextSeq(f) - 1)
        /\ \A m, n \in inbox[f] : m.seq = n.seq \/ m.event = n.event => m = n
        /\ readers[f].cursor < NextSeq(f)

(* The page that a pass holds has all long-standing recipients behind the    *)
(* cursor it found, or those before anyone it leaves for the next page.      *)
PagesAreSound ==
    \A p \in Passes : At(p, "page") =>
        \A f \in Fellows :
            LongStanding(f, Snap(p).event) /\ f > Snap(p).after =>
                \/ f \in passes[p].page
                \/ passes[p].more /\ \A g \in passes[p].page : g < f

InboxInv ==
    /\ TypeOK
    /\ QueueIsExact
    /\ NothingPrecedesItsEvent
    /\ InboxesAreInOrder
    /\ PagesAreSound
    /\ NobodySkipped
    /\ PollsMissNothing

-----------------------------------------------------------------------------
(* The queue *)

LEMMA WithoutFacts ==
    ASSUME NEW S, line \in Seq(S), IsInjective(line), NEW x \in Range(line)
    PROVE  /\ Without(x) \in Seq(S)
           /\ IsInjective(Without(x))
           /\ Range(Without(x)) = Range(line) \ {x}
<1> DEFINE k == CHOOSE i \in DOMAIN line : line[i] = x
           r == RemoveAt(line, k)
<1>1. Len(line) \in Nat /\ DOMAIN line = 1..Len(line)
  OBVIOUS
<1>2. k \in 1..Len(line) /\ line[k] = x
  BY <1>1 DEF Range
<1> HIDE DEF k
<1>3. /\ r \in Seq(S) /\ Len(r) = Len(line) - 1
      /\ \A j \in 1..(Len(line) - 1) : r[j] = IF j < k THEN line[j] ELSE line[j + 1]
  BY <1>2, RemoveAtFacts
<1> HIDE DEF r
<1>4. DOMAIN r = 1..(Len(line) - 1)
  BY <1>3
<1>5. \A i, j \in 1..Len(line) : line[i] = line[j] => i = j
  BY <1>1 DEF IsInjective
<1>6. IsInjective(r)
  <2> SUFFICES ASSUME NEW i \in 1..(Len(line) - 1), NEW j \in 1..(Len(line) - 1), r[i] = r[j]
               PROVE  i = j
    BY <1>4 DEF IsInjective
  <2> DEFINE old(n) == IF n < k THEN n ELSE n + 1
  <2>1. old(i) \in 1..Len(line) /\ old(j) \in 1..Len(line)
    BY <1>1, <1>2
  <2>2. r[i] = line[old(i)] /\ r[j] = line[old(j)]
    BY <1>3
  <2>3. old(i) = old(j)
    BY <1>5, <2>1, <2>2
  <2> QED
    BY <1>2, <2>3
<1>7. Range(r) \subseteq Range(line) \ {x}
  <2> SUFFICES ASSUME NEW j \in 1..(Len(line) - 1)
               PROVE  r[j] \in Range(line) /\ r[j] # x
    BY <1>4 DEF Range
  <2> DEFINE old == IF j < k THEN j ELSE j + 1
  <2>1. old \in 1..Len(line) /\ old # k
    BY <1>1, <1>2
  <2>2. r[j] = line[old]
    BY <1>3
  <2> QED
    BY <1>1, <1>2, <1>5, <2>1, <2>2 DEF Range
<1>8. Range(line) \ {x} \subseteq Range(r)
  <2> SUFFICES ASSUME NEW i \in 1..Len(line), line[i] # x
               PROVE  \E j \in 1..(Len(line) - 1) : r[j] = line[i]
    BY <1>1, <1>4 DEF Range
  <2>1. i # k
    BY <1>2
  <2>2. CASE i < k
    <3>1. i \in 1..(Len(line) - 1) /\ r[i] = line[i]
      BY <1>1, <1>2, <1>3, <2>2
    <3> QED
      BY <3>1
  <2>3. CASE i > k
    <3>1. i - 1 \in 1..(Len(line) - 1) /\ ~(i - 1 < k) /\ (i - 1) + 1 = i
      BY <1>1, <1>2, <2>3
    <3>2. r[i - 1] = line[i]
      BY <1>3, <3>1
    <3> QED
      BY <3>1, <3>2
  <2> QED
    BY <1>1, <1>2, <2>1, <2>2, <2>3
<1>9. Without(x) = r
  BY DEF Without, r, k
<1> QED
  BY <1>3, <1>6, <1>7, <1>8, <1>9

\* A job that is stamped stays in the queue.
LEMMA StampedFacts ==
    ASSUME NEW S, line \in Seq(S), IsInjective(line),
           NEW e \in Range(line), NEW p \in Range(line), e # p
    PROVE  /\ Stamped(e, p) \in Seq(S)
           /\ IsInjective(Stamped(e, p))
           /\ Range(Stamped(e, p)) = Range(line)
<1> DEFINE rest == Without(e)
           k == CHOOSE i \in 1..Len(rest) : rest[i] = p
           t == InsertAt(rest, k, e)
<1>1. rest \in Seq(S) /\ IsInjective(rest) /\ Range(rest) = Range(line) \ {e}
  BY WithoutFacts
<1>2. e \in S
  <2>1. \A i \in DOMAIN line : line[i] \in S
    OBVIOUS
  <2> QED
    BY <2>1 DEF Range
<1> HIDE DEF rest
<1>3. Len(rest) \in Nat /\ DOMAIN rest = 1..Len(rest)
  BY <1>1
<1>4. k \in 1..Len(rest)
  <2>1. p \in Range(rest)
    BY <1>1
  <2>2. \E i \in 1..Len(rest) : rest[i] = p
    BY <1>3, <2>1 DEF Range
  <2> QED
    BY <2>2
<1> HIDE DEF k
<1>5. /\ t \in Seq(S) /\ Len(t) = Len(rest) + 1
      /\ \A j \in 1..(Len(rest) + 1) :
            t[j] = IF j < k THEN rest[j] ELSE IF j = k THEN e ELSE rest[j - 1]
  BY <1>1, <1>2, <1>4, InsertAtFacts
<1> HIDE DEF t
<1>6. DOMAIN t = 1..(Len(rest) + 1)
  BY <1>5
<1>7. \A i, j \in 1..Len(rest) : rest[i] = rest[j] => i = j
  BY <1>1, <1>3 DEF IsInjective
<1>8. \A i \in 1..Len(rest) : rest[i] \in Range(line) /\ rest[i] # e
  BY <1>1, <1>3 DEF Range
<1>9. IsInjective(t)
  <2> SUFFICES ASSUME NEW i \in 1..(Len(rest) + 1), NEW j \in 1..(Len(rest) + 1), t[i] = t[j]
               PROVE  i = j
    BY <1>6 DEF IsInjective
  <2> DEFINE old(n) == IF n < k THEN n ELSE n - 1
  <2>1. i # k => old(i) \in 1..Len(rest) /\ t[i] = rest[old(i)]
    BY <1>3, <1>4, <1>5
  <2>2. j # k => old(j) \in 1..Len(rest) /\ t[j] = rest[old(j)]
    BY <1>3, <1>4, <1>5
  <2>3. t[k] = e
    BY <1>3, <1>4, <1>5
  <2>4. CASE i = k \/ j = k
    BY <1>8, <2>1, <2>2, <2>3, <2>4
  <2>5. CASE i # k /\ j # k
    <3>1. old(i) = old(j)
      BY <1>7, <2>1, <2>2, <2>5
    <3> QED
      BY <1>4, <2>5, <3>1
  <2> QED
    BY <2>4, <2>5
<1>10. Range(t) \subseteq Range(line)
  <2> SUFFICES ASSUME NEW j \in 1..(Len(rest) + 1) PROVE t[j] \in Range(line)
    BY <1>6 DEF Range
  <2>1. CASE j = k
    BY <1>5, <2>1
  <2>2. CASE j < k
    BY <1>3, <1>4, <1>5, <1>8, <2>2
  <2>3. CASE j > k
    <3>1. j - 1 \in 1..Len(rest) /\ t[j] = rest[j - 1]
      BY <1>3, <1>4, <1>5, <2>3
    <3> QED
      BY <1>8, <3>1
  <2> QED
    BY <1>4, <2>1, <2>2, <2>3
<1>11. Range(line) \subseteq Range(t)
  <2>1. e \in Range(t)
    <3>1. k \in 1..(Len(rest) + 1) /\ t[k] = e
      BY <1>3, <1>4, <1>5
    <3> QED
      BY <1>6, <3>1 DEF Range
  <2>2. ASSUME NEW i \in 1..Len(rest) PROVE rest[i] \in Range(t)
    <3>1. CASE i < k
      <4>1. i \in 1..(Len(rest) + 1) /\ t[i] = rest[i]
        BY <1>3, <1>4, <1>5, <3>1
      <4> QED
        BY <1>6, <4>1 DEF Range
    <3>2. CASE ~(i < k)
      <4>1. i + 1 \in 1..(Len(rest) + 1) /\ ~(i + 1 < k) /\ i + 1 # k /\ (i + 1) - 1 = i
        BY <1>3, <1>4, <3>2
      <4>2. t[i + 1] = rest[i]
        BY <1>5, <4>1
      <4> QED
        BY <1>6, <4>1, <4>2 DEF Range
    <3> QED
      BY <3>1, <3>2
  <2>3. Range(rest) \subseteq Range(t)
    BY <1>3, <2>2 DEF Range
  <2> QED
    BY <1>1, <2>1, <2>3
<1>12. Stamped(e, p) = t
  BY DEF Stamped, t, k, rest
<1> QED
  BY <1>5, <1>9, <1>10, <1>11, <1>12

LEMMA AppendFacts ==
    ASSUME NEW S, line \in Seq(S), IsInjective(line), NEW x \in S, x \notin Range(line)
    PROVE  /\ Append(line, x) \in Seq(S)
           /\ IsInjective(Append(line, x))
           /\ Range(Append(line, x)) = Range(line) \cup {x}
<1> DEFINE t == Append(line, x)
<1>1. Len(line) \in Nat /\ DOMAIN line = 1..Len(line)
  OBVIOUS
<1>2. /\ t \in Seq(S) /\ DOMAIN t = 1..(Len(line) + 1)
      /\ \A i \in 1..(Len(line) + 1) : t[i] = IF i = Len(line) + 1 THEN x ELSE line[i]
  OBVIOUS
<1> HIDE DEF t
<1>3. \A i, j \in 1..Len(line) : line[i] = line[j] => i = j
  BY <1>1 DEF IsInjective
<1>4. \A i \in 1..Len(line) : line[i] # x /\ line[i] \in Range(line)
  BY <1>1 DEF Range
<1>5. IsInjective(t)
  BY <1>1, <1>2, <1>3, <1>4 DEF IsInjective
<1>6. Range(t) \subseteq Range(line) \cup {x}
  BY <1>1, <1>2, <1>4 DEF Range
<1>7. x \in Range(t) /\ \A i \in 1..Len(line) : line[i] \in Range(t)
  <2>1. Len(line) + 1 \in DOMAIN t /\ t[Len(line) + 1] = x
    BY <1>1, <1>2
  <2>2. \A i \in 1..Len(line) : i \in DOMAIN t /\ t[i] = line[i]
    BY <1>1, <1>2
  <2> QED
    BY <2>1, <2>2 DEF Range
<1>8. Range(line) \subseteq Range(t)
  BY <1>1, <1>7 DEF Range
<1> QED
  BY <1>2, <1>5, <1>6, <1>7, <1>8 DEF t

-----------------------------------------------------------------------------
(* What the steps are made of *)

Notices == [seq : Nat \ {0}, event : Events, acked : BOOLEAN]
Snapshots == [place : 1..JobLimit, event : Events, after : Fellows \cup {0}, redacted : BOOLEAN]
Doings ==
    [at : {"idle", "job", "gone", "template", "page", "failed"}, jobs : SUBSET Snapshots,
     page : SUBSET Fellows, more : BOOLEAN]

\* The job at hand is one that the pass picked.
LEMMA SnapFacts ==
    ASSUME TypeOK, NEW p \in Passes, passes[p].jobs # {}
    PROVE  /\ Snap(p) \in passes[p].jobs /\ Snap(p) \in Snapshots
           /\ Snap(p).event \in Events /\ Snap(p).after \in Fellows \cup {0}
<1> DEFINE jobs == passes[p].jobs
           places == {s.place : s \in jobs}
<1>1. jobs \subseteq Snapshots
  BY DEF TypeOK, Snapshots
<1>2. places \in SUBSET Nat /\ places # {}
  BY <1>1, InboxConstants DEF Snapshots
<1>3. PICK m \in places : \A n \in places : m <= n
  BY <1>2, LeastNatural
<1>4. \E s \in jobs : \A t \in jobs : s.place <= t.place
  BY <1>3
<1>5. Snap(p) \in jobs
  BY <1>4 DEF Snap
<1> QED
  BY <1>1, <1>5 DEF Snapshots

\* A pending job has a place in the queue.
LEMMA PlaceFacts ==
    ASSUME NEW i \in Pending, TypeOK
    PROVE  Place(i) \in Nat \ {0}
<1> DEFINE S == {j \in 1..i : line[j] \in Events}
<1>1. i \in Nat \ {0} /\ line[i] \in Events
  BY DEF Pending, TypeOK
<1>2. IsFiniteSet(1..i)
  BY <1>1, FS_Interval
<1>3. IsFiniteSet(S) /\ Cardinality(S) \in Nat
  BY <1>2, FS_Subset, FS_CardinalityType
<1>4. i \in S
  BY <1>1
<1>5. Cardinality(S) # 0
  BY <1>3, <1>4, FS_EmptySet
<1> QED
  BY <1>3, <1>5 DEF Place

\* The cursor moves to the last recipient of the page.
LEMMA AdvancedFacts ==
    ASSUME NEW after \in Fellows \cup {0}, NEW page \in SUBSET Fellows
    PROVE  /\ Advanced(after, page) \in {after} \cup page
           /\ Advanced(after, page) \in Fellows \cup {0}
           /\ Advanced(after, page) >= after
           /\ \A f \in page : f <= Advanced(after, page)
<1> DEFINE S == {after} \cup page
<1>1. S \in SUBSET Nat /\ S # {}
  BY InboxConstants
<1>2. IsFiniteSet(page)
  BY InboxConstants, FS_Subset
<1>3. IsFiniteSet(S)
  BY <1>2, FS_Singleton, FS_Union
<1>4. Max(S) \in S /\ \A n \in S : n <= Max(S)
  BY <1>1, <1>3, GreatestNatural
<1> QED
  BY <1>1, <1>4 DEF Advanced

(* NextSeq, of the notices of an inbox.                                      *)
Number(box) == Max({0} \cup {n.seq : n \in box}) + 1

LEMMA NextSeqIsNumber == \A f : NextSeq(f) = Number(inbox[f]) /\ NextSeq(f)' = Number(inbox'[f])
BY DEF NextSeq, Number

\* The number of the next notice is beyond all numbers given so far.
LEMMA NumberFacts ==
    ASSUME NEW box \in SUBSET Notices, IsFiniteSet(box)
    PROVE  /\ Number(box) \in Nat \ {0}
           /\ \A n \in box : n.seq \in Nat /\ n.seq < Number(box)
           /\ Number(box) = 1 \/ \E n \in box : n.seq = Number(box) - 1
<1> DEFINE seqs == {n.seq : n \in box}
           S == {0} \cup seqs
<1>1. \A n \in box : n.seq \in Nat
  BY DEF Notices
<1>2. S \in SUBSET Nat /\ S # {}
  BY <1>1
<1>3. IsFiniteSet(seqs)
  <2> DEFINE g == [n \in box |-> n.seq]
  <2>1. seqs = {g[n] : n \in box}
    OBVIOUS
  <2>2. g \in [box -> seqs] /\ \A s \in seqs : \E n \in box : g[n] = s
    OBVIOUS
  <2> HIDE DEF g, seqs
  <2> QED
    BY <2>2, FS_Surjection DEF Surjection
<1>4. IsFiniteSet(S)
  <2> HIDE DEF seqs
  <2> QED
    BY <1>3, FS_Singleton, FS_Union
<1>5. Max(S) \in S /\ \A n \in S : n <= Max(S)
  BY <1>2, <1>4, GreatestNatural
<1>6. Number(box) = Max(S) + 1
  BY DEF Number
<1>7. Max(S) \in Nat
  BY <1>2, <1>5
<1>8. \A n \in box : n.seq <= Max(S)
  BY <1>5
<1>9. Max(S) = 0 \/ \E n \in box : n.seq = Max(S)
  BY <1>5
<1> HIDE DEF S
<1> QED
  BY <1>1, <1>6, <1>7, <1>8, <1>9

\* If the numbers given so far are the first k, the next one is k + 1.
LEMMA NumberIsNext ==
    ASSUME NEW box \in SUBSET Notices, IsFiniteSet(box), NEW k \in Nat, {n.seq : n \in box} = 1..k
    PROVE  Number(box) = k + 1
<1>1. /\ Number(box) \in Nat \ {0}
      /\ \A s \in 1..k : s < Number(box)
      /\ Number(box) = 1 \/ Number(box) - 1 \in 1..k
  <2>1. \A n \in box : n.seq \in 1..k
    OBVIOUS
  <2>2. \A s \in 1..k : \E n \in box : n.seq = s
    OBVIOUS
  <2> QED
    BY <2>1, <2>2, NumberFacts
<1>2. CASE k = 0
  BY <1>1, <1>2
<1>3. CASE k # 0
  <2>1. k \in 1..k
    BY <1>3
  <2> QED
    BY <1>1, <1>3, <2>1
<1> QED
  BY <1>2, <1>3

\* What the guarded insert does to an inbox.
LEMMA NotifyFacts ==
    ASSUME TypeOK, NEW S, NEW e \in Events, Notify(S, e), NEW f \in Fellows
    PROVE  LET new == [seq |-> NextSeq(f), event |-> e, acked |-> FALSE] IN
           /\ \/ inbox'[f] = inbox[f] /\ (f \notin S \/ Told(f, e))
              \/ f \in S /\ ~Told(f, e) /\ inbox'[f] = inbox[f] \cup {new}
           /\ f \in S => Told(f, e)'
           /\ \A x \in Events : Told(f, x) => Told(f, x)'
           /\ \A x \in Events \ {e} : Told(f, x)' => Told(f, x)
           /\ f \notin S => (Told(f, e)' => Told(f, e))
<1> DEFINE new == [seq |-> NextSeq(f), event |-> e, acked |-> FALSE]
<1>1. inbox'[f] = IF f \in S /\ ~Told(f, e) THEN inbox[f] \cup {new} ELSE inbox[f]
  BY DEF Notify
<1>2. new.event = e
  OBVIOUS
<1> HIDE DEF new
<1>3. CASE f \in S /\ ~Told(f, e)
  <2>1. inbox'[f] = inbox[f] \cup {new}
    BY <1>1, <1>3
  <2>2. \A x : Told(f, x)' <=> Told(f, x) \/ x = e
    BY <1>2, <2>1 DEF Told
  <2> QED
    BY <1>3, <2>1, <2>2 DEF new
<1>4. CASE ~(f \in S /\ ~Told(f, e))
  <2>1. inbox'[f] = inbox[f]
    BY <1>1, <1>4
  <2>2. \A x : Told(f, x)' <=> Told(f, x)
    BY <2>1 DEF Told
  <2> QED
    BY <1>4, <2>1, <2>2
<1> QED
  BY <1>3, <1>4

-----------------------------------------------------------------------------
(* Types *)

\* What a pass does next is of its kind.
LEMMA DoingKept ==
    ASSUME TypeOK, NEW p \in Passes, NEW w \in Doings, passes' = [passes EXCEPT ![p] = w]
    PROVE  passes' \in [Passes -> Doings]
BY DEF TypeOK, Doings, Snapshots

LEMMA DoneFacts ==
    ASSUME TypeOK, NEW p \in Passes, Done(p)
    PROVE  /\ passes' \in [Passes -> Doings]
           /\ passes'[p] = Turn(passes[p].jobs \ {Snap(p)})
           /\ \A q \in Passes \ {p} : passes'[q] = passes[q]
<1> DEFINE w == Turn(passes[p].jobs \ {Snap(p)})
<1>1. passes[p].jobs \subseteq Snapshots
  BY DEF TypeOK, Snapshots
<1>2. w \in Doings
  BY <1>1 DEF Doings, Turn
<1>3. passes' = [passes EXCEPT ![p] = w]
  BY DEF Done
<1> HIDE DEF w
<1> QED
  BY <1>2, <1>3, DoingKept DEF TypeOK, w

\* Every inbox that gets a notice stays of its kind.
LEMMA NotifyTypes ==
    ASSUME TypeOK, InboxesAreInOrder, NEW S, NEW e \in Events, Notify(S, e)
    PROVE  inbox' \in [Fellows -> SUBSET Notices]
<1>1. ASSUME NEW f \in Fellows
      PROVE  inbox'[f] \in SUBSET Notices
  <2>1. inbox[f] \in SUBSET Notices /\ IsFiniteSet(inbox[f])
    BY DEF TypeOK, InboxesAreInOrder, Notices
  <2>2. NextSeq(f) \in Nat \ {0}
    BY <2>1, NumberFacts, NextSeqIsNumber
  <2>3. [seq |-> NextSeq(f), event |-> e, acked |-> FALSE] \in Notices
    BY <2>2 DEF Notices
  <2>4. \/ inbox'[f] = inbox[f]
        \/ inbox'[f] = inbox[f] \cup {[seq |-> NextSeq(f), event |-> e, acked |-> FALSE]}
    BY NotifyFacts
  <2> QED
    BY <2>1, <2>3, <2>4
<1>2. inbox' = [f \in Fellows |-> inbox'[f]]
  BY DEF Notify
<1> QED
  BY <1>1, <1>2

JobTypes == [state : {"absent", "pending", "delivered", "suppressed", "quarantined"},
             after : Fellows \cup {0}]

\* A batch keeps the types of what it writes.
LEMMA BatchTypes ==
    ASSUME TypeOK, InboxesAreInOrder, QueueIsExact, NEW p \in Passes, passes[p].at = "page",
           passes[p].jobs # {}, Batch(p)
    PROVE  /\ job' \in [Events -> JobTypes]
           /\ line' \in Seq(Events \cup Passes)
           /\ inbox' \in [Fellows -> SUBSET Notices]
<1> DEFINE e == Snap(p).event
           w == passes[p]
<1>1. e \in Events /\ Snap(p).after \in Fellows \cup {0}
  BY SnapFacts
<1>2. CASE Elected(p)
  <2>1. inbox' \in [Fellows -> SUBSET Notices]
    BY <1>1, <1>2, NotifyTypes DEF Batch
  <2>2. job' \in [Events -> JobTypes]
    <3>1. Advanced(Snap(p).after, w.page) \in Fellows \cup {0}
      BY <1>1, AdvancedFacts DEF TypeOK
    <3>2. job' = [job EXCEPT ![e] = [state |-> IF w.more THEN "pending" ELSE "delivered",
                                     after |-> Advanced(Snap(p).after, w.page)]]
      BY <1>2 DEF Batch
    <3> QED
      BY <3>1, <3>2 DEF TypeOK, JobTypes
  <2>3. line' \in Seq(Events \cup Passes)
    <3>1. e \in Range(line) /\ p \in Range(line) /\ IsInjective(line)
      BY <1>1, <1>2 DEF QueueIsExact, Elected, Current
    <3>2. e # p
      BY <1>1, InboxConstants
    <3>3. line \in Seq(Events \cup Passes)
      BY DEF TypeOK
    <3>4. Stamped(e, p) \in Seq(Events \cup Passes) /\ Without(e) \in Seq(Events \cup Passes)
      BY <3>1, <3>2, <3>3, StampedFacts, WithoutFacts
    <3>5. line' = IF w.more THEN Stamped(e, p) ELSE Without(e)
      BY <1>2 DEF Batch
    <3> QED
      BY <3>4, <3>5
  <2> QED
    BY <2>1, <2>2, <2>3
<1>3. CASE ~Elected(p)
  BY <1>3 DEF Batch, TypeOK, JobTypes, Notices
<1> QED
  BY <1>2, <1>3

\* The parts of TypeOK that are not numbers of faults or changes.
LEMMA TypeParts ==
    TypeOK <=>
        /\ source \in [Events -> {"absent", "public", "redacted", "withdrawn"}]
        /\ control \in [Events -> {"none", "hidden", "visible"}]
        /\ job \in [Events -> JobTypes]
        /\ line \in Seq(Events \cup Passes)
        /\ follows \in [Fellows -> [stamp : Int, made : Int]]
        /\ inbox \in [Fellows -> SUBSET Notices]
        /\ passes \in [Passes -> Doings]
        /\ writer \in [Events -> [due : BOOLEAN, left : SUBSET Fellows]]
        /\ readers \in [Fellows -> [cursor : Nat, seen : SUBSET Events]]
        /\ faults \in 0..MaxFaults /\ changes \in 0..MaxChanges
BY DEF TypeOK, JobTypes, Notices, Doings, Snapshots

LEMMA FaultKept == ASSUME TypeOK, Fault PROVE faults' \in 0..MaxFaults
BY InboxConstants DEF TypeOK, Fault

LEMMA ChangeKept == ASSUME TypeOK, Change PROVE changes' \in 0..MaxChanges
BY InboxConstants DEF TypeOK, Change

\* A job that is disposed of is one that was pending, and leaves the queue.
LEMMA DisposeFacts ==
    ASSUME TypeOK, QueueIsExact, NEW p \in Passes, passes[p].jobs # {},
           NEW state \in {"suppressed", "quarantined"}, Dispose(p, state)
    PROVE  LET e == Snap(p).event IN
           /\ e \in Events
           /\ \/ UNCHANGED <<job, line>>
              \/ /\ job[e].state = "pending" /\ job' = [job EXCEPT ![e].state = state]
                 /\ line' \in Seq(Events \cup Passes)
                 /\ IsInjective(line') /\ Range(line') = Range(line) \ {e}
           /\ job' \in [Events -> JobTypes] /\ line' \in Seq(Events \cup Passes)
<1> DEFINE e == Snap(p).event
<1>1. e \in Events
  BY SnapFacts
<1>2. CASE Current(p)
  <2>1. job[e].state = "pending" /\ job' = [job EXCEPT ![e].state = state] /\ line' = Without(e)
    BY <1>2 DEF Dispose, Current
  <2>2. e \in Range(line) /\ IsInjective(line) /\ line \in Seq(Events \cup Passes)
    BY <1>1, <2>1 DEF QueueIsExact, TypeOK
  <2> HIDE DEF e
  <2>3. job' \in [Events -> JobTypes]
    <3>1. job \in [Events -> JobTypes]
      BY DEF TypeOK, JobTypes
    <3>2. [job[e] EXCEPT !.state = state] \in JobTypes
      BY <1>1, <3>1 DEF JobTypes
    <3> QED
      BY <1>1, <2>1, <3>1, <3>2
  <2>4. /\ line' \in Seq(Events \cup Passes)
        /\ IsInjective(line') /\ Range(line') = Range(line) \ {e}
    BY <2>1, <2>2, WithoutFacts
  <2> QED
    BY <1>1, <2>1, <2>3, <2>4 DEF e
<1>3. CASE ~Current(p)
  BY <1>1, <1>3 DEF Dispose, TypeOK, JobTypes
<1> QED
  BY <1>2, <1>3

\* A pass that ends leaves the queue.
LEMMA EndedFacts ==
    ASSUME TypeOK, QueueIsExact, NEW p \in Passes, passes[p].at # "idle", Ended(p)
    PROVE  /\ passes' \in [Passes -> Doings] /\ passes' = [passes EXCEPT ![p] = NoPass]
           /\ line' \in Seq(Events \cup Passes)
           /\ IsInjective(line') /\ Range(line') = Range(line) \ {p}
<1>1. NoPass \in Doings
  BY DEF NoPass, Doings
<1>2. passes' = [passes EXCEPT ![p] = NoPass] /\ line' = Without(p)
  BY DEF Ended
<1>3. p \in Range(line) /\ IsInjective(line) /\ line \in Seq(Events \cup Passes)
  BY DEF QueueIsExact, TypeOK
<1>4. /\ line' \in Seq(Events \cup Passes)
      /\ IsInjective(line') /\ Range(line') = Range(line) \ {p}
  BY <1>2, <1>3, WithoutFacts
<1> QED
  BY <1>1, <1>2, <1>4, DoingKept

\* A rotation keeps the queue together.
LEMMA RotateFacts ==
    ASSUME TypeOK, QueueIsExact, NEW p \in Passes, Rotate(p)
    PROVE  /\ line' \in Seq(Events \cup Passes) /\ IsInjective(line') /\ Range(line') = Range(line)
           /\ faults' \in 0..MaxFaults
<1>1. passes[p].at = "failed" /\ Snap(p).event \in Events
  BY SnapFacts DEF Rotate, At
<1>2. line \in Seq(Events \cup Passes) /\ IsInjective(line) /\ p \in Range(line)
  BY <1>1 DEF TypeOK, QueueIsExact
<1>3. CASE Current(p) /\ line' = Stamped(Snap(p).event, p)
  <2>1. Snap(p).event \in Range(line)
    BY <1>1, <1>3 DEF Current, QueueIsExact
  <2>2. Snap(p).event # p
    BY <1>1, InboxConstants
  <2> QED
    BY <1>2, <1>3, <2>1, <2>2, StampedFacts, FaultKept DEF Rotate, TypeOK
<1>4. CASE line' = line
  BY <1>2, <1>4, FaultKept DEF Rotate, TypeOK
<1> QED
  BY <1>3, <1>4 DEF Rotate

LEMMA BeginFacts ==
    ASSUME TypeOK, QueueIsExact, NEW p \in Passes, Begin(p)
    PROVE  /\ passes' \in [Passes -> Doings]
           /\ passes'[p].at = "job"
           /\ \A s \in passes'[p].jobs : s.event \in Range(line)
           /\ \A q \in Passes \ {p} : passes'[q] = passes[q]
           /\ line' \in Seq(Events \cup Passes)
           /\ IsInjective(line') /\ Range(line') = Range(line) \cup {p}
<1> DEFINE picked == {i \in Pending : Place(i) <= JobLimit}
           snapshots == {[place |-> Place(i), event |-> line[i], after |-> job[line[i]].after,
                          redacted |-> source[line[i]] = "redacted"] : i \in picked}
<1>1. passes[p].at = "idle" /\ passes' = [passes EXCEPT ![p] = Turn(snapshots)] /\ line' = Append(line, p)
  BY DEF Begin
<1>2. ASSUME NEW i \in picked
      PROVE  [place |-> Place(i), event |-> line[i], after |-> job[line[i]].after,
              redacted |-> source[line[i]] = "redacted"] \in Snapshots
  <2>1. Place(i) \in 1..JobLimit
    BY PlaceFacts, InboxConstants
  <2>2. line[i] \in Events
    BY DEF Pending
  <2>3. job[line[i]].after \in Fellows \cup {0}
    BY <2>2 DEF TypeOK
  <2> QED
    BY <2>1, <2>2, <2>3 DEF Snapshots
<1>3. snapshots \subseteq Snapshots
  BY <1>2
<1>4. \A s \in snapshots : s.event \in Range(line)
  BY DEF Pending, Range
<1> HIDE DEF snapshots
<1>5. Turn(snapshots) \in Doings /\ Turn(snapshots).at = "job" /\ Turn(snapshots).jobs = snapshots
  BY <1>3 DEF Turn, Doings
<1>6. passes' \in [Passes -> Doings] /\ passes'[p] = Turn(snapshots)
      /\ \A q \in Passes \ {p} : passes'[q] = passes[q]
  BY <1>1, <1>5, DoingKept DEF TypeOK
<1>7. p \notin Range(line)
  BY <1>1, InboxConstants DEF QueueIsExact
<1>8. line \in Seq(Events \cup Passes) /\ IsInjective(line)
  BY DEF TypeOK, QueueIsExact
<1>9. /\ line' \in Seq(Events \cup Passes)
      /\ IsInjective(line') /\ Range(line') = Range(line) \cup {p}
  BY <1>1, <1>7, <1>8, AppendFacts
<1> QED
  BY <1>4, <1>5, <1>6, <1>9

LEMMA LatestFacts ==
    ASSUME TypeOK, NothingPrecedesItsEvent
    PROVE  Latest \in Nat /\ \A e \in Published : e <= Latest
<1>1. Published \in SUBSET Nat /\ IsFiniteSet(Published)
  BY InboxConstants DEF Published, NothingPrecedesItsEvent
<1>2. CASE Published = {}
  BY <1>2 DEF Latest
<1>3. CASE Published # {}
  BY <1>1, <1>3, GreatestNatural DEF Latest
<1> QED
  BY <1>2, <1>3

\* What a client adopts is the number of a notice that it reads.
LEMMA PollFacts ==
    ASSUME TypeOK, InboxesAreInOrder, NEW f \in Fellows, Poll(f)
    PROVE  \E page \in SUBSET inbox[f] :
             LET fresh == {n \in inbox[f] : n.seq > readers[f].cursor /\ Visible(n)} IN
             /\ page = {n \in fresh : Cardinality({m \in fresh : m.seq < n.seq}) < ReadLimit}
             /\ \E last \in page :
                   /\ \A n \in page : n.seq <= last.seq
                   /\ readers' = [readers EXCEPT ![f] =
                         [cursor |-> last.seq, seen |-> readers[f].seen \cup {n.event : n \in page}]]
<1> DEFINE fresh == {n \in inbox[f] : n.seq > readers[f].cursor /\ Visible(n)}
           page == {n \in fresh : Cardinality({m \in fresh : m.seq < n.seq}) < ReadLimit}
           seqs == {n.seq : n \in page}
<1>1. inbox[f] \in SUBSET Notices /\ IsFiniteSet(inbox[f])
  BY DEF TypeOK, InboxesAreInOrder, Notices
<1>2. page # {} /\ readers' = [readers EXCEPT ![f] =
                      [cursor |-> Max(seqs), seen |-> @.seen \cup {n.event : n \in page}]]
  BY DEF Poll
<1>3. page \subseteq inbox[f] /\ IsFiniteSet(page)
  <2>1. page \subseteq inbox[f]
    OBVIOUS
  <2> QED
    BY <1>1, <2>1, FS_Subset
<1>4. page \in SUBSET inbox[f] /\ page = {n \in fresh : Cardinality({m \in fresh : m.seq < n.seq}) < ReadLimit}
  BY <1>3
<1> HIDE DEF page
<1>5. seqs \in SUBSET Nat /\ seqs # {}
  BY <1>1, <1>2, <1>3 DEF Notices
<1>6. IsFiniteSet(seqs)
  <2> DEFINE g == [n \in page |-> n.seq]
  <2>1. g \in [page -> seqs] /\ \A s \in seqs : \E n \in page : g[n] = s
    OBVIOUS
  <2> HIDE DEF g, seqs
  <2> QED
    BY <1>3, <2>1, FS_Surjection DEF Surjection
<1>7. Max(seqs) \in seqs /\ \A s \in seqs : s <= Max(seqs)
  BY <1>5, <1>6, GreatestNatural
<1>8. PICK last \in page : last.seq = Max(seqs)
  BY <1>7
<1>9. \A n \in page : n.seq <= last.seq
  BY <1>7, <1>8
<1> QED
  BY <1>2, <1>4, <1>8, <1>9

LEMMA MovedOn ==
    ASSUME TypeOK, NEW p \in Passes, NEW at \in {"gone", "template", "failed"},
           passes' = [passes EXCEPT ![p].at = at]
    PROVE  passes' \in [Passes -> Doings]
<1>1. passes \in [Passes -> Doings]
  BY TypeParts
<1>2. [passes[p] EXCEPT !.at = at] \in Doings
  BY <1>1 DEF Doings
<1> QED
  BY <1>1, <1>2

LEMMA TypesKept ==
    ASSUME TypeOK, QueueIsExact, NothingPrecedesItsEvent, InboxesAreInOrder, [Next]_vars
    PROVE  TypeOK'
<1> USE DEF ledgerVars
<1>1. ASSUME NEW e \in Events, Publish(e) PROVE TypeOK'
  <2>1. job' \in [Events -> JobTypes]
    <3>1. job \in [Events -> JobTypes]
      BY TypeParts
    <3>2. [job[e] EXCEPT !.state = "pending"] \in JobTypes
      BY <3>1 DEF JobTypes
    <3> QED
      BY <1>1, <3>1, <3>2 DEF Publish
  <2>2. writer' \in [Events -> [due : BOOLEAN, left : SUBSET Fellows]]
    <3> DEFINE due == Kind[e] = "revision"
    <3>1. due \in BOOLEAN /\ writer' = [writer EXCEPT ![e].due = due]
      BY <1>1 DEF Publish
    <3> HIDE DEF due
    <3> QED
      BY <3>1 DEF TypeOK
  <2>3. line' \in Seq(Events \cup Passes)
    BY <1>1 DEF Publish, TypeOK
  <2>4. source' \in [Events -> {"absent", "public", "redacted", "withdrawn"}]
    BY <1>1 DEF Publish, TypeOK
  <2> QED
    BY <1>1, <2>1, <2>2, <2>3, <2>4 DEF Publish, TypeOK, JobTypes
<1>2. ASSUME NEW e \in Events, Withdraw(e) PROVE TypeOK'
  BY <1>2, ChangeKept DEF Withdraw, TypeOK
<1>3. ASSUME NEW e \in Events, List(e) PROVE TypeOK'
  <2>1. writer' \in [Events -> [due : BOOLEAN, left : SUBSET Fellows]]
    BY <1>3 DEF List, TypeOK
  <2> QED
    BY <1>3, <2>1 DEF List, TypeOK
<1>4. ASSUME NEW e \in Events, NEW f \in Fellows, NotifyFollower(e, f) PROVE TypeOK'
  <2>1. inbox' \in [Fellows -> SUBSET Notices]
    BY <1>4, NotifyTypes DEF NotifyFollower
  <2>2. writer' \in [Events -> [due : BOOLEAN, left : SUBSET Fellows]]
    BY <1>4 DEF NotifyFollower, TypeOK
  <2> QED
    BY <1>4, <2>1, <2>2 DEF NotifyFollower, TypeOK, Notices
<1>5. ASSUME NEW f \in Fellows, Follow(f) PROVE TypeOK'
  <2>1. PICK stamp \in {Latest, Latest - 1} \cap Nat :
           follows' = [follows EXCEPT ![f] = [stamp |-> stamp, made |-> Latest]]
    BY <1>5 DEF Follow
  <2>2. stamp \in Int /\ Latest \in Int
    BY LatestFacts
  <2>3. [stamp |-> stamp, made |-> Latest] \in [stamp : Int, made : Int]
    BY <2>2
  <2>4. follows' \in [Fellows -> [stamp : Int, made : Int]]
    BY <2>1, <2>3 DEF TypeOK
  <2> QED
    BY <1>5, <2>4, ChangeKept DEF Follow, TypeOK
<1>6. ASSUME NEW f \in Fellows, Unfollow(f) PROVE TypeOK'
  <2>1. changes' \in 0..MaxChanges
    BY <1>6, ChangeKept DEF Unfollow
  <2>2. follows' \in [Fellows -> [stamp : Int, made : Int]]
    BY <1>6 DEF Unfollow, TypeOK, None
  <2> QED
    BY <1>6, <2>1, <2>2 DEF Unfollow, TypeOK
<1>7. ASSUME NEW f \in Fellows, Poll(f) PROVE TypeOK'
  <2>0. PICK page \in SUBSET inbox[f] : \E last \in page :
           readers' = [readers EXCEPT ![f] =
              [cursor |-> last.seq, seen |-> readers[f].seen \cup {n.event : n \in page}]]
    BY <1>7, PollFacts
  <2>1. PICK last \in page :
           readers' = [readers EXCEPT ![f] =
              [cursor |-> last.seq, seen |-> readers[f].seen \cup {n.event : n \in page}]]
    BY <2>0
  <2>2. inbox[f] \in SUBSET Notices
    BY TypeParts
  <2>3. last.seq \in Nat /\ {n.event : n \in page} \subseteq Events
    BY <2>1, <2>2 DEF Notices
  <2>4. [cursor |-> last.seq, seen |-> readers[f].seen \cup {n.event : n \in page}]
           \in [cursor : Nat, seen : SUBSET Events]
    BY <2>3 DEF TypeOK
  <2>5. readers' \in [Fellows -> [cursor : Nat, seen : SUBSET Events]]
    BY <2>1, <2>4 DEF TypeOK
  <2> QED
    BY <1>7, <2>5 DEF Poll, TypeOK
<1>8. ASSUME NEW f \in Fellows, Acknowledge(f) PROVE TypeOK'
  <2>1. ASSUME NEW n \in Notices PROVE [n EXCEPT !.acked = TRUE] \in Notices
    BY DEF Notices
  <2>2. inbox[f] \in SUBSET Notices
    BY TypeParts
  <2>3. inbox' \in [Fellows -> SUBSET Notices]
    BY <1>8, <2>1, <2>2, TypeParts DEF Acknowledge
  <2> QED
    BY <1>8, <2>3 DEF Acknowledge, TypeOK, Notices
<1>9. ASSUME NEW p \in Passes, Begin(p) PROVE TypeOK'
  <2>1. passes' \in [Passes -> Doings] /\ line' \in Seq(Events \cup Passes)
    BY <1>9, BeginFacts
  <2> QED
    BY <1>9, <2>1 DEF Begin, TypeOK, Doings, Snapshots
<1>10. ASSUME NEW p \in Passes, Suppress(p) \/ Quarantine(p) PROVE TypeOK'
  <2>1. PICK state \in {"suppressed", "quarantined"} : Dispose(p, state)
    BY <1>10 DEF Suppress, Quarantine
  <2>2. passes[p].jobs # {}
    BY <1>10 DEF Suppress, Quarantine, At
  <2>3. job' \in [Events -> JobTypes] /\ line' \in Seq(Events \cup Passes)
    BY <2>1, <2>2, DisposeFacts
  <2>4. passes' \in [Passes -> Doings]
    BY <2>1, DoneFacts DEF Dispose
  <2> QED
    BY <2>1, <2>3, <2>4 DEF Dispose, TypeOK, JobTypes, Doings, Snapshots
<1>11. ASSUME NEW p \in Passes, Check(p) PROVE TypeOK'
  <2>1. PICK at \in {"gone", "template"} : passes' = [passes EXCEPT ![p].at = at]
    BY <1>11 DEF Check
  <2>2. passes' \in [Passes -> Doings]
    BY <2>1, MovedOn
  <2> QED
    BY <1>11, <2>2 DEF Check, TypeOK, Doings, Snapshots
<1>12. ASSUME NEW p \in Passes, ReadPage(p) PROVE TypeOK'
  <2> DEFINE candidates == Candidates(Snap(p).event, Snap(p).after)
             more == Cardinality(candidates) > PageSize
  <2>1. passes' = [passes EXCEPT ![p].at = "page", ![p].page = Page(candidates), ![p].more = more]
    BY <1>12 DEF ReadPage
  <2>2. Page(candidates) \subseteq Fellows
    BY DEF Page, Candidates
  <2>3. more \in BOOLEAN
    OBVIOUS
  <2> HIDE DEF candidates, more
  <2>4. passes' \in [Passes -> Doings]
    <3> DEFINE w == [passes[p] EXCEPT !.at = "page", !.page = Page(candidates), !.more = more]
    <3>1. passes \in [Passes -> Doings]
      BY TypeParts
    <3>2. w \in Doings
      BY <2>2, <2>3, <3>1 DEF Doings
    <3>3. passes' = [passes EXCEPT ![p] = w]
      BY <2>1, <3>1
    <3> HIDE DEF w
    <3> QED
      BY <3>1, <3>2, <3>3
  <2> QED
    BY <1>12, <2>4 DEF ReadPage, TypeOK, Doings, Snapshots
<1>13. ASSUME NEW p \in Passes, Deliver(p) PROVE TypeOK'
  <2>1. job' \in [Events -> JobTypes] /\ line' \in Seq(Events \cup Passes)
        /\ inbox' \in [Fellows -> SUBSET Notices]
    BY <1>13, BatchTypes DEF Deliver, At
  <2>2. passes' \in [Passes -> Doings]
    BY <1>13, DoneFacts DEF Deliver
  <2> QED
    BY <1>13, <2>1, <2>2, TypeParts DEF Deliver, TypeOK, JobTypes, Notices, Doings, Snapshots
<1>14. ASSUME NEW p \in Passes, LoseAnswer(p) PROVE TypeOK'
  <2>1. job' \in [Events -> JobTypes] /\ line' \in Seq(Events \cup Passes)
        /\ inbox' \in [Fellows -> SUBSET Notices]
    BY <1>14, BatchTypes DEF LoseAnswer, At
  <2>2. passes' \in [Passes -> Doings]
    BY <1>14, MovedOn DEF LoseAnswer
  <2>3. faults' \in 0..MaxFaults
    BY <1>14, FaultKept DEF LoseAnswer
  <2> QED
    BY <1>14, <2>1, <2>2, <2>3 DEF LoseAnswer, TypeOK, JobTypes, Notices, Doings, Snapshots
<1>15. ASSUME NEW p \in Passes, Fail(p) PROVE TypeOK'
  <2>1. passes' \in [Passes -> Doings]
    BY <1>15, MovedOn DEF Fail
  <2>2. faults' \in 0..MaxFaults
    <3>1. UNCHANGED faults \/ Fault
      BY <1>15 DEF Fail
    <3> QED
      BY <3>1, FaultKept DEF TypeOK
  <2> QED
    BY <1>15, <2>1, <2>2 DEF Fail, TypeOK, Doings, Snapshots
<1>16. ASSUME NEW p \in Passes, Rotate(p) PROVE TypeOK'
  <2>1. line' \in Seq(Events \cup Passes) /\ faults' \in 0..MaxFaults
    BY <1>16, RotateFacts
  <2>2. passes' \in [Passes -> Doings]
    BY <1>16, DoneFacts DEF Rotate
  <2> QED
    BY <1>16, <2>1, <2>2 DEF Rotate, TypeOK, Doings, Snapshots
<1>17. ASSUME NEW p \in Passes, End(p) \/ Crash(p) PROVE TypeOK'
  <2>1. Ended(p) /\ passes[p].at # "idle" /\ faults' \in 0..MaxFaults
    BY <1>17, FaultKept DEF End, Crash, TypeOK
  <2>2. passes' \in [Passes -> Doings] /\ line' \in Seq(Events \cup Passes)
    BY <2>1, EndedFacts
  <2> QED
    BY <2>1, <2>2 DEF Ended, TypeOK, Doings, Snapshots
<1>18. ASSUME NEW e \in Events, Moderate(e) PROVE TypeOK'
  <2>1. control' \in [Events -> {"none", "hidden", "visible"}]
    BY <1>18 DEF Moderate, TypeOK
  <2> QED
    BY <1>18, <2>1, ChangeKept DEF Moderate, TypeOK
<1>19. ASSUME NEW p \in Passes, Spare(p) PROVE TypeOK'
  <2>1. passes' \in [Passes -> Doings]
    BY <1>19, DoneFacts DEF Spare
  <2> QED
    BY <1>19, <2>1 DEF Spare, TypeOK, Doings, Snapshots
<1>20. CASE UNCHANGED vars
  BY <1>20 DEF vars, TypeOK
<1> QED
  BY <1>1, <1>2, <1>3, <1>4, <1>5, <1>6, <1>7, <1>8, <1>9, <1>10, <1>11, <1>12, <1>13, <1>14,
     <1>15, <1>16, <1>17, <1>18, <1>19, <1>20 DEF Next, Step

-----------------------------------------------------------------------------
(* The queue is exact *)

\* An event is appended once.
LEMMA PublishFacts ==
    ASSUME TypeOK, NothingPrecedesItsEvent, NEW e \in Events, Publish(e)
    PROVE  /\ source[e] = "absent" /\ job[e] = NoJob
           /\ source' = [source EXCEPT ![e] = "public"]
           /\ job' = [job EXCEPT ![e].state = "pending"]
           /\ Published' = Published \cup {e}
<1>1. e > Latest /\ Latest \in Nat /\ \A x \in Published : x <= Latest
  BY LatestFacts DEF Publish
<1>2. e \notin Published
  BY <1>1, InboxConstants
<1>3. source' = [source EXCEPT ![e] = "public"] /\ job' = [job EXCEPT ![e].state = "pending"]
  BY DEF Publish
<1>4. Published' = Published \cup {e}
  BY <1>3 DEF Published, TypeOK
<1> QED
  BY <1>2, <1>3, <1>4 DEF Published, NothingPrecedesItsEvent

\* What the batch of a pass that is elected does to its job and the queue.
LEMMA BatchFacts ==
    ASSUME TypeOK, QueueIsExact, NEW p \in Passes, passes[p].at = "page", passes[p].jobs # {}, Batch(p)
    PROVE  LET e == Snap(p).event
               last == Advanced(Snap(p).after, passes[p].page)
               state == IF passes[p].more THEN "pending" ELSE "delivered" IN
           \/ UNCHANGED <<inbox, job, line>>
           \/ /\ e \in Events /\ Current(p) /\ Live(e)
              /\ Notify({f \in passes[p].page : Recipient(f, e)}, e)
              /\ job' = [job EXCEPT ![e] = [state |-> state, after |-> last]]
              /\ IsInjective(line')
              /\ Range(line') = IF passes[p].more THEN Range(line) ELSE Range(line) \ {e}
<1> DEFINE e == Snap(p).event
           last == Advanced(Snap(p).after, passes[p].page)
           state == IF passes[p].more THEN "pending" ELSE "delivered"
<1>1. e \in Events
  BY SnapFacts
<1>2. CASE Elected(p)
  <2>1. /\ Notify({f \in passes[p].page : Recipient(f, e)}, e)
        /\ job' = [job EXCEPT ![e] = [state |-> state, after |-> last]]
        /\ line' = IF passes[p].more THEN Stamped(e, p) ELSE Without(e)
    BY <1>2 DEF Batch
  <2>2. Current(p) /\ Live(e)
    BY <1>2 DEF Elected
  <2>3. line \in Seq(Events \cup Passes) /\ IsInjective(line) /\ e \in Range(line) /\ p \in Range(line)
    BY <1>1, <2>2 DEF Current, QueueIsExact, TypeOK
  <2>4. e # p
    BY <1>1, InboxConstants
  <2> HIDE DEF e, last, state
  <2>5. /\ IsInjective(line')
        /\ Range(line') = IF passes[p].more THEN Range(line) ELSE Range(line) \ {e}
    BY <2>1, <2>3, <2>4, StampedFacts, WithoutFacts
  <2> QED
    BY <1>1, <2>1, <2>2, <2>5 DEF e, last, state
<1>3. CASE ~Elected(p)
  BY <1>3 DEF Batch
<1> QED
  BY <1>2, <1>3

\* A batch takes its job out of the queue when it completes it.
LEMMA BatchKeepsQueue ==
    ASSUME TypeOK, QueueIsExact, NEW p \in Passes, passes[p].at = "page", passes[p].jobs # {}, Batch(p),
           \A q \in Passes : passes'[q].at = "idle" <=> passes[q].at = "idle"
    PROVE  QueueIsExact'
<1> DEFINE e == Snap(p).event
           last == Advanced(Snap(p).after, passes[p].page)
           state == IF passes[p].more THEN "pending" ELSE "delivered"
<1>1. CASE UNCHANGED <<inbox, job, line>>
  BY <1>1 DEF QueueIsExact
<1>2. CASE /\ e \in Events /\ Current(p)
           /\ job' = [job EXCEPT ![e] = [state |-> state, after |-> last]]
           /\ IsInjective(line')
           /\ Range(line') = IF passes[p].more THEN Range(line) ELSE Range(line) \ {e}
  <2>1. job[e].state = "pending" /\ job'[e].state = state /\ \A x \in Events \ {e} : job'[x] = job[x]
    BY <1>2 DEF Current, TypeOK
  <2>2. e \notin Passes
    BY <1>2, InboxConstants
  <2>3. state = "pending" <=> passes[p].more
    BY DEF TypeOK
  <2> HIDE DEF e, state, last
  <2> QED
    BY <1>2, <2>1, <2>2, <2>3 DEF QueueIsExact
<1> QED
  BY <1>1, <1>2, BatchFacts

LEMMA QueueKept ==
    ASSUME TypeOK, QueueIsExact, NothingPrecedesItsEvent, [Next]_vars
    PROVE  QueueIsExact'
<1> USE DEF ledgerVars
<1>1. ASSUME NEW e \in Events, Publish(e) PROVE QueueIsExact'
  <2>1. job[e] = NoJob /\ job' = [job EXCEPT ![e].state = "pending"] /\ line' = Append(line, e)
        /\ passes' = passes
    BY <1>1, PublishFacts DEF Publish
  <2>2. e \notin Range(line)
    BY <2>1, InboxConstants DEF QueueIsExact, NoJob
  <2>3. IsInjective(line') /\ Range(line') = Range(line) \cup {e}
    BY <2>1, <2>2, AppendFacts DEF QueueIsExact, TypeOK
  <2>4. job'[e].state = "pending" /\ \A x \in Events \ {e} : job'[x] = job[x]
    BY <2>1 DEF TypeOK
  <2> QED
    BY <2>1, <2>3, <2>4 DEF QueueIsExact
<1>2. CASE UNCHANGED <<line, job>> /\ \A q \in Passes : passes'[q].at = "idle" <=> passes[q].at = "idle"
  BY <1>2 DEF QueueIsExact
<1>3. ASSUME NEW e \in Events,
             Withdraw(e) \/ Moderate(e) \/ List(e) \/ \E f \in Fellows : NotifyFollower(e, f)
      PROVE  QueueIsExact'
  BY <1>2, <1>3 DEF Withdraw, Moderate, List, NotifyFollower
<1>4. ASSUME NEW f \in Fellows, Follow(f) \/ Unfollow(f) \/ Poll(f) \/ Acknowledge(f)
      PROVE  QueueIsExact'
  BY <1>2, <1>4 DEF Follow, Unfollow, Poll, Acknowledge
<1>5. ASSUME NEW p \in Passes, Begin(p) PROVE QueueIsExact'
  <2>1. /\ passes'[p].at = "job" /\ \A q \in Passes \ {p} : passes'[q] = passes[q]
        /\ IsInjective(line') /\ Range(line') = Range(line) \cup {p}
    BY <1>5, BeginFacts
  <2>2. job' = job
    BY <1>5 DEF Begin
  <2> QED
    BY <2>1, <2>2 DEF QueueIsExact
<1>6. ASSUME NEW p \in Passes, Done(p), passes[p].at # "idle"
      PROVE  \A q \in Passes : passes'[q].at = "idle" <=> passes[q].at = "idle"
  <2>1. passes'[p].at = "job" /\ \A q \in Passes \ {p} : passes'[q] = passes[q]
    <3>1. /\ passes'[p] = Turn(passes[p].jobs \ {Snap(p)})
          /\ \A q \in Passes \ {p} : passes'[q] = passes[q]
      BY <1>6, DoneFacts
    <3>2. \A jobs : Turn(jobs).at = "job"
      BY DEF Turn
    <3> QED
      BY <3>1, <3>2
  <2> QED
    BY <1>6, <2>1
<1>7. ASSUME NEW p \in Passes, Suppress(p) \/ Quarantine(p) PROVE QueueIsExact'
  <2>1. PICK state \in {"suppressed", "quarantined"} : Dispose(p, state)
    BY <1>7 DEF Suppress, Quarantine
  <2>2. passes[p].jobs # {} /\ passes[p].at # "idle"
    BY <1>7 DEF Suppress, Quarantine, At
  <2>3. \A q \in Passes : passes'[q].at = "idle" <=> passes[q].at = "idle"
    BY <1>6, <2>1, <2>2 DEF Dispose
  <2> DEFINE e == Snap(p).event
  <2>4. /\ e \in Events
        /\ \/ UNCHANGED <<job, line>>
           \/ /\ job[e].state = "pending" /\ job' = [job EXCEPT ![e].state = state]
              /\ IsInjective(line') /\ Range(line') = Range(line) \ {e}
    BY <2>1, <2>2, DisposeFacts
  <2>5. CASE UNCHANGED <<job, line>>
    BY <1>2, <2>3, <2>5
  <2>6. CASE /\ job[e].state = "pending" /\ job' = [job EXCEPT ![e].state = state]
             /\ IsInjective(line') /\ Range(line') = Range(line) \ {e}
    <3> HIDE DEF e
    <3>1. job'[e].state = state /\ \A x \in Events \ {e} : job'[x] = job[x]
      BY <2>4, <2>6 DEF TypeOK
    <3>2. e \notin Passes /\ state # "pending"
      BY <2>4, InboxConstants
    <3> QED
      BY <2>3, <2>6, <3>1, <3>2 DEF QueueIsExact
  <2> QED
    BY <2>4, <2>5, <2>6
<1>8. ASSUME NEW p \in Passes, Check(p) \/ ReadPage(p) \/ Fail(p) PROVE QueueIsExact'
  <2>1. UNCHANGED <<line, job>>
    BY <1>8 DEF Check, ReadPage, Fail
  <2>2. \A q \in Passes : passes'[q].at = "idle" <=> passes[q].at = "idle"
    <3>1. passes[p].at # "idle"
      BY <1>8 DEF Check, ReadPage, Fail, At
    <3>2. \A q \in Passes \ {p} : passes'[q] = passes[q]
      BY <1>8 DEF Check, ReadPage, Fail, TypeOK
    <3>3. passes'[p].at # "idle"
      BY <1>8 DEF Check, ReadPage, Fail, TypeOK
    <3> QED
      BY <3>1, <3>2, <3>3
  <2> QED
    BY <1>2, <2>1, <2>2
<1>9. ASSUME NEW p \in Passes, Deliver(p) PROVE QueueIsExact'
  BY <1>6, <1>9, BatchKeepsQueue DEF Deliver, At
<1>10. ASSUME NEW p \in Passes, LoseAnswer(p) PROVE QueueIsExact'
  <2>1. \A q \in Passes : passes'[q].at = "idle" <=> passes[q].at = "idle"
    BY <1>10 DEF LoseAnswer, At, TypeOK
  <2> QED
    BY <1>10, <2>1, BatchKeepsQueue DEF LoseAnswer, At
<1>11. ASSUME NEW p \in Passes, Rotate(p) PROVE QueueIsExact'
  <2>1. \A q \in Passes : passes'[q].at = "idle" <=> passes[q].at = "idle"
    BY <1>6, <1>11 DEF Rotate, At
  <2>2. IsInjective(line') /\ Range(line') = Range(line)
    BY <1>11, RotateFacts
  <2>3. job' = job
    BY <1>11 DEF Rotate
  <2> QED
    BY <2>1, <2>2, <2>3 DEF QueueIsExact
<1>12. ASSUME NEW p \in Passes, End(p) \/ Crash(p) PROVE QueueIsExact'
  <2>1. Ended(p) /\ passes[p].at # "idle"
    BY <1>12 DEF End, Crash
  <2>2. passes' = [passes EXCEPT ![p] = NoPass] /\ IsInjective(line') /\ Range(line') = Range(line) \ {p}
    BY <2>1, EndedFacts
  <2>3. passes'[p].at = "idle" /\ \A q \in Passes \ {p} : passes'[q] = passes[q]
    BY <2>2 DEF TypeOK, NoPass
  <2>4. job' = job /\ p \notin Events
    BY <2>1, InboxConstants DEF Ended
  <2> QED
    BY <2>1, <2>2, <2>3, <2>4 DEF QueueIsExact
<1>13. ASSUME NEW p \in Passes, Spare(p) PROVE QueueIsExact'
  BY <1>2, <1>6, <1>13 DEF Spare, At
<1>14. CASE UNCHANGED vars
  BY <1>2, <1>14 DEF vars
<1> QED
  BY <1>1, <1>3, <1>4, <1>5, <1>7, <1>8, <1>9, <1>10, <1>11, <1>12, <1>13, <1>14 DEF Next, Step

-----------------------------------------------------------------------------
(* Events come first *)

\* A job that a pass goes on with, or has picked, is of an event on the ledger.
LEMMA PrecedesKept ==
    ASSUME TypeOK, QueueIsExact, NothingPrecedesItsEvent, [Next]_vars
    PROVE  NothingPrecedesItsEvent'
<1> USE DEF ledgerVars
<1> DEFINE Jobs == \A e \in Events : source[e] = "absent" => job[e] = NoJob
           Writers == \A e \in Events : source[e] = "absent" => ~writer[e].due /\ writer[e].left = {}
           Held == \A p \in Passes : \A s \in passes[p].jobs : source[s.event] # "absent"
           Known == \A f \in Fellows : \A n \in inbox[f] : source[n.event] # "absent"
           Kept == \A e \in Events : source[e] # "absent" => source'[e] # "absent"
<1>1. Jobs /\ Writers /\ Held /\ Known /\ IsFiniteSet(Published)
  BY DEF NothingPrecedesItsEvent
<1>2. ASSUME UNCHANGED source
      PROVE  Kept /\ IsFiniteSet(Published)' /\ (Jobs' /\ Writers' /\ Held' /\ Known' => NothingPrecedesItsEvent')
  BY <1>1, <1>2 DEF NothingPrecedesItsEvent, Published
<1>3. \A p \in Passes : passes[p].jobs \subseteq Snapshots
  BY DEF TypeOK, Snapshots
<1>4. \A f \in Fellows : inbox[f] \subseteq Notices
  BY DEF TypeOK, Notices
<1>5. ASSUME NEW e \in Events, Publish(e) PROVE NothingPrecedesItsEvent'
  <2>1. /\ source[e] = "absent" /\ source' = [source EXCEPT ![e] = "public"]
        /\ job' = [job EXCEPT ![e].state = "pending"]
        /\ Published' = Published \cup {e}
    BY <1>5, PublishFacts
  <2>2. source'[e] = "public" /\ \A x \in Events \ {e} : source'[x] = source[x]
    BY <2>1 DEF TypeOK
  <2>3. Jobs'
    BY <1>1, <2>1, <2>2 DEF TypeOK
  <2>4. Writers'
    <3>1. \A x \in Events \ {e} : writer'[x] = writer[x]
      BY <1>5 DEF Publish, TypeOK
    <3> QED
      BY <1>1, <2>2, <3>1
  <2>5. Held'
    BY <1>1, <1>3, <1>5, <2>2 DEF Publish, Snapshots
  <2>6. Known'
    BY <1>1, <1>4, <1>5, <2>2 DEF Publish, Notices
  <2>7. IsFiniteSet(Published')
    BY <1>1, <2>1, FS_AddElement
  <2> QED
    BY <2>3, <2>4, <2>5, <2>6, <2>7 DEF NothingPrecedesItsEvent
<1>6. ASSUME NEW e \in Events, Withdraw(e) PROVE NothingPrecedesItsEvent'
  <2>1. source[e] = "public" /\ source'[e] # "absent" /\ \A x \in Events \ {e} : source'[x] = source[x]
    BY <1>6 DEF Withdraw, TypeOK
  <2>2. \A x \in Events : source'[x] = "absent" <=> source[x] = "absent"
    BY <2>1
  <2>3. Published' = Published
    BY <2>2 DEF Published
  <2>4. UNCHANGED <<job, writer, passes, inbox>>
    BY <1>6 DEF Withdraw
  <2>5. Jobs' /\ Writers'
    BY <1>1, <2>2, <2>4
  <2>6. Held'
    BY <1>1, <1>3, <2>2, <2>4 DEF Snapshots
  <2>7. Known'
    BY <1>1, <1>4, <2>2, <2>4 DEF Notices
  <2> QED
    BY <1>1, <2>3, <2>5, <2>6, <2>7 DEF NothingPrecedesItsEvent
<1>7. ASSUME NEW e \in Events, List(e) PROVE NothingPrecedesItsEvent'
  <2>1. Writers'
    <3>1. writer[e].due /\ \A x \in Events \ {e} : writer'[x] = writer[x]
      BY <1>7 DEF List, TypeOK
    <3>2. UNCHANGED source
      BY <1>7 DEF List
    <3> QED
      BY <1>1, <3>1, <3>2
  <2> QED
    BY <1>1, <1>2, <1>7, <2>1 DEF List
<1>8. ASSUME NEW S, NEW e \in Events, Notify(S, e), source[e] # "absent", UNCHANGED source
      PROVE  Known'
  <2> SUFFICES ASSUME NEW f \in Fellows, NEW n \in inbox'[f] PROVE source[n.event] # "absent"
    BY <1>8
  <2>1. n \in inbox[f] \/ n = [seq |-> NextSeq(f), event |-> e, acked |-> FALSE]
    BY <1>8, NotifyFacts
  <2> QED
    BY <1>1, <1>8, <2>1
<1>9. ASSUME NEW e \in Events, NEW f \in Fellows, NotifyFollower(e, f)
      PROVE  NothingPrecedesItsEvent'
  <2>1. f \in writer[e].left /\ Notify({f}, e) /\ UNCHANGED source
    BY <1>9 DEF NotifyFollower
  <2>2. source[e] # "absent"
    BY <1>1, <2>1
  <2>3. Known'
    BY <1>8, <2>1, <2>2
  <2>4. Writers'
    <3>1. \A x \in Events \ {e} : writer'[x] = writer[x]
      BY <1>9 DEF NotifyFollower, TypeOK
    <3> QED
      BY <1>1, <2>1, <2>2, <3>1
  <2> QED
    BY <1>1, <1>2, <1>9, <2>3, <2>4 DEF NotifyFollower
<1>10. ASSUME NEW f \in Fellows, Follow(f) \/ Unfollow(f) \/ Poll(f) PROVE NothingPrecedesItsEvent'
  BY <1>1, <1>2, <1>10 DEF Follow, Unfollow, Poll
<1>11. ASSUME NEW f \in Fellows, Acknowledge(f) PROVE NothingPrecedesItsEvent'
  <2>1. \A n \in Notices : [n EXCEPT !.acked = TRUE].event = n.event
    BY DEF Notices
  <2>2. \A g \in Fellows : \A n \in inbox'[g] : \E m \in inbox[g] : m.event = n.event
    BY <1>4, <1>11, <2>1 DEF Acknowledge, TypeOK
  <2>3. Known'
    BY <1>1, <1>11, <2>2 DEF Acknowledge
  <2> QED
    BY <1>1, <1>2, <1>11, <2>3 DEF Acknowledge
<1>12. ASSUME NEW p \in Passes, \A s \in passes'[p].jobs : source[s.event] # "absent",
              \A q \in Passes \ {p} : passes'[q] = passes[q], UNCHANGED source
       PROVE  Held'
  BY <1>1, <1>12
<1>13. ASSUME NEW p \in Passes, Begin(p) PROVE NothingPrecedesItsEvent'
  <2>1. /\ \A s \in passes'[p].jobs : s.event \in Range(line)
        /\ \A q \in Passes \ {p} : passes'[q] = passes[q]
        /\ passes' \in [Passes -> Doings]
    BY <1>13, BeginFacts
  <2>2. \A s \in passes'[p].jobs : s.event \in Events
    BY <2>1 DEF Doings, Snapshots
  <2>3. \A x \in Events : x \in Range(line) => source[x] # "absent"
    BY <1>1, InboxConstants DEF QueueIsExact, NoJob
  <2>4. Held'
    BY <1>12, <1>13, <2>1, <2>2, <2>3 DEF Begin
  <2> QED
    BY <1>1, <1>2, <1>13, <2>4 DEF Begin
<1>14. ASSUME NEW p \in Passes, Done(p), UNCHANGED source PROVE Held'
  <2>1. /\ passes'[p] = Turn(passes[p].jobs \ {Snap(p)})
        /\ \A q \in Passes \ {p} : passes'[q] = passes[q]
    BY <1>14, DoneFacts
  <2>2. \A jobs : Turn(jobs).jobs = jobs
    BY DEF Turn
  <2>3. passes'[p].jobs \subseteq passes[p].jobs
    BY <2>1, <2>2
  <2> QED
    BY <1>1, <1>12, <1>14, <2>1, <2>3
<1>15. ASSUME NEW p \in Passes, Suppress(p) \/ Quarantine(p) PROVE NothingPrecedesItsEvent'
  <2>1. PICK state \in {"suppressed", "quarantined"} : Dispose(p, state)
    BY <1>15 DEF Suppress, Quarantine
  <2>2. passes[p].jobs # {}
    BY <1>15 DEF Suppress, Quarantine, At
  <2>3. UNCHANGED <<source, writer, inbox>> /\ Done(p)
    BY <2>1 DEF Dispose
  <2>4. Jobs'
    <3>1. \/ UNCHANGED job
          \/ Snap(p).event \in Events /\ source[Snap(p).event] # "absent"
             /\ job' = [job EXCEPT ![Snap(p).event].state = state]
      BY <1>1, <2>1, <2>2, DisposeFacts, SnapFacts
    <3> QED
      BY <1>1, <2>3, <3>1 DEF TypeOK
  <2> QED
    BY <1>1, <1>2, <1>14, <2>3, <2>4
<1>16. ASSUME NEW p \in Passes, Check(p) \/ ReadPage(p) \/ Fail(p) PROVE NothingPrecedesItsEvent'
  <2>1. /\ passes'[p].jobs = passes[p].jobs
        /\ \A q \in Passes \ {p} : passes'[q] = passes[q]
    BY <1>16 DEF Check, ReadPage, Fail, TypeOK
  <2>2. UNCHANGED <<source, job, writer, inbox>>
    BY <1>16 DEF Check, ReadPage, Fail
  <2> QED
    BY <1>1, <1>2, <1>12, <2>1, <2>2
<1>17. ASSUME NEW p \in Passes, passes[p].at = "page", passes[p].jobs # {}, Batch(p), UNCHANGED source
       PROVE  Jobs' /\ Known'
  <2> DEFINE e == Snap(p).event
             last == Advanced(Snap(p).after, passes[p].page)
             state == IF passes[p].more THEN "pending" ELSE "delivered"
             S == {f \in passes[p].page : Recipient(f, e)}
  <2>1. source[e] # "absent"
    BY <1>1, <1>17, SnapFacts
  <2>2. CASE UNCHANGED <<inbox, job, line>>
    BY <1>1, <1>17, <2>2
  <2>3. CASE /\ e \in Events
             /\ Notify(S, e)
             /\ job' = [job EXCEPT ![e] = [state |-> state, after |-> last]]
    <3> HIDE DEF e, last, state, S
    <3>1. Jobs'
      BY <1>1, <1>17, <2>1, <2>3 DEF TypeOK
    <3> QED
      BY <1>8, <1>17, <2>1, <2>3, <3>1
  <2> QED
    BY <1>17, <2>2, <2>3, BatchFacts
<1>18. ASSUME NEW p \in Passes, Deliver(p) PROVE NothingPrecedesItsEvent'
  BY <1>1, <1>2, <1>14, <1>17, <1>18 DEF Deliver, At
<1>19. ASSUME NEW p \in Passes, LoseAnswer(p) PROVE NothingPrecedesItsEvent'
  <2>1. Held'
    <3>1. passes'[p].jobs = passes[p].jobs /\ \A q \in Passes \ {p} : passes'[q] = passes[q]
      BY <1>19 DEF LoseAnswer, TypeOK
    <3> QED
      BY <1>1, <1>12, <1>19, <3>1 DEF LoseAnswer
  <2> QED
    BY <1>1, <1>2, <1>17, <1>19, <2>1 DEF LoseAnswer, At
<1>20. ASSUME NEW p \in Passes, Rotate(p) PROVE NothingPrecedesItsEvent'
  BY <1>1, <1>2, <1>14, <1>20 DEF Rotate
<1>21. ASSUME NEW p \in Passes, End(p) \/ Crash(p) PROVE NothingPrecedesItsEvent'
  <2>1. passes'[p].jobs = {} /\ \A q \in Passes \ {p} : passes'[q] = passes[q]
    BY <1>21 DEF End, Crash, Ended, NoPass, TypeOK
  <2>2. UNCHANGED <<source, job, writer, inbox>>
    BY <1>21 DEF End, Crash, Ended
  <2> QED
    BY <1>1, <1>2, <1>12, <2>1, <2>2
<1>22. ASSUME NEW e \in Events, Moderate(e) PROVE NothingPrecedesItsEvent'
  BY <1>1, <1>2, <1>22 DEF Moderate
<1>23. ASSUME NEW p \in Passes, Spare(p) PROVE NothingPrecedesItsEvent'
  BY <1>1, <1>2, <1>14, <1>23 DEF Spare
<1>24. CASE UNCHANGED vars
  BY <1>1, <1>2, <1>24 DEF vars
<1> QED
  BY <1>5, <1>6, <1>7, <1>9, <1>10, <1>11, <1>13, <1>15, <1>16, <1>18, <1>19, <1>20, <1>21, <1>22,
     <1>23, <1>24 DEF Next, Step

-----------------------------------------------------------------------------
(* Inboxes are in order *)

\* A notice that is new to an inbox gets the next number.
LEMMA NotifyKeepsOrder ==
    ASSUME TypeOK, InboxesAreInOrder, NEW S, NEW e \in Events, Notify(S, e), UNCHANGED readers
    PROVE  InboxesAreInOrder'
<1> SUFFICES ASSUME NEW f \in Fellows
             PROVE  /\ IsFiniteSet(inbox'[f])
                    /\ {n.seq : n \in inbox'[f]} = 1..(NextSeq(f)' - 1)
                    /\ \A m, n \in inbox'[f] : m.seq = n.seq \/ m.event = n.event => m = n
                    /\ readers'[f].cursor < NextSeq(f)'
  BY DEF InboxesAreInOrder
<1> DEFINE box == inbox[f]
           k == NextSeq(f)
           new == [seq |-> k, event |-> e, acked |-> FALSE]
<1>1. /\ box \in SUBSET Notices /\ IsFiniteSet(box)
      /\ {n.seq : n \in box} = 1..(k - 1)
      /\ \A m, n \in box : m.seq = n.seq \/ m.event = n.event => m = n
      /\ readers[f].cursor < k /\ readers[f].cursor \in Nat
  BY DEF InboxesAreInOrder, TypeOK, Notices
<1>2. k \in Nat \ {0} /\ \A n \in box : n.seq \in Nat /\ n.seq < k
  BY <1>1, NumberFacts, NextSeqIsNumber
<1>3. CASE inbox'[f] = inbox[f]
  <2>1. NextSeq(f)' = k
    BY <1>3, NextSeqIsNumber
  <2> HIDE DEF k
  <2> QED
    BY <1>1, <1>3, <2>1
<1>4. CASE ~Told(f, e) /\ inbox'[f] = box \cup {new}
  <2>1. new.seq = k /\ new.event = e /\ \A n \in box : n.event # e
    BY <1>4 DEF Told
  <2>2. new \in Notices
    BY <1>2 DEF Notices
  <2> HIDE DEF new, k, box
  <2>3. IsFiniteSet(inbox'[f]) /\ inbox'[f] \in SUBSET Notices
    BY <1>1, <1>4, <2>2, FS_AddElement
  <2>4. {n.seq : n \in inbox'[f]} = 1..k
    <3>1. {n.seq : n \in inbox'[f]} = {n.seq : n \in box} \cup {k}
      BY <1>4, <2>1
    <3>2. 1..k = 1..(k - 1) \cup {k}
      BY <1>2
    <3> QED
      BY <1>1, <3>1, <3>2
  <2>5. NextSeq(f)' = k + 1
    BY <1>2, <2>3, <2>4, NumberIsNext, NextSeqIsNumber
  <2>6. \A m, n \in inbox'[f] : m.seq = n.seq \/ m.event = n.event => m = n
    <3>1. \A n \in box : n.seq # new.seq /\ n.event # new.event
      BY <1>2, <2>1
    <3> QED
      BY <1>1, <1>4, <3>1
  <2> QED
    BY <1>1, <1>2, <2>3, <2>4, <2>5, <2>6
<1> QED
  BY <1>3, <1>4, NotifyFacts

LEMMA AcknowledgeFacts ==
    ASSUME TypeOK, InboxesAreInOrder, NEW f \in Fellows, Acknowledge(f)
    PROVE  /\ \A g \in Fellows \ {f} : inbox'[g] = inbox[g]
           /\ IsFiniteSet(inbox'[f])
           /\ \A n \in inbox'[f] : \E m \in inbox[f] :
                 /\ n.seq = m.seq /\ n.event = m.event
                 /\ n = IF m.seq <= readers[f].cursor /\ Visible(m) THEN [m EXCEPT !.acked = TRUE] ELSE m
           /\ \A m \in inbox[f] : \E n \in inbox'[f] : n.seq = m.seq /\ n.event = m.event
<1> DEFINE g == [n \in inbox[f] |->
               IF n.seq <= readers[f].cursor /\ Visible(n) THEN [n EXCEPT !.acked = TRUE] ELSE n]
<1>1. inbox[f] \in SUBSET Notices /\ IsFiniteSet(inbox[f])
  BY DEF InboxesAreInOrder, TypeOK, Notices
<1>2. inbox' = [inbox EXCEPT ![f] = {g[n] : n \in inbox[f]}]
  BY DEF Acknowledge
<1>3. inbox'[f] = {g[n] : n \in inbox[f]} /\ \A h \in Fellows \ {f} : inbox'[h] = inbox[h]
  BY <1>2 DEF TypeOK
<1>4. g \in [inbox[f] -> inbox'[f]] /\ \A n \in inbox'[f] : \E m \in inbox[f] : g[m] = n
  <2>1. DOMAIN g = inbox[f] /\ g = [n \in inbox[f] |-> g[n]]
    OBVIOUS
  <2> HIDE DEF g
  <2> QED
    BY <1>3, <2>1
<1>5. IsFiniteSet(inbox'[f])
  <2> HIDE DEF g
  <2> QED
    BY <1>1, <1>4, FS_Surjection DEF Surjection
<1>6. ASSUME NEW n \in inbox[f] PROVE g[n].seq = n.seq /\ g[n].event = n.event
  BY <1>1 DEF Notices
<1>7. ASSUME NEW n \in inbox'[f]
      PROVE  \E m \in inbox[f] :
                /\ n.seq = m.seq /\ n.event = m.event
                /\ n = IF m.seq <= readers[f].cursor /\ Visible(m) THEN [m EXCEPT !.acked = TRUE] ELSE m
  <2>1. PICK m \in inbox[f] : n = g[m]
    BY <1>3
  <2>2. n.seq = m.seq /\ n.event = m.event
    BY <1>6, <2>1
  <2>3. g[m] = IF m.seq <= readers[f].cursor /\ Visible(m) THEN [m EXCEPT !.acked = TRUE] ELSE m
    OBVIOUS
  <2> QED
    BY <2>1, <2>2, <2>3
<1>8. ASSUME NEW m \in inbox[f] PROVE \E n \in inbox'[f] : n.seq = m.seq /\ n.event = m.event
  <2>1. g[m] \in inbox'[f]
    BY <1>3
  <2> QED
    BY <1>6, <2>1
<1> QED
  BY <1>3, <1>5, <1>7, <1>8

\* An acknowledgement keeps the numbers and the events.
LEMMA AcknowledgeKeepsOrder ==
    ASSUME TypeOK, TypeOK', InboxesAreInOrder, NEW f \in Fellows, Acknowledge(f)
    PROVE  InboxesAreInOrder'
<1>1. /\ \A g \in Fellows \ {f} : inbox'[g] = inbox[g]
      /\ IsFiniteSet(inbox'[f])
      /\ \A n \in inbox'[f] : \E m \in inbox[f] :
            /\ n.seq = m.seq /\ n.event = m.event
            /\ n = IF m.seq <= readers[f].cursor /\ Visible(m) THEN [m EXCEPT !.acked = TRUE] ELSE m
      /\ \A m \in inbox[f] : \E n \in inbox'[f] : n.seq = m.seq /\ n.event = m.event
  BY AcknowledgeFacts
<1>2. readers' = readers
  BY DEF Acknowledge
<1>3. ASSUME NEW g \in Fellows \ {f}
      PROVE  /\ IsFiniteSet(inbox'[g])
             /\ {n.seq : n \in inbox'[g]} = 1..(NextSeq(g)' - 1)
             /\ \A m, n \in inbox'[g] : m.seq = n.seq \/ m.event = n.event => m = n
             /\ readers'[g].cursor < NextSeq(g)'
  <2>1. NextSeq(g)' = NextSeq(g)
    BY <1>1, NextSeqIsNumber
  <2> QED
    BY <1>1, <1>2, <2>1 DEF InboxesAreInOrder
<1>4. /\ IsFiniteSet(inbox[f]) /\ {n.seq : n \in inbox[f]} = 1..(NextSeq(f) - 1)
      /\ \A m, n \in inbox[f] : m.seq = n.seq \/ m.event = n.event => m = n
      /\ readers[f].cursor < NextSeq(f)
  BY DEF InboxesAreInOrder
<1>5. {n.seq : n \in inbox'[f]} = {n.seq : n \in inbox[f]}
  BY <1>1
<1>6. NextSeq(f)' = NextSeq(f)
  BY <1>5, NextSeqIsNumber DEF Number
<1>7. \A m, n \in inbox'[f] : m.seq = n.seq \/ m.event = n.event => m = n
  <2> SUFFICES ASSUME NEW m \in inbox'[f], NEW n \in inbox'[f], m.seq = n.seq \/ m.event = n.event
               PROVE  m = n
    OBVIOUS
  <2> DEFINE ack(x) == IF x.seq <= readers[f].cursor /\ Visible(x) THEN [x EXCEPT !.acked = TRUE] ELSE x
  <2>1. PICK a \in inbox[f] : m.seq = a.seq /\ m.event = a.event /\ m = ack(a)
    BY <1>1
  <2>2. PICK b \in inbox[f] : n.seq = b.seq /\ n.event = b.event /\ n = ack(b)
    BY <1>1
  <2>3. a = b
    BY <1>4, <2>1, <2>2
  <2> QED
    BY <2>1, <2>2, <2>3
<1>8. ASSUME NEW g \in Fellows
      PROVE  /\ IsFiniteSet(inbox'[g])
             /\ {n.seq : n \in inbox'[g]} = 1..(NextSeq(g)' - 1)
             /\ \A m, n \in inbox'[g] : m.seq = n.seq \/ m.event = n.event => m = n
             /\ readers'[g].cursor < NextSeq(g)'
  BY <1>1, <1>2, <1>3, <1>4, <1>5, <1>6, <1>7
<1> QED
  BY <1>8 DEF InboxesAreInOrder

\* A batch does nothing to the inboxes but the guarded insert.
LEMMA BatchNotifies ==
    ASSUME TypeOK, QueueIsExact, NEW p \in Passes, passes[p].at = "page", passes[p].jobs # {}, Batch(p)
    PROVE  \/ UNCHANGED inbox
           \/ \E S \in SUBSET Fellows, e \in Events : Notify(S, e)
<1> DEFINE S == {f \in passes[p].page : Recipient(f, Snap(p).event)}
<1>1. \/ UNCHANGED <<inbox, job, line>>
      \/ Snap(p).event \in Events /\ Notify(S, Snap(p).event)
  BY BatchFacts
<1>2. S \in SUBSET Fellows
  BY DEF TypeOK
<1> HIDE DEF S
<1> QED
  BY <1>1, <1>2

LEMMA OrderKept ==
    ASSUME TypeOK, TypeOK', QueueIsExact, InboxesAreInOrder, [Next]_vars
    PROVE  InboxesAreInOrder'
<1> USE DEF ledgerVars
<1>1. CASE UNCHANGED <<inbox, readers>>
  BY <1>1, NextSeqIsNumber DEF InboxesAreInOrder
<1>2. ASSUME NEW e \in Events, Publish(e) \/ Withdraw(e) \/ Moderate(e) \/ List(e)
      PROVE  InboxesAreInOrder'
  BY <1>1, <1>2 DEF Publish, Withdraw, Moderate, List
<1>3. ASSUME NEW e \in Events, NEW f \in Fellows, NotifyFollower(e, f) PROVE InboxesAreInOrder'
  BY <1>3, NotifyKeepsOrder DEF NotifyFollower
<1>4. ASSUME NEW f \in Fellows, Follow(f) \/ Unfollow(f) PROVE InboxesAreInOrder'
  BY <1>1, <1>4 DEF Follow, Unfollow
<1>5. ASSUME NEW f \in Fellows, Poll(f) PROVE InboxesAreInOrder'
  <2>1. PICK page \in SUBSET inbox[f] : \E last \in page : readers' = [readers EXCEPT ![f] =
              [cursor |-> last.seq, seen |-> readers[f].seen \cup {n.event : n \in page}]]
    BY <1>5, PollFacts
  <2>2. PICK last \in page : readers' = [readers EXCEPT ![f] =
              [cursor |-> last.seq, seen |-> readers[f].seen \cup {n.event : n \in page}]]
    BY <2>1
  <2>3. inbox[f] \in SUBSET Notices /\ IsFiniteSet(inbox[f])
    BY DEF TypeOK, Notices, InboxesAreInOrder
  <2>4. last.seq < NextSeq(f)
    BY <2>2, <2>3, NumberFacts, NextSeqIsNumber
  <2>5. readers'[f].cursor = last.seq /\ \A g \in Fellows \ {f} : readers'[g] = readers[g]
    BY <2>2 DEF TypeOK
  <2>6. inbox' = inbox
    BY <1>5 DEF Poll
  <2>7. \A g : NextSeq(g)' = NextSeq(g)
    BY <2>6, NextSeqIsNumber
  <2> QED
    BY <2>4, <2>5, <2>6, <2>7 DEF InboxesAreInOrder
<1>6. ASSUME NEW f \in Fellows, Acknowledge(f) PROVE InboxesAreInOrder'
  BY <1>6, AcknowledgeKeepsOrder
<1>7. ASSUME NEW p \in Passes,
             Begin(p) \/ Check(p) \/ Spare(p) \/ ReadPage(p) \/ Fail(p) \/ Rotate(p)
      PROVE  InboxesAreInOrder'
  BY <1>1, <1>7 DEF Begin, Check, Spare, ReadPage, Fail, Rotate
<1>8. ASSUME NEW p \in Passes, Suppress(p) \/ Quarantine(p) \/ End(p) \/ Crash(p)
      PROVE  InboxesAreInOrder'
  BY <1>1, <1>8 DEF Suppress, Quarantine, Dispose, End, Crash, Ended
<1>9. ASSUME NEW p \in Passes, Deliver(p) \/ LoseAnswer(p) PROVE InboxesAreInOrder'
  <2>1. /\ passes[p].at = "page" /\ passes[p].jobs # {} /\ Batch(p) /\ UNCHANGED readers
    BY <1>9 DEF Deliver, LoseAnswer, At
  <2>2. UNCHANGED inbox \/ \E S \in SUBSET Fellows, e \in Events : Notify(S, e)
    BY <2>1, BatchNotifies
  <2> QED
    BY <1>1, <2>1, <2>2, NotifyKeepsOrder
<1>10. CASE UNCHANGED vars
  BY <1>1, <1>10 DEF vars
<1> QED
  BY <1>2, <1>3, <1>4, <1>5, <1>6, <1>7, <1>8, <1>9, <1>10 DEF Next, Step


-----------------------------------------------------------------------------
(* Polls miss nothing *)

\* A smaller set of notices has no more members.
LEMMA FewerNotices ==
    ASSUME NEW box \in SUBSET Notices, IsFiniteSet(box), NEW A, NEW B, A \subseteq B, B \subseteq box
    PROVE  IsFiniteSet(B) /\ Cardinality(A) \in Nat /\ Cardinality(B) \in Nat /\ Cardinality(A) <= Cardinality(B)
<1>1. IsFiniteSet(B)
  BY FS_Subset
<1>2. IsFiniteSet(A) /\ Cardinality(A) <= Cardinality(B)
  BY <1>1, FS_Subset
<1> QED
  BY <1>1, <1>2, FS_CardinalityType

\* A client that polls reads every notice up to the number that it adopts: whoever is before
\* the last of the page is on the page.
LEMMA PollKeepsPolls ==
    ASSUME TypeOK, InboxesAreInOrder, PollsMissNothing, NEW f \in Fellows, Poll(f)
    PROVE  PollsMissNothing'
<1> DEFINE fresh == {n \in inbox[f] : n.seq > readers[f].cursor /\ Visible(n)}
           Before(n) == {m \in fresh : m.seq < n.seq}
<1>1. PICK page \in SUBSET inbox[f] :
        /\ page = {n \in fresh : Cardinality(Before(n)) < ReadLimit}
        /\ \E last \in page :
              /\ \A n \in page : n.seq <= last.seq
              /\ readers' = [readers EXCEPT ![f] =
                    [cursor |-> last.seq, seen |-> readers[f].seen \cup {n.event : n \in page}]]
  BY PollFacts
<1>2. PICK last \in page : readers' = [readers EXCEPT ![f] =
              [cursor |-> last.seq, seen |-> readers[f].seen \cup {n.event : n \in page}]]
  BY <1>1
<1>3. inbox[f] \in SUBSET Notices /\ IsFiniteSet(inbox[f])
  BY DEF TypeOK, Notices, InboxesAreInOrder
<1>4. /\ readers'[f].cursor = last.seq
      /\ readers'[f].seen = readers[f].seen \cup {n.event : n \in page}
      /\ \A g \in Fellows \ {f} : readers'[g] = readers[g]
  BY <1>2 DEF TypeOK
<1>5. UNCHANGED <<inbox, source, control>>
  BY DEF Poll, ledgerVars
<1>6. \A n : Visible(n)' <=> Visible(n)
  BY <1>5 DEF Visible, Live
<1>7. ASSUME NEW n \in inbox[f], control[n.event] = "none", n.seq <= last.seq, Visible(n)
      PROVE  n.event \in readers'[f].seen
  <2>1. n.seq \in Nat /\ last.seq \in Nat /\ readers[f].cursor \in Nat
    BY <1>3 DEF Notices, TypeOK
  <2>2. CASE n.seq <= readers[f].cursor
    BY <1>4, <1>7, <2>2 DEF PollsMissNothing
  <2>3. CASE n.seq > readers[f].cursor
    <3>1. n \in fresh
      BY <1>7, <2>3
    <3>2. Before(n) \subseteq Before(last) /\ Before(last) \subseteq inbox[f]
      <4>1. \A m \in fresh : m.seq \in Nat
        BY <1>3 DEF Notices
      <4> QED
        BY <1>7, <2>1, <4>1
    <3>3. Cardinality(Before(last)) < ReadLimit
      BY <1>1
    <3> HIDE DEF Before
    <3>4. Cardinality(Before(n)) \in Nat /\ Cardinality(Before(last)) \in Nat
          /\ Cardinality(Before(n)) <= Cardinality(Before(last))
      BY <1>3, <3>2, FewerNotices
    <3>5. Cardinality(Before(n)) < ReadLimit
      BY <3>3, <3>4, InboxConstants
    <3>6. n \in page
      BY <1>1, <3>1, <3>5
    <3> QED
      BY <1>4, <3>6
  <2> QED
    BY <2>1, <2>2, <2>3
<1> SUFFICES ASSUME NEW g \in Fellows, NEW n \in inbox[g], control[n.event] = "none",
                    (n.seq <= readers'[g].cursor /\ Visible(n)) \/ n.acked
             PROVE  n.event \in readers'[g].seen
  BY <1>5, <1>6 DEF PollsMissNothing
<1>8. CASE g = f
  <2>1. CASE n.acked
    BY <1>4, <1>8, <2>1 DEF PollsMissNothing
  <2>2. CASE n.seq <= last.seq /\ Visible(n)
    BY <1>7, <1>8, <2>2
  <2> QED
    BY <1>4, <1>8, <2>1, <2>2
<1>9. CASE g # f
  BY <1>4, <1>9 DEF PollsMissNothing
<1> QED
  BY <1>8, <1>9

\* A new notice is beyond every cursor, and not acknowledged.
LEMMA NotifyKeepsPolls ==
    ASSUME TypeOK, InboxesAreInOrder, PollsMissNothing, NEW S, NEW e \in Events, Notify(S, e),
           UNCHANGED <<readers, source, control>>
    PROVE  PollsMissNothing'
<1>1. \A n : Visible(n)' <=> Visible(n)
  BY DEF Visible, Live
<1> SUFFICES ASSUME NEW f \in Fellows, NEW n \in inbox'[f], control[n.event] = "none",
                    (n.seq <= readers[f].cursor /\ Visible(n)) \/ n.acked
             PROVE  n.event \in readers[f].seen
  BY <1>1 DEF PollsMissNothing
<1>2. n \in inbox[f] \/ n = [seq |-> NextSeq(f), event |-> e, acked |-> FALSE]
  BY NotifyFacts
<1>3. readers[f].cursor < NextSeq(f) /\ readers[f].cursor \in Nat
  BY DEF InboxesAreInOrder, TypeOK
<1>4. NextSeq(f) \in Nat
  <2>1. inbox[f] \in SUBSET Notices /\ IsFiniteSet(inbox[f])
    BY DEF TypeOK, Notices, InboxesAreInOrder
  <2> QED
    BY <2>1, NumberFacts, NextSeqIsNumber
<1>5. CASE n \in inbox[f]
  BY <1>5 DEF PollsMissNothing
<1>6. CASE n = [seq |-> NextSeq(f), event |-> e, acked |-> FALSE]
  BY <1>3, <1>4, <1>6
<1> QED
  BY <1>2, <1>5, <1>6

LEMMA AcknowledgeKeepsPolls ==
    ASSUME TypeOK, InboxesAreInOrder, PollsMissNothing, NEW f \in Fellows, Acknowledge(f)
    PROVE  PollsMissNothing'
<1>1. UNCHANGED <<readers, source, control>>
  BY DEF Acknowledge, ledgerVars
<1>2. ASSUME NEW m, NEW n, n.event = m.event PROVE Visible(n)' <=> Visible(m)
  BY <1>1, <1>2 DEF Visible, Live
<1> SUFFICES ASSUME NEW g \in Fellows, NEW n \in inbox'[g], control[n.event] = "none",
                    (n.seq <= readers[g].cursor /\ Visible(n)') \/ n.acked
             PROVE  n.event \in readers[g].seen
  BY <1>1 DEF PollsMissNothing
<1>3. CASE g # f
  <2>1. n \in inbox[g]
    BY <1>3, AcknowledgeFacts
  <2>2. Visible(n)' <=> Visible(n)
    BY <1>2
  <2> QED
    BY <2>1, <2>2 DEF PollsMissNothing
<1>4. CASE g = f
  <2>1. PICK m \in inbox[f] :
          /\ n.seq = m.seq /\ n.event = m.event
          /\ n = IF m.seq <= readers[f].cursor /\ Visible(m) THEN [m EXCEPT !.acked = TRUE] ELSE m
    BY <1>4, AcknowledgeFacts
  <2>2. Visible(n)' <=> Visible(m)
    BY <1>2, <2>1
  <2>3. (m.seq <= readers[f].cursor /\ Visible(m)) \/ m.acked
    BY <1>4, <2>1, <2>2
  <2> QED
    BY <1>4, <2>1, <2>3 DEF PollsMissNothing
<1> QED
  BY <1>3, <1>4

LEMMA PollsKept ==
    ASSUME TypeOK, QueueIsExact, NothingPrecedesItsEvent, InboxesAreInOrder, PollsMissNothing, [Next]_vars
    PROVE  PollsMissNothing'
<1> USE DEF ledgerVars
<1>1. ASSUME UNCHANGED <<inbox, readers>>,
             \A e \in Events : control'[e] = "none" => control[e] = "none",
             \A f \in Fellows : \A n \in inbox[f] :
                control'[n.event] = "none" /\ Visible(n)' => Visible(n)
      PROVE  PollsMissNothing'
  <2>1. \A f \in Fellows : \A n \in inbox[f] : n.event \in Events
    BY DEF TypeOK
  <2> QED
    BY <1>1, <2>1 DEF PollsMissNothing
<1>2. CASE UNCHANGED <<inbox, readers, source, control>>
  <2>1. \A n : Visible(n)' <=> Visible(n)
    BY <1>2 DEF Visible, Live
  <2> QED
    BY <1>1, <1>2, <2>1
<1>3. ASSUME NEW e \in Events, Publish(e) PROVE PollsMissNothing'
  <2>1. source[e] = "absent" /\ source' = [source EXCEPT ![e] = "public"]
    BY <1>3, PublishFacts
  <2>2. ASSUME NEW f \in Fellows, NEW n \in inbox[f], Visible(n)' PROVE Visible(n)
    <3>1. n.event \in Events /\ n.event # e
      BY <2>1 DEF NothingPrecedesItsEvent, TypeOK
    <3>2. source'[n.event] = source[n.event] /\ control' = control
      BY <1>3, <2>1, <3>1 DEF Publish, TypeOK
    <3> QED
      BY <2>2, <3>2 DEF Visible, Live
  <2> QED
    BY <1>1, <1>3, <2>2 DEF Publish
<1>4. ASSUME NEW e \in Events, Withdraw(e) PROVE PollsMissNothing'
  <2>1. \A x \in Events : source'[x] = "public" => source[x] = "public"
    BY <1>4 DEF Withdraw, TypeOK
  <2>2. ASSUME NEW f \in Fellows, NEW n \in inbox[f], Visible(n)' PROVE Visible(n)
    <3>1. n.event \in Events /\ control' = control
      BY <1>4 DEF Withdraw, TypeOK
    <3> QED
      BY <2>1, <2>2, <3>1 DEF Visible, Live
  <2> QED
    BY <1>1, <1>4, <2>2 DEF Withdraw
<1>12. ASSUME NEW e \in Events, Moderate(e) PROVE PollsMissNothing'
  <2>1. control'[e] # "none" /\ \A x \in Events \ {e} : control'[x] = control[x]
    BY <1>12 DEF Moderate, TypeOK
  <2>2. UNCHANGED <<inbox, readers, source>>
    BY <1>12 DEF Moderate
  <2>3. ASSUME NEW f \in Fellows, NEW n \in inbox[f], control'[n.event] = "none", Visible(n)'
        PROVE  Visible(n)
    <3>1. n.event \in Events
      BY DEF TypeOK
    <3> QED
      BY <2>1, <2>2, <2>3, <3>1 DEF Visible, Live
  <2> QED
    BY <1>1, <2>1, <2>2, <2>3
<1>5. ASSUME NEW e \in Events, List(e) PROVE PollsMissNothing'
  BY <1>2, <1>5 DEF List
<1>6. ASSUME NEW e \in Events, NEW f \in Fellows, NotifyFollower(e, f) PROVE PollsMissNothing'
  BY <1>6, NotifyKeepsPolls DEF NotifyFollower
<1>7. ASSUME NEW f \in Fellows, Follow(f) \/ Unfollow(f) PROVE PollsMissNothing'
  BY <1>2, <1>7 DEF Follow, Unfollow
<1>8. ASSUME NEW f \in Fellows, Poll(f) \/ Acknowledge(f) PROVE PollsMissNothing'
  BY <1>8, PollKeepsPolls, AcknowledgeKeepsPolls
<1>9. ASSUME NEW p \in Passes,
             Begin(p) \/ Check(p) \/ Spare(p) \/ ReadPage(p) \/ Fail(p) \/ Rotate(p)
      PROVE  PollsMissNothing'
  BY <1>2, <1>9 DEF Begin, Check, Spare, ReadPage, Fail, Rotate
<1>10. ASSUME NEW p \in Passes, Suppress(p) \/ Quarantine(p) \/ End(p) \/ Crash(p)
       PROVE  PollsMissNothing'
  BY <1>2, <1>10 DEF Suppress, Quarantine, Dispose, End, Crash, Ended
<1>11. ASSUME NEW p \in Passes, Deliver(p) \/ LoseAnswer(p) PROVE PollsMissNothing'
  <2>1. passes[p].at = "page" /\ passes[p].jobs # {} /\ Batch(p) /\ UNCHANGED <<readers, source, control>>
    BY <1>11 DEF Deliver, LoseAnswer, At
  <2>2. UNCHANGED inbox \/ \E S \in SUBSET Fellows, e \in Events : Notify(S, e)
    BY <2>1, BatchNotifies
  <2> QED
    BY <1>2, <2>1, <2>2, NotifyKeepsPolls
<1>13. CASE UNCHANGED vars
  BY <1>2, <1>13 DEF vars
<1> QED
  BY <1>3, <1>4, <1>5, <1>6, <1>7, <1>8, <1>9, <1>10, <1>11, <1>12, <1>13 DEF Next, Step

-----------------------------------------------------------------------------
(* Pages are sound *)

\* Whoever is not on a page comes after all who are, and there is more to read.
LEMMA PageFacts ==
    ASSUME NEW S \in SUBSET Fellows, NEW f \in S, f \notin Page(S)
    PROVE  Cardinality(S) > PageSize /\ \A g \in Page(S) : g < f
<1> DEFINE UpTo(x) == {g \in S : g <= x}
<1>1. IsFiniteSet(S) /\ S \in SUBSET Nat /\ Cardinality(S) \in Nat
  BY InboxConstants, FS_Subset, FS_CardinalityType
<1>2. ASSUME NEW A, A \subseteq S, NEW B, B \subseteq A
      PROVE  Cardinality(A) \in Nat /\ Cardinality(B) \in Nat /\ Cardinality(B) <= Cardinality(A)
  <2>1. IsFiniteSet(A)
    BY <1>1, <1>2, FS_Subset
  <2>2. IsFiniteSet(B) /\ Cardinality(B) <= Cardinality(A)
    BY <1>2, <2>1, FS_Subset
  <2> QED
    BY <2>1, <2>2, FS_CardinalityType
<1>3. ASSUME NEW x \in S PROVE Rank(x, S) = Cardinality(UpTo(x)) /\ UpTo(x) \subseteq S
  BY DEF Rank
<1>4. Rank(f, S) > PageSize /\ Rank(f, S) \in Nat
  <2>1. Rank(f, S) \in Nat
    BY <1>2, <1>3
  <2>2. ~(Rank(f, S) <= PageSize)
    BY DEF Page
  <2> QED
    BY <2>1, <2>2, InboxConstants
<1>5. Cardinality(S) > PageSize
  <2>1. Rank(f, S) <= Cardinality(S)
    BY <1>2, <1>3
  <2> QED
    BY <1>1, <1>4, <2>1, InboxConstants
<1>6. ASSUME NEW g \in Page(S) PROVE g < f
  <2>1. g \in S /\ Rank(g, S) <= PageSize
    BY DEF Page
  <2>2. g \in Nat /\ f \in Nat
    BY <1>1, <2>1
  <2>3. ASSUME f <= g PROVE FALSE
    <3>1. UpTo(f) \subseteq UpTo(g)
      <4>1. ASSUME NEW h \in S, h <= f PROVE h <= g
        <5>1. h \in Nat
          BY <1>1
        <5> QED
          BY <2>2, <2>3, <4>1, <5>1
      <4> QED
        BY <4>1
    <3>2. Rank(g, S) \in Nat /\ Rank(f, S) <= Rank(g, S)
      <4> HIDE DEF UpTo
      <4> QED
        BY <1>2, <1>3, <2>1, <3>1
    <3> QED
      BY <1>4, <2>1, <3>2, InboxConstants
  <2> QED
    BY <2>2, <2>3
<1> QED
  BY <1>5, <1>6

\* Nobody becomes a long-standing recipient of an event after it.
LEMMA LongStandingOnlyLost ==
    ASSUME TypeOK, NothingPrecedesItsEvent, [Next]_vars, NEW f \in Fellows, NEW e \in Published,
           LongStanding(f, e)'
    PROVE  LongStanding(f, e)
<1> USE DEF ledgerVars
<1>1. CASE Kind[e] # "revision"
  BY <1>1 DEF LongStanding, Recipient
<1>2. CASE Kind[e] = "revision"
  <2>1. /\ follows'[f] # None /\ follows'[f].stamp < e /\ follows'[f].made < e
    BY <1>2 DEF LongStanding, Recipient
  <2>2. CASE follows'[f] = follows[f]
    BY <1>2, <2>1, <2>2 DEF LongStanding, Recipient
  <2>3. CASE \E g \in Fellows : Follow(g) \/ Unfollow(g)
    <3>1. PICK g \in Fellows : Follow(g) \/ Unfollow(g)
      BY <2>3
    <3>2. CASE Unfollow(g)
      <4>1. follows' = [follows EXCEPT ![g] = None]
        BY <3>2 DEF Unfollow
      <4>2. CASE g = f
        BY <2>1, <4>1, <4>2 DEF TypeOK
      <4>3. CASE g # f
        BY <2>2, <4>1, <4>3 DEF TypeOK
      <4> QED
        BY <4>2, <4>3
    <3>3. CASE Follow(g)
      <4>1. PICK stamp \in Nat : follows' = [follows EXCEPT ![g] = [stamp |-> stamp, made |-> Latest]]
        BY <3>3 DEF Follow
      <4>2. CASE g = f
        <5>1. follows'[f].made = Latest
          BY <4>1, <4>2 DEF TypeOK
        <5>2. e <= Latest /\ Latest \in Nat /\ e \in Nat
          BY LatestFacts, InboxConstants DEF Published
        <5> QED
          BY <2>1, <5>1, <5>2
      <4>3. CASE g # f
        BY <2>2, <4>1, <4>3 DEF TypeOK
      <4> QED
        BY <4>2, <4>3
    <3> QED
      BY <3>1, <3>2, <3>3
  <2>4. UNCHANGED follows \/ \E g \in Fellows : Follow(g) \/ Unfollow(g)
    <3>1. CASE \E x \in Events : Publish(x) \/ Withdraw(x) \/ Moderate(x) \/ List(x)
      BY <3>1 DEF Publish, Withdraw, Moderate, List
    <3>2. CASE \E x \in Events, g \in Fellows : NotifyFollower(x, g)
      BY <3>2 DEF NotifyFollower
    <3>3. CASE \E g \in Fellows : Poll(g) \/ Acknowledge(g)
      BY <3>3 DEF Poll, Acknowledge
    <3>4. CASE \E p \in Passes : Begin(p) \/ Check(p) \/ Spare(p) \/ ReadPage(p) \/ Fail(p) \/ Rotate(p)
      BY <3>4 DEF Begin, Check, Spare, ReadPage, Fail, Rotate
    <3>5. CASE \E p \in Passes : Suppress(p) \/ Quarantine(p) \/ End(p) \/ Crash(p)
      BY <3>5 DEF Suppress, Quarantine, Dispose, End, Crash, Ended
    <3>6. CASE \E p \in Passes : Deliver(p) \/ LoseAnswer(p)
      BY <3>6 DEF Deliver, LoseAnswer
    <3>7. CASE UNCHANGED vars
      BY <3>7 DEF vars
    <3> QED
      BY <3>1, <3>2, <3>3, <3>4, <3>5, <3>6, <3>7 DEF Next, Step
  <2> QED
    BY <2>2, <2>3, <2>4
<1> QED
  BY <1>1, <1>2

\* A pass changes nobody's turn but its own, and holds a page only when it read one.
LEMMA PassStep ==
    ASSUME TypeOK, [Next]_vars, NEW p \in Passes
    PROVE  \/ passes'[p] = passes[p]
           \/ passes'[p].at # "page"
           \/ ReadPage(p)
<1> USE DEF ledgerVars
<1>1. ASSUME NEW q \in Passes, passes' = [passes EXCEPT ![q] = passes'[q]],
             passes'[q].at # "page" \/ ReadPage(q)
      PROVE  passes'[p] = passes[p] \/ passes'[p].at # "page" \/ ReadPage(p)
  BY <1>1 DEF TypeOK
<1>2. CASE UNCHANGED passes
  BY <1>2
<1>3. CASE \E x \in Events : Publish(x) \/ Withdraw(x) \/ Moderate(x) \/ List(x)
  BY <1>2, <1>3 DEF Publish, Withdraw, Moderate, List
<1>4. CASE \E x \in Events, g \in Fellows : NotifyFollower(x, g)
  BY <1>2, <1>4 DEF NotifyFollower
<1>5. CASE \E g \in Fellows : Follow(g) \/ Unfollow(g) \/ Poll(g) \/ Acknowledge(g)
  BY <1>2, <1>5 DEF Follow, Unfollow, Poll, Acknowledge
<1>6. ASSUME NEW q \in Passes, NEW w, passes' = [passes EXCEPT ![q] = w], w.at # "page" \/ ReadPage(q)
      PROVE  passes'[p] = passes[p] \/ passes'[p].at # "page" \/ ReadPage(p)
  BY <1>6 DEF TypeOK
<1>7. ASSUME NEW q \in Passes, Begin(q)
      PROVE  passes'[p] = passes[p] \/ passes'[p].at # "page" \/ ReadPage(p)
  <2>1. \E jobs : passes' = [passes EXCEPT ![q] = Turn(jobs)]
    BY <1>7 DEF Begin
  <2>2. \A jobs : Turn(jobs).at # "page"
    BY DEF Turn
  <2> QED
    BY <1>6, <2>1, <2>2
<1>8. ASSUME NEW q \in Passes, Done(q)
      PROVE  passes'[p] = passes[p] \/ passes'[p].at # "page" \/ ReadPage(p)
  <2>1. \A jobs : Turn(jobs).at # "page"
    BY DEF Turn
  <2> QED
    BY <1>6, <1>8, <2>1 DEF Done
<1>9. ASSUME NEW q \in Passes,
             Suppress(q) \/ Spare(q) \/ Quarantine(q) \/ Deliver(q) \/ Rotate(q)
      PROVE  passes'[p] = passes[p] \/ passes'[p].at # "page" \/ ReadPage(p)
  BY <1>8, <1>9 DEF Suppress, Spare, Quarantine, Dispose, Deliver, Rotate
<1>10. ASSUME NEW q \in Passes, Check(q) \/ Fail(q) \/ LoseAnswer(q)
       PROVE  passes'[p] = passes[p] \/ passes'[p].at # "page" \/ ReadPage(p)
  BY <1>10 DEF Check, Fail, LoseAnswer, TypeOK
<1>11. ASSUME NEW q \in Passes, ReadPage(q)
       PROVE  passes'[p] = passes[p] \/ passes'[p].at # "page" \/ ReadPage(p)
  BY <1>11 DEF ReadPage, TypeOK
<1>12. ASSUME NEW q \in Passes, End(q) \/ Crash(q)
       PROVE  passes'[p] = passes[p] \/ passes'[p].at # "page" \/ ReadPage(p)
  <2>1. NoPass.at # "page"
    BY DEF NoPass
  <2> QED
    BY <1>6, <1>12, <2>1 DEF End, Crash, Ended
<1>13. CASE UNCHANGED vars
  BY <1>2, <1>13 DEF vars
<1> QED
  BY <1>3, <1>4, <1>5, <1>7, <1>9, <1>10, <1>11, <1>12, <1>13 DEF Next, Step

LEMMA PagesKept ==
    ASSUME TypeOK, NothingPrecedesItsEvent, PagesAreSound, [Next]_vars
    PROVE  PagesAreSound'
<1> SUFFICES ASSUME NEW p \in Passes, At(p, "page")', NEW f \in Fellows,
                    (LongStanding(f, Snap(p).event) /\ f > Snap(p).after)'
             PROVE  \/ f \in passes'[p].page
                    \/ passes'[p].more /\ \A g \in passes'[p].page : g < f
  BY DEF PagesAreSound
<1>1. ASSUME Snap(p)' = Snap(p), NEW e, e = Snap(p).event
      PROVE  LongStanding(f, e)' /\ f > Snap(p).after
  BY <1>1 DEF LongStanding, Recipient
<1>2. CASE passes'[p] = passes[p]
  <2>1. Snap(p)' = Snap(p) /\ At(p, "page")
    BY <1>2 DEF Snap, At
  <2>2. PICK e \in Published : e = Snap(p).event
    <3>1. Snap(p).event \in Events /\ Snap(p) \in passes[p].jobs
      BY <2>1, SnapFacts DEF At
    <3> QED
      BY <3>1 DEF NothingPrecedesItsEvent, Published
  <2>3. LongStanding(f, e) /\ f > Snap(p).after
    BY <1>1, <2>1, <2>2, LongStandingOnlyLost
  <2>4. LongStanding(f, Snap(p).event)
    BY <2>2, <2>3
  <2> QED
    BY <1>2, <2>1, <2>3, <2>4 DEF PagesAreSound
<1>3. CASE ReadPage(p)
  <2>1. PICK e, S : e = Snap(p).event /\ S = Candidates(e, Snap(p).after)
    OBVIOUS
  <2>2. /\ passes[p].jobs # {}
        /\ passes'[p].jobs = passes[p].jobs /\ passes'[p].page = Page(S)
        /\ passes'[p].more = (Cardinality(S) > PageSize)
        /\ UNCHANGED follows
    BY <1>3, <2>1 DEF ReadPage, At, TypeOK, ledgerVars
  <2>3. Snap(p)' = Snap(p)
    BY <2>2 DEF Snap
  <2>4. Recipient(f, e) /\ f > Snap(p).after
    BY <1>1, <2>1, <2>2, <2>3 DEF LongStanding, Recipient
  <2>5. f \in S /\ S \in SUBSET Fellows
    BY <2>1, <2>4 DEF Candidates
  <2>6. f \in Page(S) \/ (Cardinality(S) > PageSize /\ \A g \in Page(S) : g < f)
    BY <2>5, PageFacts
  <2> QED
    BY <2>2, <2>6
<1> QED
  BY <1>2, <1>3, PassStep DEF At

-----------------------------------------------------------------------------
(* Nobody is skipped *)

\* What pass p does to the job at hand and the inboxes when its election is won.
Winning(p) ==
    LET e == Snap(p).event IN
    /\ At(p, "page") /\ e \in Events /\ Current(p) /\ Live(e)
    /\ Notify({f \in passes[p].page : Recipient(f, e)}, e)
    /\ job' = [job EXCEPT ![e] = [state |-> IF passes[p].more THEN "pending" ELSE "delivered",
                                  after |-> Advanced(Snap(p).after, passes[p].page)]]

\* Every step that touches a job or an inbox is one of these.
LEMMA StepFacts ==
    ASSUME TypeOK, QueueIsExact, NothingPrecedesItsEvent, [Next]_vars
    PROVE  \/ UNCHANGED <<job, inbox, source>>
           \/ \E e \in Events : Publish(e) /\ UNCHANGED inbox
           \/ \E e \in Events : Withdraw(e) /\ UNCHANGED <<job, inbox>>
           \/ \E e \in Events, f \in Fellows :
                 f \in writer[e].left /\ Notify({f}, e) /\ UNCHANGED <<job, source>>
           \/ \E f \in Fellows : Acknowledge(f) /\ UNCHANGED <<job, source>>
           \/ \E e \in Events, state \in {"suppressed", "quarantined"} :
                 /\ job[e].state = "pending" /\ job' = [job EXCEPT ![e].state = state]
                 /\ UNCHANGED <<inbox, source>>
           \/ \E p \in Passes : Winning(p) /\ UNCHANGED source
<1> USE DEF ledgerVars
<1> DEFINE Goal == \/ UNCHANGED <<job, inbox, source>>
                   \/ \E e \in Events : Publish(e) /\ UNCHANGED inbox
                   \/ \E e \in Events : Withdraw(e) /\ UNCHANGED <<job, inbox>>
                   \/ \E e \in Events, f \in Fellows :
                         f \in writer[e].left /\ Notify({f}, e) /\ UNCHANGED <<job, source>>
                   \/ \E f \in Fellows : Acknowledge(f) /\ UNCHANGED <<job, source>>
                   \/ \E e \in Events, state \in {"suppressed", "quarantined"} :
                         /\ job[e].state = "pending" /\ job' = [job EXCEPT ![e].state = state]
                         /\ UNCHANGED <<inbox, source>>
                   \/ \E p \in Passes : Winning(p) /\ UNCHANGED source
<1> SUFFICES Goal
  OBVIOUS
<1>1. CASE \E e \in Events : Publish(e)
  <2>1. \E e \in Events : Publish(e) /\ UNCHANGED inbox
    BY <1>1 DEF Publish
  <2> QED
    BY <2>1
<1>2. CASE \E e \in Events : Withdraw(e)
  <2>1. \E e \in Events : Withdraw(e) /\ UNCHANGED <<job, inbox>>
    BY <1>2 DEF Withdraw
  <2> QED
    BY <2>1
<1>3. CASE \E e \in Events : List(e) \/ Moderate(e)
  <2>1. UNCHANGED <<job, inbox, source>>
    BY <1>3 DEF List, Moderate
  <2> QED
    BY <2>1
<1>4. CASE \E e \in Events, f \in Fellows : NotifyFollower(e, f)
  BY <1>4 DEF NotifyFollower
<1>5. CASE \E f \in Fellows : Follow(f) \/ Unfollow(f) \/ Poll(f)
  <2>1. UNCHANGED <<job, inbox, source>>
    BY <1>5 DEF Follow, Unfollow, Poll
  <2> QED
    BY <2>1
<1>6. CASE \E f \in Fellows : Acknowledge(f)
  <2>1. \E f \in Fellows : Acknowledge(f) /\ UNCHANGED <<job, source>>
    BY <1>6 DEF Acknowledge
  <2> QED
    BY <2>1
<1>7. CASE \E p \in Passes : \/ Begin(p) \/ Check(p) \/ Spare(p) \/ ReadPage(p)
                             \/ Fail(p) \/ Rotate(p) \/ End(p) \/ Crash(p)
  <2>1. UNCHANGED <<job, inbox, source>>
    BY <1>7 DEF Begin, Check, Spare, ReadPage, Fail, Rotate, End, Crash, Ended
  <2> QED
    BY <2>1
<1>8. CASE \E p \in Passes : Suppress(p) \/ Quarantine(p)
  <2>1. PICK p \in Passes, state \in {"suppressed", "quarantined"} :
          Dispose(p, state) /\ passes[p].jobs # {}
    BY <1>8 DEF Suppress, Quarantine, At
  <2>2. /\ Snap(p).event \in Events
        /\ \/ UNCHANGED <<job, line>>
           \/ /\ job[Snap(p).event].state = "pending"
              /\ job' = [job EXCEPT ![Snap(p).event].state = state]
    BY <2>1, DisposeFacts
  <2>3. UNCHANGED <<inbox, source>>
    BY <2>1 DEF Dispose
  <2>4. \/ UNCHANGED <<job, inbox, source>>
        \/ \E e \in Events : /\ job[e].state = "pending" /\ job' = [job EXCEPT ![e].state = state]
                             /\ UNCHANGED <<inbox, source>>
    BY <2>2, <2>3
  <2> HIDE DEF Goal
  <2>5. \A x \in {"suppressed", "quarantined"} : \A e \in Events :
           /\ job[e].state = "pending" /\ job' = [job EXCEPT ![e].state = x]
           /\ UNCHANGED <<inbox, source>>
           => Goal
    BY DEF Goal
  <2>6. UNCHANGED <<job, inbox, source>> => Goal
    BY DEF Goal
  <2> QED
    BY <2>4, <2>5, <2>6
<1>9. CASE \E p \in Passes : Deliver(p) \/ LoseAnswer(p)
  <2>1. PICK p \in Passes : At(p, "page") /\ Batch(p) /\ UNCHANGED source
    BY <1>9 DEF Deliver, LoseAnswer
  <2>2. passes[p].at = "page" /\ passes[p].jobs # {}
    BY <2>1 DEF At
  <2>3. UNCHANGED <<inbox, job, line>> \/ Winning(p)
    BY <2>1, <2>2, BatchFacts DEF Winning
  <2>4. UNCHANGED <<job, inbox, source>> \/ \E q \in Passes : Winning(q) /\ UNCHANGED source
    BY <2>1, <2>3
  <2> QED
    BY <2>4
<1>10. CASE UNCHANGED vars
  BY <1>10 DEF vars
<1> HIDE DEF Goal
<1> QED
  BY <1>1, <1>2, <1>3, <1>4, <1>5, <1>6, <1>7, <1>8, <1>9, <1>10 DEF Next, Step

\* Nobody unlearns of an event.
LEMMA ToldKept ==
    ASSUME TypeOK, QueueIsExact, NothingPrecedesItsEvent, InboxesAreInOrder, [Next]_vars,
           NEW f \in Fellows, NEW e \in Events, Told(f, e)
    PROVE  Told(f, e)'
<1>1. CASE UNCHANGED inbox
  BY <1>1 DEF Told
<1>2. ASSUME NEW S, NEW x \in Events, Notify(S, x) PROVE Told(f, e)'
  BY <1>2, NotifyFacts
<1>3. ASSUME NEW g \in Fellows, Acknowledge(g) PROVE Told(f, e)'
  <2>1. PICK m \in inbox[f] : m.event = e
    BY DEF Told
  <2>2. CASE g = f
    <3>1. \E n \in inbox'[f] : n.event = m.event
      BY <1>3, <2>2, AcknowledgeFacts
    <3> QED
      BY <2>1, <3>1 DEF Told
  <2>3. CASE g # f
    <3>1. inbox'[f] = inbox[f]
      BY <1>3, <2>3, AcknowledgeFacts
    <3> QED
      BY <2>1, <3>1 DEF Told
  <2> QED
    BY <2>2, <2>3
<1>4. ASSUME NEW p \in Passes, Winning(p) PROVE Told(f, e)'
  BY <1>2, <1>4 DEF Winning
<1> QED
  BY <1>1, <1>2, <1>3, <1>4, StepFacts

\* The batch passes nobody who has been a recipient all along: whoever is behind the cursor it
\* found and not on its page comes after the page.
LEMMA WinningSkipsNobody ==
    ASSUME TypeOK, PagesAreSound, NobodySkipped, NEW p \in Passes, Winning(p),
           NEW f \in Fellows, NEW e \in Published, e = Snap(p).event, Passed(f, e)', LongStanding(f, e)
    PROVE  Told(f, e)'
<1> DEFINE S == {g \in passes[p].page : Recipient(g, e)}
<1>1. /\ At(p, "page") /\ e \in Events /\ job[e].after = Snap(p).after
      /\ Notify(S, e)
      /\ job' = [job EXCEPT ![e] = [state |-> IF passes[p].more THEN "pending" ELSE "delivered",
                                    after |-> Advanced(Snap(p).after, passes[p].page)]]
  BY DEF Winning, Current
<1>2. /\ Snap(p).after \in Fellows \cup {0} /\ passes[p].page \in SUBSET Fellows
      /\ passes[p].more \in BOOLEAN
  BY <1>1, SnapFacts DEF At, TypeOK
<1>3. Advanced(Snap(p).after, passes[p].page) \in {Snap(p).after} \cup passes[p].page
  BY <1>2, AdvancedFacts
<1>4. \/ ~passes[p].more
      \/ f <= Advanced(Snap(p).after, passes[p].page)
  BY <1>1 DEF Passed, TypeOK
<1>5. f \in Nat /\ Snap(p).after \in Nat /\ \A g \in passes[p].page : g \in Nat
  BY <1>2, InboxConstants
<1>6. CASE f <= Snap(p).after
  <2>1. Told(f, e)
    BY <1>1, <1>6 DEF NobodySkipped, Passed, LongStanding
  <2> HIDE DEF S
  <2> QED
    BY <1>1, <2>1, NotifyFacts
<1>7. CASE f > Snap(p).after
  <2>1. f \in passes[p].page
    <3>1. \/ f \in passes[p].page
          \/ passes[p].more /\ \A g \in passes[p].page : g < f
      BY <1>1, <1>7 DEF PagesAreSound
    <3>2. ASSUME passes[p].more, \A g \in passes[p].page : g < f PROVE FALSE
      BY <1>3, <1>4, <1>5, <1>7, <3>2
    <3> QED
      BY <3>1, <3>2
  <2>2. f \in S
    BY <2>1 DEF LongStanding
  <2> HIDE DEF S
  <2> QED
    BY <1>1, <2>2, NotifyFacts
<1> QED
  BY <1>5, <1>6, <1>7

LEMMA NobodySkippedKept ==
    ASSUME TypeOK, QueueIsExact, NothingPrecedesItsEvent, InboxesAreInOrder, PagesAreSound,
           NobodySkipped, [Next]_vars
    PROVE  NobodySkipped'
<1> SUFFICES ASSUME NEW f \in Fellows, NEW e \in Events, source'[e] # "absent",
                    Passed(f, e)', LongStanding(f, e)'
             PROVE  Told(f, e)'
  BY DEF NobodySkipped, Published, LongStanding
<1>1. ASSUME e \in Published, Passed(f, e) PROVE Told(f, e)'
  <2>1. LongStanding(f, e)
    BY <1>1, LongStandingOnlyLost
  <2>2. Told(f, e)
    BY <1>1, <2>1 DEF NobodySkipped, LongStanding
  <2> QED
    BY <2>2, ToldKept
<1>2. CASE UNCHANGED <<job, source>>
  BY <1>1, <1>2 DEF Published, Passed
<1>3. ASSUME NEW x \in Events, Publish(x) PROVE Told(f, e)'
  <2>1. /\ source' = [source EXCEPT ![x] = "public"] /\ job[x] = NoJob
        /\ job' = [job EXCEPT ![x].state = "pending"]
    BY <1>3, PublishFacts
  <2>2. CASE e = x
    <3>1. job'[e].state = "pending" /\ job'[e].after = 0
      BY <2>1, <2>2 DEF TypeOK, NoJob
    <3>2. ~Passed(f, e)'
      BY <3>1, InboxConstants DEF Passed
    <3> QED
      BY <3>2
  <2>3. CASE e # x
    BY <1>1, <2>1, <2>3 DEF Published, Passed, TypeOK
  <2> QED
    BY <2>2, <2>3
<1>4. ASSUME NEW x \in Events, Withdraw(x), UNCHANGED job PROVE Told(f, e)'
  <2>1. source[e] # "absent"
    BY <1>4 DEF Withdraw, TypeOK
  <2> QED
    BY <1>1, <1>4, <2>1 DEF Published, Passed
<1>5. ASSUME NEW x \in Events, NEW state \in {"suppressed", "quarantined"},
             job[x].state = "pending", job' = [job EXCEPT ![x].state = state], UNCHANGED source
      PROVE  Told(f, e)'
  <2>1. Passed(f, e)
    BY <1>5 DEF Passed, TypeOK
  <2> QED
    BY <1>1, <1>5, <2>1 DEF Published
<1>6. ASSUME NEW p \in Passes, Winning(p), UNCHANGED source PROVE Told(f, e)'
  <2>1. e \in Published
    BY <1>6 DEF Published
  <2>2. CASE e = Snap(p).event
    BY <1>6, <2>1, <2>2, LongStandingOnlyLost, WinningSkipsNobody
  <2>3. CASE e # Snap(p).event
    <3>1. job'[e] = job[e]
      BY <1>6, <2>3 DEF Winning, TypeOK
    <3> QED
      BY <1>1, <2>1, <3>1 DEF Passed
  <2> QED
    BY <2>2, <2>3
<1> QED
  BY <1>2, <1>3, <1>4, <1>5, <1>6, StepFacts

-----------------------------------------------------------------------------
(* The theorems *)

LEMMA InitInbox == Init => InboxInv
<1> SUFFICES ASSUME Init PROVE InboxInv
  OBVIOUS
<1>1. TypeOK
  <2>1. None \in [stamp : Int, made : Int] /\ [stamp |-> 0, made |-> 0] \in [stamp : Int, made : Int]
    BY DEF None
  <2>2. follows \in [Fellows -> [stamp : Int, made : Int]]
    <3> DEFINE First == {None, [stamp |-> 0, made |-> 0]}
    <3>1. follows \in [Fellows -> First] /\ First \subseteq [stamp : Int, made : Int]
      BY <2>1 DEF Init
    <3> HIDE DEF First
    <3> QED
      BY <3>1
  <2>3. NoPass \in Doings /\ NoJob \in JobTypes
    BY DEF NoPass, Doings, NoJob, JobTypes
  <2>4. 0 \in 0..MaxFaults /\ 0 \in 0..MaxChanges
    BY InboxConstants
  <2>5. /\ source \in [Events -> {"absent", "public", "redacted", "withdrawn"}]
        /\ control \in [Events -> {"none", "hidden", "visible"}]
        /\ job \in [Events -> JobTypes] /\ line \in Seq(Events \cup Passes)
        /\ inbox \in [Fellows -> SUBSET Notices] /\ passes \in [Passes -> Doings]
    BY <2>3 DEF Init
  <2>6. /\ writer \in [Events -> [due : BOOLEAN, left : SUBSET Fellows]]
        /\ readers \in [Fellows -> [cursor : Nat, seen : SUBSET Events]]
        /\ faults \in 0..MaxFaults /\ changes \in 0..MaxChanges
    BY <2>4 DEF Init
  <2> QED
    BY <2>2, <2>5, <2>6, TypeParts
<1>2. QueueIsExact
  <2>1. Range(line) = {} /\ IsInjective(line)
    BY DEF Init, Range, IsInjective
  <2>2. {e \in Events : job[e].state = "pending"} = {}
    BY DEF Init, NoJob
  <2>3. {p \in Passes : passes[p].at # "idle"} = {}
    BY DEF Init, NoPass
  <2> QED
    BY <2>1, <2>2, <2>3 DEF QueueIsExact
<1>3. Published = {}
  BY DEF Init, Published
<1>4. NothingPrecedesItsEvent
  BY <1>3, FS_EmptySet DEF Init, NothingPrecedesItsEvent, NoPass
<1>5. InboxesAreInOrder
  <2> SUFFICES ASSUME NEW f \in Fellows
               PROVE  /\ IsFiniteSet(inbox[f])
                      /\ {n.seq : n \in inbox[f]} = 1..(NextSeq(f) - 1)
                      /\ \A m, n \in inbox[f] : m.seq = n.seq \/ m.event = n.event => m = n
                      /\ readers[f].cursor < NextSeq(f)
    BY DEF InboxesAreInOrder
  <2>1. inbox[f] = {} /\ readers[f].cursor = 0 /\ IsFiniteSet({})
    BY FS_EmptySet DEF Init
  <2>2. {n.seq : n \in inbox[f]} = 1..0
    BY <2>1
  <2>3. NextSeq(f) = 1
    <3>1. Number({}) = 1
      <4>1. IsFiniteSet({}) /\ {} \in SUBSET Notices
        BY FS_EmptySet
      <4> QED
        BY <4>1, NumberFacts
    <3> QED
      BY <2>1, <3>1, NextSeqIsNumber
  <2> QED
    BY <2>1, <2>2, <2>3
<1>6. PagesAreSound
  BY DEF Init, PagesAreSound, At, NoPass
<1>7. NobodySkipped
  BY <1>3 DEF NobodySkipped
<1>8. PollsMissNothing
  BY DEF Init, PollsMissNothing
<1> QED
  BY <1>1, <1>2, <1>4, <1>5, <1>6, <1>7, <1>8 DEF InboxInv

LEMMA StepInbox == InboxInv /\ [Next]_vars => InboxInv'
<1> SUFFICES ASSUME InboxInv, [Next]_vars PROVE InboxInv'
  OBVIOUS
<1>1. TypeOK'
  BY TypesKept DEF InboxInv
<1>2. QueueIsExact' /\ NothingPrecedesItsEvent'
  BY QueueKept, PrecedesKept DEF InboxInv
<1>3. InboxesAreInOrder'
  BY <1>1, OrderKept DEF InboxInv
<1>4. PagesAreSound' /\ NobodySkipped' /\ PollsMissNothing'
  BY PagesKept, NobodySkippedKept, PollsKept DEF InboxInv
<1> QED
  BY <1>1, <1>2, <1>3, <1>4 DEF InboxInv

LEMMA InboxInvariant == Spec => []InboxInv
BY InitInbox, StepInbox, PTL DEF Spec

(* Every variable of the inbox keeps its kind: cursors are positive, as      *)
(* createInboxNotice requires (store.ts:307), and a pass never has a job in  *)
(* hand that is not a row.                                                   *)
THEOREM InboxTypes == Spec => []TypeOK
<1>1. InboxInv => TypeOK
  BY DEF InboxInv
<1> QED
  BY <1>1, InboxInvariant, PTL

(* Retries, overlapping passes, lost answers and Workers that die skip no    *)
(* recipient: whoever the cursor of a job has passed has the notice          *)
(* (event-delivery.ts:319-322), for any number of passes, jobs and fellows.  *)
THEOREM DeliverySkipsNobody == Spec => []NobodySkipped
<1>1. InboxInv => NobodySkipped
  BY DEF InboxInv
<1> QED
  BY <1>1, InboxInvariant, PTL

(* Polling by cursor: nothing a client may see is behind its cursor unread,  *)
(* and nothing unread is acknowledged (notice-write.ts:4-8), unless its      *)
(* source has once been hidden by a moderator.                               *)
THEOREM ClientsMissNothing == Spec => []PollsMissNothing
<1>1. InboxInv => PollsMissNothing
  BY DEF InboxInv
<1> QED
  BY <1>1, InboxInvariant, PTL

(* The sequence numbers of an inbox have no gap, and no inbox tells of an    *)
(* event twice, although the request of a revision and the passes write the  *)
(* same notices (the guarded insert of notice-write.ts).                     *)
THEOREM NumbersHaveNoGap == Spec => []InboxesAreInOrder
<1>1. InboxInv => InboxesAreInOrder
  BY DEF InboxInv
<1> QED
  BY <1>1, InboxInvariant, PTL

(* A batch elects its job on the source as it is then, and asks again who    *)
(* qualifies: it notifies nobody else, whatever its page said                *)
(* (event-delivery.ts:51-53).                                                *)
THEOREM DeliveryTellsOnlyRecipients == Spec => PassesTellOnlyRecipients
<1> DEFINE Told2(f, e) == (~Told(f, e) /\ Told(f, e)') =>
                              (Recipient(f, e) /\ Live(e)) \/ f \in writer[e].left
<1>1. InboxInv /\ [Next]_vars => \A e \in Events, f \in Fellows : Told2(f, e)
  <2> SUFFICES ASSUME InboxInv, [Next]_vars, NEW e \in Events, NEW f \in Fellows,
                      ~Told(f, e), Told(f, e)'
               PROVE  (Recipient(f, e) /\ Live(e)) \/ f \in writer[e].left
    OBVIOUS
  <2>1. TypeOK /\ QueueIsExact /\ NothingPrecedesItsEvent /\ InboxesAreInOrder
    BY DEF InboxInv
  <2>2. CASE UNCHANGED inbox
    BY <2>2 DEF Told
  <2>3. ASSUME NEW S, NEW x \in Events, Notify(S, x) PROVE x = e /\ f \in S
    BY <2>1, <2>3, NotifyFacts
  <2>4. ASSUME NEW x \in Events, NEW g \in Fellows, g \in writer[x].left, Notify({g}, x)
        PROVE  f \in writer[e].left
    <3>1. x = e /\ f \in {g}
      BY <2>3, <2>4
    <3> QED
      BY <2>4, <3>1
  <2>5. ASSUME NEW g \in Fellows, Acknowledge(g) PROVE FALSE
    <3>1. PICK n \in inbox'[f] : n.event = e
      BY DEF Told
    <3>2. \E m \in inbox[f] : m.event = n.event
      BY <2>1, <2>5, <3>1, AcknowledgeFacts
    <3> QED
      BY <3>1, <3>2 DEF Told
  <2>6. ASSUME NEW p \in Passes, Winning(p) PROVE Recipient(f, e) /\ Live(e)
    <3>1. PICK x \in Events : x = Snap(p).event
      BY <2>6 DEF Winning
    <3>2. Live(x) /\ Notify({g \in passes[p].page : Recipient(g, x)}, x)
      BY <2>6, <3>1 DEF Winning
    <3>3. x = e /\ f \in {g \in passes[p].page : Recipient(g, x)}
      BY <2>3, <3>2
    <3> QED
      BY <3>2, <3>3
  <2> QED
    BY <2>1, <2>2, <2>4, <2>5, <2>6, StepFacts
<1> HIDE DEF Told2
<1>2. InboxInv /\ [Next]_vars => [\A e \in Events, f \in Fellows : Told2(f, e)]_vars
  BY <1>1
<1>3. Spec => [][\A e \in Events, f \in Fellows : Told2(f, e)]_vars
  BY <1>2, InboxInvariant, PTL DEF Spec
<1> QED
  BY <1>3 DEF PassesTellOnlyRecipients, Told2

(* The compare-and-set on state and after_fellow_id: a settled job stays     *)
(* settled, and no cursor moves back, however old the snapshot of the pass   *)
(* that writes (event-delivery.ts, every UPDATE of inbox_event_deliveries).  *)
THEOREM StalePassesUndoNothing == Spec => ProgressIsKept
<1> DEFINE Kept(e) == /\ job[e].state # "pending" => job'[e] = job[e]
                      /\ job'[e].after >= job[e].after
<1>1. InboxInv /\ [Next]_vars => \A e \in Published : Kept(e)
  <2> SUFFICES ASSUME InboxInv, [Next]_vars, NEW e \in Published
               PROVE  Kept(e)
    OBVIOUS
  <2>1. TypeOK /\ QueueIsExact /\ NothingPrecedesItsEvent /\ e \in Events
    BY DEF InboxInv, Published
  <2>2. job[e].after \in Nat
    <3>1. job[e].after \in Fellows \cup {0}
      BY <2>1 DEF TypeOK
    <3>2. Fellows \cup {0} \subseteq Nat
      BY InboxConstants
    <3> QED
      BY <3>1, <3>2
  <2>3. CASE job'[e] = job[e]
    BY <2>2, <2>3
  <2>4. ASSUME NEW x \in Events, Publish(x) PROVE Kept(e)
    <3>1. source[x] = "absent" /\ job' = [job EXCEPT ![x].state = "pending"]
      BY <2>1, <2>4, PublishFacts
    <3>2. x # e
      BY <3>1 DEF Published
    <3>3. job'[e] = job[e]
      BY <2>1, <3>1, <3>2 DEF TypeOK
    <3> QED
      BY <2>3, <3>3
  <2>5. ASSUME NEW x \in Events, NEW state \in {"suppressed", "quarantined"},
               job[x].state = "pending", job' = [job EXCEPT ![x].state = state]
        PROVE  Kept(e)
    <3>1. CASE x = e
      BY <2>1, <2>2, <2>5, <3>1 DEF TypeOK
    <3>2. CASE x # e
      BY <2>1, <2>3, <2>5, <3>2 DEF TypeOK
    <3> QED
      BY <3>1, <3>2
  <2>6. ASSUME NEW p \in Passes, Winning(p) PROVE Kept(e)
    <3>1. CASE e = Snap(p).event
      <4>1. /\ job[e].state = "pending" /\ job[e].after = Snap(p).after
            /\ job'[e].after = Advanced(Snap(p).after, passes[p].page)
        BY <2>1, <2>6, <3>1 DEF Winning, Current, TypeOK
      <4>2. Snap(p).after \in Fellows \cup {0} /\ passes[p].page \in SUBSET Fellows
        BY <2>1, <2>6, SnapFacts DEF Winning, At, TypeOK
      <4>3. Advanced(Snap(p).after, passes[p].page) >= Snap(p).after
        BY <4>2, AdvancedFacts
      <4> QED
        BY <4>1, <4>3
    <3>2. CASE e # Snap(p).event
      BY <2>1, <2>3, <2>6, <3>2 DEF Winning, TypeOK
    <3> QED
      BY <3>1, <3>2
  <2>7. CASE UNCHANGED job
    BY <2>3, <2>7
  <2> HIDE DEF Kept
  <2> QED
    BY <2>1, <2>4, <2>5, <2>6, <2>7, StepFacts
<1> HIDE DEF Kept
<1>2. InboxInv /\ [Next]_vars => [\A e \in Published : Kept(e)]_vars
  BY <1>1
<1>3. Spec => [][\A e \in Published : Kept(e)]_vars
  BY <1>2, InboxInvariant, PTL DEF Spec
<1> QED
  BY <1>3 DEF ProgressIsKept, Kept

-----------------------------------------------------------------------------
(* The fan-out that is promised *)

\* Subscriptions change on their own.
LEMMA FollowsFacts ==
    ASSUME [Next]_vars
    PROVE  \/ UNCHANGED follows
           \/ \E f \in Fellows : (Follow(f) \/ Unfollow(f)) /\ UNCHANGED <<source, job, inbox>>
<1> USE DEF ledgerVars
<1>1. CASE \E e \in Events : Publish(e) \/ Withdraw(e) \/ Moderate(e) \/ List(e)
  BY <1>1 DEF Publish, Withdraw, Moderate, List
<1>2. CASE \E e \in Events, f \in Fellows : NotifyFollower(e, f)
  BY <1>2 DEF NotifyFollower
<1>3. CASE \E f \in Fellows : Follow(f) \/ Unfollow(f) \/ Poll(f) \/ Acknowledge(f)
  BY <1>3 DEF Follow, Unfollow, Poll, Acknowledge
<1>4. CASE \E p \in Passes : Begin(p) \/ Step(p) \/ LoseAnswer(p) \/ Crash(p)
  BY <1>4 DEF Begin, Step, LoseAnswer, Crash, Ended, Suppress, Spare, Check, Quarantine, Dispose, ReadPage,
              Deliver, Fail, Rotate, End
<1>5. CASE UNCHANGED vars
  BY <1>5 DEF vars
<1> QED
  BY <1>1, <1>2, <1>3, <1>4, <1>5 DEF Next

Untouched(e) ==
    /\ Stage(e)' = Stage(e)
    /\ job'[e].after = job[e].after
    /\ Owed(e)' = Owed(e)
    /\ \A f \in Fellows : Told(f, e)' <=> Told(f, e)

\* A step that changes nothing of any event is not a step of the promise.
LEMMA NothingHappens ==
    ASSUME \A e \in Events : Untouched(e)
    PROVE  UNCHANGED Promise!vars
<1>1. [e \in Events |-> Stage(e)]' = [e \in Events |-> Stage(e)]
  BY DEF Untouched
<1>2. [e \in Events |-> job[e].after]' = [e \in Events |-> job[e].after]
  BY DEF Untouched
<1>3. [e \in Events |-> Owed(e)]' = [e \in Events |-> Owed(e)]
  BY DEF Untouched
<1>4. \A e \in Events : {f \in Fellows : Told(f, e)}' = {f \in Fellows : Told(f, e)}
  BY DEF Untouched
<1>5. [e \in Events |-> {f \in Fellows : Told(f, e)}]' = [e \in Events |-> {f \in Fellows : Told(f, e)}]
  BY <1>4
<1> QED
  BY <1>1, <1>2, <1>3, <1>5 DEF Promise!vars

\* Whoever is owed a notice while nobody subscribes or leaves, and no event is appended.
LEMMA OwedKept ==
    ASSUME UNCHANGED follows, NEW e \in Events, (source'[e] = "absent") <=> (source[e] = "absent")
    PROVE  Owed(e)' = Owed(e)
<1>1. \A f \in Fellows : Recipient(f, e)' <=> Recipient(f, e)
  BY DEF Recipient
<1>2. \A f \in Fellows : LongStanding(f, e)' <=> LongStanding(f, e)
  BY <1>1 DEF LongStanding
<1> QED
  BY <1>2 DEF Owed

LEMMA FollowKeeps ==
    ASSUME InboxInv, [Next]_vars, NEW g \in Fellows, Follow(g), UNCHANGED <<source, job, inbox>>,
           NEW e \in Events
    PROVE  Untouched(e)
<1>1. TypeOK /\ NothingPrecedesItsEvent /\ follows[g] = None
  BY DEF InboxInv, Follow
<1>2. PICK now : follows' = [follows EXCEPT ![g] = now]
  BY DEF Follow
<1>3. ASSUME NEW f \in Fellows, e \in Published, LongStanding(f, e) PROVE LongStanding(f, e)'
  <2>1. CASE f # g
    <3>1. follows'[f] = follows[f]
      BY <1>1, <1>2, <2>1 DEF TypeOK
    <3> QED
      BY <1>3, <3>1 DEF LongStanding, Recipient
  <2>2. CASE f = g
    BY <1>1, <1>3, <2>2 DEF LongStanding, Recipient
  <2> QED
    BY <2>1, <2>2
<1>4. ASSUME NEW f \in Fellows, e \in Published PROVE LongStanding(f, e)' <=> LongStanding(f, e)
  BY <1>1, <1>3, <1>4, LongStandingOnlyLost
<1>5. Owed(e)' = Owed(e)
  BY <1>4 DEF Owed, Published
<1>6. Stage(e)' = Stage(e) /\ job'[e].after = job[e].after
  BY DEF Stage
<1>7. \A f \in Fellows : Told(f, e)' <=> Told(f, e)
  BY DEF Told
<1> QED
  BY <1>5, <1>6, <1>7 DEF Untouched

LEMMA UnfollowExcuses ==
    ASSUME TypeOK, NEW g \in Fellows, Unfollow(g), UNCHANGED <<source, job, inbox>>
    PROVE  Promise!Excuse(g)
<1> DEFINE revisions == {e \in Events : Kind[e] = "revision"}
<1>1. follows' = [follows EXCEPT ![g] = None]
  BY DEF Unfollow
<1>2. follows'[g] = None /\ \A f \in Fellows \ {g} : follows'[f] = follows[f]
  BY <1>1 DEF TypeOK
<1>3. ASSUME NEW e \in Events, Kind[e] # "revision" PROVE Owed(e)' = Owed(e)
  BY <1>3 DEF Owed, LongStanding, Recipient
<1>4. ASSUME NEW e \in Events, Kind[e] = "revision" PROVE Owed(e)' = Owed(e) \ {g}
  <2>1. \A f \in Fellows \ {g} : LongStanding(f, e)' <=> LongStanding(f, e)
    BY <1>2 DEF LongStanding, Recipient
  <2>2. ~LongStanding(g, e)'
    BY <1>2, <1>4 DEF LongStanding, Recipient
  <2> QED
    BY <2>1, <2>2 DEF Owed
<1>5. \A e \in Events : Owed(e)' = IF e \in revisions THEN Owed(e) \ {g} ELSE Owed(e)
  BY <1>3, <1>4
<1>6. [e \in Events |-> Stage(e)]' = [e \in Events |-> Stage(e)]
  BY DEF Stage
<1>7. [e \in Events |-> job[e].after]' = [e \in Events |-> job[e].after]
  OBVIOUS
<1>8. [e \in Events |-> {f \in Fellows : Told(f, e)}]' = [e \in Events |-> {f \in Fellows : Told(f, e)}]
  BY DEF Told
<1>9. revisions \in SUBSET Events
  OBVIOUS
<1> HIDE DEF revisions
<1>10. [e \in Events |-> Owed(e)]' =
          [e \in Events |-> IF e \in revisions THEN [x \in Events |-> Owed(x)][e] \ {g}
                            ELSE [x \in Events |-> Owed(x)][e]]
  BY <1>5
<1> QED
  BY <1>6, <1>7, <1>8, <1>9, <1>10 DEF Promise!Excuse

LEMMA PublishEnters ==
    ASSUME InboxInv, NEW e \in Events, Publish(e), UNCHANGED inbox
    PROVE  Promise!Enter(e)
<1>1. TypeOK /\ NothingPrecedesItsEvent
  BY DEF InboxInv
<1>2. /\ source[e] = "absent" /\ job[e] = NoJob
      /\ source' = [source EXCEPT ![e] = "public"]
      /\ job' = [job EXCEPT ![e].state = "pending"]
  BY <1>1, PublishFacts
<1>3. UNCHANGED follows
  BY DEF Publish
<1>4. \A x \in Events \ {e} : source'[x] = source[x] /\ job'[x] = job[x]
  BY <1>1, <1>2 DEF TypeOK
<1>5. source'[e] = "public" /\ job'[e].state = "pending" /\ \A x \in Events : job'[x].after = job[x].after
  BY <1>1, <1>2 DEF TypeOK
<1>6. Stage(e) = "absent" /\ \A x \in Events : Stage(x)' = IF x = e THEN "open" ELSE Stage(x)
  BY <1>2, <1>4, <1>5 DEF Stage
<1>7. Owed(e)' \in SUBSET Fellows /\ \A x \in Events \ {e} : Owed(x)' = Owed(x)
  <2>1. \A x \in Events \ {e} : Owed(x)' = Owed(x)
    BY <1>3, <1>4, OwedKept
  <2> QED
    BY <2>1 DEF Owed
<1>8. [x \in Events |-> Stage(x)]' = [[x \in Events |-> Stage(x)] EXCEPT ![e] = "open"]
  BY <1>6
<1>9. [x \in Events |-> Owed(x)]' = [[x \in Events |-> Owed(x)] EXCEPT ![e] = Owed(e)']
  BY <1>7
<1>10. [x \in Events |-> job[x].after]' = [x \in Events |-> job[x].after]
  BY <1>5
<1>11. [x \in Events |-> {f \in Fellows : Told(f, x)}]' = [x \in Events |-> {f \in Fellows : Told(f, x)}]
  BY DEF Told
<1> QED
  BY <1>6, <1>7, <1>8, <1>9, <1>10, <1>11 DEF Promise!Enter

LEMMA WithdrawKeeps ==
    ASSUME TypeOK, NEW x \in Events, Withdraw(x), UNCHANGED <<job, inbox>>, NEW e \in Events
    PROVE  Untouched(e)
<1>1. (source'[e] = "absent") <=> (source[e] = "absent")
  BY DEF Withdraw, TypeOK
<1>2. UNCHANGED follows
  BY DEF Withdraw
<1>3. Owed(e)' = Owed(e)
  BY <1>1, <1>2, OwedKept
<1>4. Stage(e)' = Stage(e) /\ job'[e].after = job[e].after
  BY <1>1 DEF Stage
<1>5. \A f \in Fellows : Told(f, e)' <=> Told(f, e)
  BY DEF Told
<1> QED
  BY <1>3, <1>4, <1>5 DEF Untouched

LEMMA AcknowledgeKeeps ==
    ASSUME InboxInv, [Next]_vars, NEW g \in Fellows, Acknowledge(g), UNCHANGED <<follows, job, source>>,
           NEW e \in Events
    PROVE  Untouched(e)
<1>1. TypeOK /\ QueueIsExact /\ NothingPrecedesItsEvent /\ InboxesAreInOrder
  BY DEF InboxInv
<1>2. ASSUME NEW f \in Fellows, Told(f, e)' PROVE Told(f, e)
  <2>1. PICK n \in inbox'[f] : n.event = e
    BY <1>2 DEF Told
  <2>2. \E m \in inbox[f] : m.event = e
    BY <1>1, <2>1, AcknowledgeFacts
  <2> QED
    BY <2>2 DEF Told
<1>3. \A f \in Fellows : Told(f, e)' <=> Told(f, e)
  BY <1>1, <1>2, ToldKept
<1>4. Owed(e)' = Owed(e)
  BY OwedKept
<1>5. Stage(e)' = Stage(e) /\ job'[e].after = job[e].after
  BY DEF Stage
<1> QED
  BY <1>3, <1>4, <1>5 DEF Untouched

\* The request of a revision tells the fellow whose turn it is.
LEMMA NotifyTells ==
    ASSUME InboxInv, NEW e \in Events, NEW g \in Fellows, g \in writer[e].left, Notify({g}, e),
           UNCHANGED <<follows, job, source>>
    PROVE  Promise!Tell(e, g)
<1>1. TypeOK /\ NothingPrecedesItsEvent
  BY DEF InboxInv
<1>2. source[e] # "absent"
  BY <1>1 DEF NothingPrecedesItsEvent
<1>3. Stage(e) # "absent"
  BY <1>2 DEF Stage
<1>4. \A f \in Fellows : Told(f, e)' <=> Told(f, e) \/ f = g
  BY <1>1, NotifyFacts
<1>5. \A x \in Events \ {e}, f \in Fellows : Told(f, x)' <=> Told(f, x)
  BY <1>1, NotifyFacts
<1>6. {f \in Fellows : Told(f, e)}' = {f \in Fellows : Told(f, e)} \cup {g}
  BY <1>4
<1>7. \A x \in Events \ {e} : {f \in Fellows : Told(f, x)}' = {f \in Fellows : Told(f, x)}
  BY <1>5
<1>8. [x \in Events |-> {f \in Fellows : Told(f, x)}]' =
         [[x \in Events |-> {f \in Fellows : Told(f, x)}] EXCEPT ![e] = @ \cup {g}]
  BY <1>6, <1>7
<1>9. [x \in Events |-> Stage(x)]' = [x \in Events |-> Stage(x)]
  BY DEF Stage
<1>10. [x \in Events |-> Owed(x)]' = [x \in Events |-> Owed(x)]
  BY OwedKept
<1>11. [x \in Events |-> job[x].after]' = [x \in Events |-> job[x].after]
  OBVIOUS
<1> QED
  BY <1>3, <1>8, <1>9, <1>10, <1>11 DEF Promise!Tell

LEMMA SettlingDrops ==
    ASSUME InboxInv, NEW e \in Events, NEW state \in {"suppressed", "quarantined"},
           job[e].state = "pending", job' = [job EXCEPT ![e].state = state],
           UNCHANGED <<follows, inbox, source>>
    PROVE  Promise!Drop(e)
<1>1. TypeOK /\ NothingPrecedesItsEvent
  BY DEF InboxInv
<1>2. source[e] # "absent"
  BY <1>1 DEF NothingPrecedesItsEvent, NoJob
<1>3. /\ job'[e].state = state /\ \A x \in Events \ {e} : job'[x] = job[x]
      /\ \A x \in Events : job'[x].after = job[x].after
  BY <1>1 DEF TypeOK
<1>4. Stage(e) = "open" /\ \A x \in Events : Stage(x)' = IF x = e THEN "dropped" ELSE Stage(x)
  BY <1>2, <1>3 DEF Stage
<1>5. [x \in Events |-> Stage(x)]' = [[x \in Events |-> Stage(x)] EXCEPT ![e] = "dropped"]
  BY <1>4
<1>6. [x \in Events |-> Owed(x)]' = [x \in Events |-> Owed(x)]
  BY OwedKept
<1>7. [x \in Events |-> job[x].after]' = [x \in Events |-> job[x].after]
  BY <1>3
<1>8. [x \in Events |-> {f \in Fellows : Told(f, x)}]' = [x \in Events |-> {f \in Fellows : Told(f, x)}]
  BY DEF Told
<1> QED
  BY <1>4, <1>5, <1>6, <1>7, <1>8 DEF Promise!Drop

\* The batch of a pass that is elected announces its page, and passes nobody who is owed a notice.
LEMMA WinningAnnounces ==
    ASSUME InboxInv, NEW p \in Passes, Winning(p), UNCHANGED <<follows, source>>,
           NEW e, e = Snap(p).event,
           NEW last, last = Advanced(Snap(p).after, passes[p].page),
           NEW next, next = IF passes[p].more THEN "open" ELSE "complete",
           NEW state, state = IF passes[p].more THEN "pending" ELSE "delivered",
           NEW fellows, fellows = {f \in passes[p].page : Recipient(f, e)}
    PROVE  e \in Events /\ fellows \in SUBSET Fellows /\ Promise!Announce(e, fellows, last, next)
<1>1. TypeOK /\ NothingPrecedesItsEvent /\ PagesAreSound /\ NobodySkipped
  BY DEF InboxInv
<1>2. /\ At(p, "page") /\ e \in Events /\ job[e].state = "pending" /\ job[e].after = Snap(p).after
      /\ source[e] = "public" /\ Notify(fellows, e)
      /\ job' = [job EXCEPT ![e] = [state |-> state, after |-> last]]
  BY DEF Winning, Current, Live
<1>3. /\ passes[p].page \in SUBSET Fellows /\ passes[p].more \in BOOLEAN
      /\ Snap(p).after \in Fellows \cup {0}
  BY <1>1, <1>2, SnapFacts DEF TypeOK, At
<1>4. last >= job[e].after
  BY <1>2, <1>3, AdvancedFacts
<1>5. fellows \in SUBSET Fellows
  BY <1>3
<1>6. e \in Published
  BY <1>2 DEF Published
<1>7. /\ job'[e] = [state |-> state, after |-> last]
      /\ \A x \in Events \ {e} : job'[x] = job[x]
  BY <1>1, <1>2 DEF TypeOK
<1>8. Stage(e) = "open" /\ Stage(e)' = next /\ \A x \in Events \ {e} : Stage(x)' = Stage(x)
  <2>1. Stage(e) = "open"
    BY <1>2 DEF Stage
  <2>2. Stage(e)' = next
    BY <1>2, <1>3, <1>7 DEF Stage
  <2>3. \A x \in Events \ {e} : Stage(x)' = Stage(x)
    BY <1>7 DEF Stage
  <2> QED
    BY <2>1, <2>2, <2>3
<1>9. \A f \in Fellows : Told(f, e)' <=> Told(f, e) \/ f \in fellows
  BY <1>1, <1>2, NotifyFacts
<1>10. \A x \in Events \ {e}, f \in Fellows : Told(f, x)' <=> Told(f, x)
  BY <1>1, <1>2, NotifyFacts
<1>11. ASSUME NEW f \in Owed(e), f <= last \/ next = "complete"
       PROVE  Told(f, e) \/ f \in fellows
  <2>1. f \in Fellows /\ LongStanding(f, e)
    BY DEF Owed
  <2>2. Passed(f, e)'
    BY <1>7, <1>11 DEF Passed
  <2>3. Told(f, e)'
    BY <1>1, <1>6, <2>1, <2>2, WinningSkipsNobody
  <2> QED
    BY <1>9, <2>1, <2>3
<1>12. [x \in Events |-> Stage(x)]' = [[x \in Events |-> Stage(x)] EXCEPT ![e] = next]
  BY <1>8
<1>13. [x \in Events |-> job[x].after]' = [[x \in Events |-> job[x].after] EXCEPT ![e] = last]
  <2>1. \A x \in Events : job'[x].after = IF x = e THEN last ELSE job[x].after
    BY <1>7
  <2> QED
    BY <2>1
<1>14. [x \in Events |-> {f \in Fellows : Told(f, x)}]' =
          [[x \in Events |-> {f \in Fellows : Told(f, x)}] EXCEPT ![e] = @ \cup fellows]
  <2>1. {f \in Fellows : Told(f, e)}' = {f \in Fellows : Told(f, e)} \cup fellows
    BY <1>5, <1>9
  <2>2. \A x \in Events \ {e} : {f \in Fellows : Told(f, x)}' = {f \in Fellows : Told(f, x)}
    BY <1>10
  <2> QED
    BY <2>1, <2>2
<1>15. [x \in Events |-> Owed(x)]' = [x \in Events |-> Owed(x)]
  BY OwedKept
<1>16. \A f \in Owed(e) : f <= last \/ next = "complete" => f \in {g \in Fellows : Told(g, e)} \cup fellows
  BY <1>11 DEF Owed
<1>17. Promise!Announce(e, fellows, last, next)
  BY <1>2, <1>4, <1>8, <1>12, <1>13, <1>14, <1>15, <1>16 DEF Promise!Announce
<1> QED
  BY <1>2, <1>5, <1>17

(* Overlapping passes, lost answers, rotations, Workers that die, and the    *)
(* requests that notify by themselves are a fan-out in the order of the      *)
(* fellows that passes over nobody who has been owed a notice all along,     *)
(* takes no notice back, never moves its cursor back, and stays closed once  *)
(* it is (deliverInboxEvents, event-delivery.ts:319-322).                    *)
THEOREM FanOutImplemented == Spec => ImplementsFanOut
<1>1. Init => Promise!Init
  <2> SUFFICES ASSUME Init PROVE Promise!Init
    OBVIOUS
  <2>1. \A e \in Events : Stage(e) = "absent" /\ job[e].after = 0 /\ Owed(e) = {}
    BY DEF Init, Stage, Owed, NoJob
  <2>2. \A e \in Events : {f \in Fellows : Told(f, e)} = {}
    BY DEF Init, Told
  <2> QED
    BY <2>1, <2>2 DEF Promise!Init
<1>2. InboxInv /\ [Next]_vars => [Promise!Next]_(Promise!vars)
  <2> SUFFICES ASSUME InboxInv, [Next]_vars
               PROVE  Promise!Next \/ UNCHANGED Promise!vars
    OBVIOUS
  <2>1. TypeOK /\ QueueIsExact /\ NothingPrecedesItsEvent
    BY DEF InboxInv
  <2>2. CASE \E f \in Fellows : (Follow(f) \/ Unfollow(f)) /\ UNCHANGED <<source, job, inbox>>
    <3>1. PICK f \in Fellows : (Follow(f) \/ Unfollow(f)) /\ UNCHANGED <<source, job, inbox>>
      BY <2>2
    <3>2. CASE Follow(f)
      BY <3>1, <3>2, FollowKeeps, NothingHappens
    <3>3. CASE Unfollow(f)
      BY <2>1, <3>1, <3>3, UnfollowExcuses DEF Promise!Next
    <3> QED
      BY <3>1, <3>2, <3>3
  <2>3. CASE UNCHANGED follows
    <3>1. CASE UNCHANGED <<job, inbox, source>>
      <4>1. ASSUME NEW e \in Events PROVE Untouched(e)
        BY <2>3, <3>1, OwedKept DEF Untouched, Stage, Told
      <4> QED
        BY <4>1, NothingHappens
    <3>2. ASSUME NEW e \in Events, Publish(e), UNCHANGED inbox PROVE Promise!Next
      BY <3>2, PublishEnters DEF Promise!Next
    <3>3. ASSUME NEW e \in Events, Withdraw(e), UNCHANGED <<job, inbox>> PROVE UNCHANGED Promise!vars
      BY <2>1, <3>3, WithdrawKeeps, NothingHappens
    <3>4. ASSUME NEW e \in Events, NEW f \in Fellows, f \in writer[e].left, Notify({f}, e),
                 UNCHANGED <<job, source>>
          PROVE  Promise!Next
      BY <2>3, <3>4, NotifyTells DEF Promise!Next
    <3>5. ASSUME NEW f \in Fellows, Acknowledge(f), UNCHANGED <<job, source>>
          PROVE  UNCHANGED Promise!vars
      BY <2>3, <3>5, AcknowledgeKeeps, NothingHappens
    <3>6. ASSUME NEW e \in Events, NEW state \in {"suppressed", "quarantined"},
                 job[e].state = "pending", job' = [job EXCEPT ![e].state = state],
                 UNCHANGED <<inbox, source>>
          PROVE  Promise!Next
      BY <2>3, <3>6, SettlingDrops DEF Promise!Next
    <3>7. ASSUME NEW p \in Passes, Winning(p), UNCHANGED source PROVE Promise!Next
      <4>1. At(p, "page") /\ passes[p].page \in SUBSET Fellows
        BY <2>1, <3>7 DEF Winning, TypeOK
      <4>2. PICK e : e = Snap(p).event
        OBVIOUS
      <4>3. PICK last : last = Advanced(Snap(p).after, passes[p].page)
        OBVIOUS
      <4>4. PICK next : next = IF passes[p].more THEN "open" ELSE "complete"
        OBVIOUS
      <4>5. PICK state : state = IF passes[p].more THEN "pending" ELSE "delivered"
        OBVIOUS
      <4>6. PICK fellows : fellows = {f \in passes[p].page : Recipient(f, e)}
        OBVIOUS
      <4>7. last \in Fellows \cup {0} /\ next \in {"open", "complete"}
        BY <2>1, <4>1, <4>3, <4>4, SnapFacts, AdvancedFacts DEF At
      <4>8. e \in Events /\ fellows \in SUBSET Fellows /\ Promise!Announce(e, fellows, last, next)
        BY <2>3, <3>7, <4>2, <4>3, <4>4, <4>5, <4>6, WinningAnnounces
      <4> QED
        BY <4>7, <4>8 DEF Promise!Next
    <3> QED
      BY <2>1, <3>1, <3>2, <3>3, <3>4, <3>5, <3>6, <3>7, StepFacts
  <2> QED
    BY <2>2, <2>3, FollowsFacts
<1> QED
  BY <1>1, <1>2, InboxInvariant, PTL DEF Spec, ImplementsFanOut, Promise!Spec
=============================================================================
