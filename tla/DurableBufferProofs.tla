------------------------- MODULE DurableBufferProofs -------------------------
(***************************************************************************)
(* Proofs about DurableBuffer, for every number of anchors, every size of   *)
(* queue, replay window and file, and any number of crashes and failed      *)
(* writes.                                                                  *)
(*                                                                          *)
(* First the sequences of entries a write, a rotation and a restart make;   *)
(* then what each operation of the log does while the process runs; then    *)
(* what each step of the buffer brings into memory, from the proofs about   *)
(* FlushBuffer; and last the invariant that ties the two together.          *)
(***************************************************************************)
EXTENDS DurableBuffer, OnceSequences

-----------------------------------------------------------------------------
(* The log: lines, numbers and the replay set *)

\* What TypeOK says of the file, and the sequences of entries an action makes.
FileOK == /\ file \in Seq(Wal!Entry) /\ tail \in Wal!Tails
          /\ tail = "bare" => file # <<>>

OrderedLog(s) == \A i, j \in DOMAIN s : i < j => s[i].seq < s[j].seq
AtMost(s, n) == \A i \in DOMAIN s : s[i].seq <= n

LEMMA EntryTyped ==
    ASSUME NEW s \in Seq(Wal!Entry)
    PROVE  /\ Len(s) \in Nat /\ DOMAIN s = 1..Len(s)
           /\ \A i \in DOMAIN s : /\ s[i] \in Wal!Entry /\ s[i].seq \in Nat \ {0}
                                  /\ s[i].anchor \in Anchor
           /\ Range(s) \subseteq Wal!Entry
<1>1. /\ Len(s) \in Nat /\ DOMAIN s = 1..Len(s)
      /\ \A i \in DOMAIN s : s[i] \in Wal!Entry
  BY LenProperties, ElementOfSeq
<1>2. \A e \in Wal!Entry : e.seq \in Nat \ {0} /\ e.anchor \in Anchor
  BY DEF Wal!Entry
<1> QED
  BY <1>1, <1>2 DEF Range

\* A line with a number above all the others.
LEMMA AppendOrdered ==
    ASSUME NEW s \in Seq(Wal!Entry), OrderedLog(s), NEW e \in Wal!Entry,
           NEW n \in Nat, AtMost(s, n), n < e.seq
    PROVE  /\ OrderedLog(Append(s, e)) /\ AtMost(Append(s, e), e.seq)
           /\ Append(s, e) \in Seq(Wal!Entry) /\ Append(s, e) # <<>>
           /\ Range(Append(s, e)) = Range(s) \cup {e} /\ Last(Append(s, e)) = e
<1> DEFINE t == Append(s, e)
<1>1. /\ t \in Seq(Wal!Entry) /\ Len(t) = Len(s) + 1 /\ t[Len(s) + 1] = e
      /\ \A i \in 1..Len(s) : t[i] = s[i]
      /\ Range(t) = Range(s) \cup {e}
  BY AppendProperties, AppendOnce
<1>2. DOMAIN t = 1..(Len(s) + 1) /\ Len(s) \in Nat /\ DOMAIN s = 1..Len(s)
  BY <1>1, EntryTyped, LenProperties
<1>3. e.seq \in Nat /\ \A i \in DOMAIN s : s[i].seq \in Nat /\ s[i].seq < e.seq
  <2>1. e.seq \in Nat
    BY DEF Wal!Entry
  <2>2. \A i \in DOMAIN s : s[i].seq \in Nat /\ s[i].seq <= n
    BY EntryTyped DEF AtMost
  <2> QED
    BY <2>1, <2>2
<1> HIDE DEF t
<1>4. OrderedLog(t)
  <2> SUFFICES ASSUME NEW i \in DOMAIN t, NEW j \in DOMAIN t, i < j
               PROVE  t[i].seq < t[j].seq
    BY DEF OrderedLog
  <2>1. CASE j = Len(s) + 1
    BY <1>1, <1>2, <1>3, <2>1
  <2>2. CASE j # Len(s) + 1
    <3>1. i \in DOMAIN s /\ j \in DOMAIN s /\ t[i] = s[i] /\ t[j] = s[j]
      BY <1>1, <1>2, <2>2
    <3> QED
      BY <3>1 DEF OrderedLog
  <2> QED
    BY <2>1, <2>2
<1>5. AtMost(t, e.seq)
  BY <1>1, <1>2, <1>3 DEF AtMost
<1>6. t # <<>>
  BY <1>1, <1>2
<1>7. Last(t) = e
  BY <1>1 DEF Last
<1> QED
  BY <1>1, <1>4, <1>5, <1>6, <1>7 DEF t

\* The file without its last line.
LEMMA FrontOrdered ==
    ASSUME NEW s \in Seq(Wal!Entry), s # <<>>, OrderedLog(s), NEW n \in Nat, AtMost(s, n)
    PROVE  /\ OrderedLog(Front(s)) /\ AtMost(Front(s), n)
           /\ Front(s) \in Seq(Wal!Entry)
           /\ \A e \in Range(s) : e \in Range(Front(s)) \/ e = Last(s)
<1> DEFINE t == Front(s)
           m == Len(s) - 1
<1>1. Len(s) \in Nat /\ Len(s) # 0 /\ DOMAIN s = 1..Len(s)
  BY EntryTyped, EmptySeq
<1>2. m \in 0..Len(s) /\ t = SubSeq(s, 1, m) /\ \A i \in 1..m : s[i] \in Wal!Entry
  BY <1>1, EntryTyped DEF Front
<1>3. t \in Seq(Wal!Entry) /\ Len(t) = m /\ \A i \in 1..m : t[i] = s[i]
  <2>1. 1 \in Int /\ m \in Int /\ 1 <= m + 1
    BY <1>2
  <2> HIDE DEF t, m
  <2>2. t \in Seq(Wal!Entry)
    BY <1>2, <2>1, SubSeqProperties
  <2>3. Len(t) = IF 1 <= m THEN m - 1 + 1 ELSE 0
    BY <1>2, <2>1, SubSeqProperties
  <2>4. \A i \in 1..(m - 1 + 1) : t[i] = s[1 + i - 1]
    BY <1>2, <2>1, SubSeqProperties
  <2>5. m \in Nat /\ m - 1 + 1 = m /\ \A i \in 1..m : 1 + i - 1 = i
    BY <1>2
  <2> QED
    BY <2>2, <2>3, <2>4, <2>5
<1>4. DOMAIN t = 1..m
  BY <1>3, LenProperties
<1> HIDE DEF t
<1>5. OrderedLog(t) /\ AtMost(t, n)
  BY <1>1, <1>3, <1>4 DEF OrderedLog, AtMost
<1>6. ASSUME NEW e \in Range(s) PROVE e \in Range(t) \/ e = Last(s)
  <2>1. PICK i \in DOMAIN s : e = s[i]
    BY DEF Range
  <2>2. i \in 1..m \/ i = Len(s)
    BY <1>1
  <2> QED
    BY <1>3, <1>4, <2>1, <2>2 DEF Range, Last
<1> QED
  BY <1>3, <1>5, <1>6 DEF t

\* The entries after a checkpoint.
LEMMA PickedOrdered ==
    ASSUME NEW s \in Seq(Wal!Entry), OrderedLog(s), NEW n \in Nat, AtMost(s, n),
           NEW c \in Nat
    PROVE  LET t == Picked(s, {i \in DOMAIN s : s[i].seq > c})
           IN  /\ OrderedLog(t) /\ AtMost(t, n) /\ t \in Seq(Wal!Entry)
               /\ Range(t) \subseteq Range(s)
               /\ \A e \in Range(s) : e \in Range(t) \/ e.seq <= c
<1> DEFINE keep == {i \in DOMAIN s : s[i].seq > c}
           t == Picked(s, keep)
<1>1. keep \subseteq DOMAIN s
  OBVIOUS
<1>2. \A e \in Wal!Entry : e.seq \in Nat
  BY DEF Wal!Entry
<1>3. \A e \in Range(s) : e.seq > c => \E i \in keep : s[i] = e
  BY DEF Range
<1> HIDE DEF keep
<1>4. /\ t \in Seq(Wal!Entry) /\ Range(t) \subseteq Range(s)
      /\ \A e : e \in Range(t) <=> \E i \in keep : s[i] = e
  BY <1>1, PickedRange
<1>5. \A e \in Range(s) : e \in Range(t) \/ e.seq <= c
  BY <1>2, <1>3, <1>4, EntryTyped
<1>6. /\ \A k \in 1..Len(t) : \E i \in keep : Rank(keep, i) = k /\ t[k] = s[i]
      /\ \A i \in keep : Rank(keep, i) \in 1..Len(t) /\ t[Rank(keep, i)] = s[i]
      /\ \A i, j \in keep : i < j => Rank(keep, i) < Rank(keep, j)
  BY <1>1, PickedElements
<1> HIDE DEF t
<1>7. DOMAIN t = 1..Len(t) /\ Len(t) \in Nat /\ DOMAIN s = 1..Len(s) /\ Len(s) \in Nat
  BY <1>4, LenProperties
<1>8. OrderedLog(t)
  <2> SUFFICES ASSUME NEW k \in DOMAIN t, NEW l \in DOMAIN t, k < l
               PROVE  t[k].seq < t[l].seq
    BY DEF OrderedLog
  <2>1. PICK i \in keep : Rank(keep, i) = k /\ t[k] = s[i]
    BY <1>6, <1>7
  <2>2. PICK j \in keep : Rank(keep, j) = l /\ t[l] = s[j]
    BY <1>6, <1>7
  <2>3. i \in 1..Len(s) /\ j \in 1..Len(s) /\ k \in 1..Len(t) /\ l \in 1..Len(t)
    BY <1>1, <1>7
  <2>4. ~(j < i) /\ i # j
    BY <1>6, <2>1, <2>2, <2>3
  <2>5. i < j
    BY <2>3, <2>4
  <2> QED
    BY <1>1, <2>1, <2>2, <2>5 DEF OrderedLog
<1>9. AtMost(t, n)
  BY <1>1, <1>6, <1>7 DEF AtMost
<1> QED
  BY <1>4, <1>5, <1>8, <1>9 DEF t, keep

-----------------------------------------------------------------------------
(* The largest number, and the replay set *)

LEMMA MaxReached ==
    ASSUME NEW n \in Nat, NEW S, S \subseteq 0..n, S # {}
    PROVE  Max(S) \in S /\ \A y \in S : y <= Max(S)
<1>1. PICK x \in S : \A y \in S : y <= x
  BY MostExists
<1>2. \A y \in S : x >= y
  BY <1>1
<1>3. Max(S) \in S /\ \A y \in S : Max(S) >= y
  BY <1>1, <1>2 DEF Max
<1> QED
  BY <1>3

\* The numbers in a sequence of entries, or of payload objects, have a bound.
LEMMA NumbersBounded ==
    ASSUME NEW s \in Seq(Wal!Entry)
    PROVE  \E b \in Nat : \A p \in Range(s) : p.seq <= b
<1> DEFINE Bounded(u, m) == \E b \in Nat : \A i \in 1..m : u[i].seq <= b
           G == {m \in Nat : \A u \in [1..m -> Wal!Entry] : Bounded(u, m)}
<1>1. 0 \in G
  OBVIOUS
<1>2. ASSUME NEW m \in Nat, m \in G PROVE m + 1 \in G
  <2> SUFFICES ASSUME NEW u \in [1..(m + 1) -> Wal!Entry] PROVE Bounded(u, m + 1)
    <3> HIDE DEF Bounded
    <3> QED
      OBVIOUS
  <2> DEFINE v == [i \in 1..m |-> u[i]]
  <2>1. v \in [1..m -> Wal!Entry]
    OBVIOUS
  <2>2. PICK b \in Nat : \A i \in 1..m : v[i].seq <= b
    <3> HIDE DEF v
    <3> QED
      BY <1>2, <2>1
  <2>3. u[m + 1].seq \in Nat /\ \A i \in 1..m : u[i].seq \in Nat
    BY DEF Wal!Entry
  <2> DEFINE c == IF b >= u[m + 1].seq THEN b ELSE u[m + 1].seq
  <2>4. c \in Nat /\ b <= c /\ u[m + 1].seq <= c
    BY <2>3
  <2> HIDE DEF c
  <2>5. \A i \in 1..(m + 1) : u[i].seq <= c
    <3> TAKE i \in 1..(m + 1)
    <3>1. CASE i = m + 1
      BY <2>4, <3>1
    <3>2. CASE i # m + 1
      <4>1. i \in 1..m
        BY <3>2
      <4>2. u[i].seq <= b
        BY <2>2, <4>1
      <4> QED
        BY <2>3, <2>4, <4>1, <4>2
    <3> QED
      BY <3>1, <3>2
  <2> QED
    BY <2>4, <2>5
<1>3. \A m \in Nat : m \in G
  <2> HIDE DEF G
  <2> QED
    BY <1>1, <1>2, SetInduction
<1>4. Len(s) \in Nat /\ s \in [1..Len(s) -> Wal!Entry] /\ DOMAIN s = 1..Len(s)
  BY LenProperties
<1>5. Bounded(s, Len(s))
  BY <1>3, <1>4
<1> QED
  BY <1>4, <1>5 DEF Range

\* The numbers an action looks for the largest of.
LEMMA MaxOfNumbers ==
    ASSUME NEW s \in Seq(Wal!Entry), NEW P, P \subseteq Range(s)
    PROVE  LET S == {0} \cup {p.seq : p \in P}
           IN  Max(S) \in S /\ Max(S) \in Nat /\ \A p \in P : p.seq <= Max(S)
<1> DEFINE S == {0} \cup {p.seq : p \in P}
<1>1. PICK b \in Nat : \A p \in Range(s) : p.seq <= b
  BY NumbersBounded
<1>2. \A p \in P : p.seq \in Nat /\ p.seq <= b
  BY <1>1, EntryTyped DEF Wal!Entry
<1>3. S \subseteq 0..b /\ S # {} /\ \A p \in P : p.seq \in S
  BY <1>2
<1> HIDE DEF S
<1>4. Max(S) \in S /\ \A y \in S : y <= Max(S)
  BY <1>3, MaxReached
<1>5. Max(S) \in Nat
  <2>1. Max(S) \in 0..b
    BY <1>3, <1>4, Zenon
  <2> QED
    BY <2>1
<1> QED
  BY <1>3, <1>4, <1>5 DEF S

LEMMA RememberTyped ==
    ASSUME NEW s \in Seq(Anchor), Len(s) <= ReplayWindow, NEW a \in Anchor
    PROVE  Wal!Remember(s, a) \in Seq(Anchor) /\ Len(Wal!Remember(s, a)) <= ReplayWindow
<1> DEFINE t == Append(s, a)
<1>1. t \in Seq(Anchor) /\ Len(t) = Len(s) + 1 /\ Len(s) \in Nat
  BY AppendProperties, LenProperties
<1>2. t # <<>>
  BY <1>1, EmptySeq
<1>3. ReplayWindow \in Nat
  BY DurableBufferAssumption
<1> HIDE DEF t
<1>4. Tail(t) \in Seq(Anchor) /\ Len(Tail(t)) = Len(s)
  BY <1>1, <1>2, HeadTailProperties
<1>5. Wal!Remember(s, a) \in {s, t, Tail(t)}
  BY DEF Wal!Remember, t
<1>6. Wal!Remember(s, a) = t => Len(t) <= ReplayWindow
  <2>1. CASE a \in Wal!Range(s)
    <3>1. Wal!Remember(s, a) = s
      BY <2>1 DEF Wal!Remember
    <3> QED
      BY <3>1
  <2>2. CASE a \notin Wal!Range(s) /\ Len(t) > ReplayWindow
    <3>1. Wal!Remember(s, a) = Tail(t)
      BY <2>2 DEF Wal!Remember, t
    <3>2. Tail(t) # t
      BY <1>1, <1>4
    <3> QED
      BY <3>1, <3>2
  <2>3. CASE ~(Len(t) > ReplayWindow)
    BY <1>1, <1>3, <2>3
  <2> QED
    BY <2>1, <2>2, <2>3
<1> QED
  BY <1>1, <1>3, <1>4, <1>5, <1>6

\* The recursion that rereads the file is well defined.
LEMMA RereadUnfolds ==
    ASSUME file \in Seq(Wal!Entry)
    PROVE  /\ Wal!Reread[0] = <<>>
           /\ \A i \in 1..Len(file) :
                Wal!Reread[i] = Wal!Remember(Wal!Reread[i - 1], file[i].anchor)
<1> DEFINE Step(f, i) == IF i = 0 THEN <<>> ELSE Wal!Remember(f[i - 1], file[i].anchor)
           Body(f, m) == [i \in 0..m |-> Step(f, i)]
           G == {m \in Nat : \E f : f = Body(f, m)}
<1>1. 0 \in G
  <2>1. [i \in 0..0 |-> <<>>] = Body([i \in 0..0 |-> <<>>], 0)
    OBVIOUS
  <2> QED
    BY <2>1
<1>2. ASSUME NEW m \in Nat, m \in G PROVE m + 1 \in G
  <2>1. PICK f : f = Body(f, m)
    BY <1>2
  <2> DEFINE g == [i \in 0..(m + 1) |-> IF i = m + 1 THEN Step(f, m + 1) ELSE f[i]]
  <2>2. ASSUME NEW i \in 0..(m + 1) PROVE g[i] = Step(g, i)
    <3>1. CASE i = m + 1
      <4>1. g[i] = Step(f, i) /\ i # 0
        BY <3>1
      <4>2. g[i - 1] = f[i - 1]
        <5>1. i - 1 \in 0..(m + 1) /\ i - 1 # m + 1
          BY <3>1
        <5> QED
          BY <5>1
      <4> QED
        BY <4>1, <4>2
    <3>2. CASE i # m + 1
      <4>1. i \in 0..m
        BY <3>2
      <4>2. g[i] = f[i]
        BY <3>2
      <4>3. f[i] = Step(f, i)
        <5> HIDE DEF Step
        <5> QED
          BY <2>1, <4>1
      <4>4. i # 0 => g[i - 1] = f[i - 1]
        <5>1. i # 0 => i - 1 \in 0..(m + 1) /\ i - 1 # m + 1
          BY <4>1
        <5> QED
          BY <5>1
      <4> QED
        BY <4>2, <4>3, <4>4
    <3> QED
      BY <3>1, <3>2
  <2>3. g = [i \in 0..(m + 1) |-> g[i]]
    OBVIOUS
  <2>4. g = Body(g, m + 1)
    <3> HIDE DEF g, Step
    <3> QED
      BY <2>2, <2>3
  <2> HIDE DEF g, Body
  <2> QED
    BY <2>4
<1>3. \A m \in Nat : m \in G
  <2> HIDE DEF G
  <2> QED
    BY <1>1, <1>2, SetInduction
<1>4. Len(file) \in Nat
  BY LenProperties
<1>5. \E f : f = Body(f, Len(file))
  BY <1>3, <1>4
<1>6. Wal!Reread = CHOOSE f : f = Body(f, Len(file))
  BY DEF Wal!Reread
<1>7. Wal!Reread = Body(Wal!Reread, Len(file))
  <2> HIDE DEF Body
  <2> QED
    BY <1>5, <1>6
<1>8. \A i \in 0..Len(file) : Wal!Reread[i] = Step(Wal!Reread, i)
  <2> HIDE DEF Step
  <2> QED
    BY <1>7
<1> QED
  BY <1>4, <1>8

LEMMA RereadTyped ==
    ASSUME file \in Seq(Wal!Entry)
    PROVE  LET set == Wal!Reread[Len(file)]
           IN  set \in Seq(Anchor) /\ Len(set) <= ReplayWindow
<1> DEFINE Typed(set) == set \in Seq(Anchor) /\ Len(set) <= ReplayWindow
           G == {m \in Nat : m <= Len(file) => Typed(Wal!Reread[m])}
<1>1. Len(file) \in Nat /\ ReplayWindow \in Nat
  BY LenProperties, DurableBufferAssumption
<1>2. 0 \in G
  <2>1. Typed(<<>>)
    BY <1>1, EmptyOnce
  <2> QED
    BY <2>1, RereadUnfolds
<1>3. ASSUME NEW m \in Nat, m \in G PROVE m + 1 \in G
  <2> SUFFICES ASSUME m + 1 <= Len(file) PROVE Typed(Wal!Reread[m + 1])
    OBVIOUS
  <2>1. m <= Len(file) /\ m + 1 \in 1..Len(file) /\ (m + 1) - 1 = m
    BY <1>1
  <2>2. Typed(Wal!Reread[m])
    BY <1>3, <2>1
  <2>3. Wal!Reread[m + 1] = Wal!Remember(Wal!Reread[m], file[m + 1].anchor)
    BY <2>1, RereadUnfolds
  <2>4. file[m + 1].anchor \in Anchor
    BY <2>1, EntryTyped
  <2> QED
    BY <2>2, <2>3, <2>4, RememberTyped
<1>4. \A m \in Nat : m \in G
  <2> HIDE DEF G
  <2> QED
    BY <1>2, <1>3, SetInduction
<1> QED
  BY <1>1, <1>4

-----------------------------------------------------------------------------
(* What the log's operations do to the file *)

\* The instance of the log has its own names for the library's operators.
LEMMA LogOperators ==
    /\ \A s : /\ Wal!Front(s) = Front(s) /\ Wal!Range(s) = Range(s)
              /\ Wal!Max(s) = Max(s)
    /\ \A n : Wal!After(n) = Picked(file, {i \in DOMAIN file : file[i].seq > n})
    /\ Wal!LogOrdered <=> OrderedLog(file)
<1>1. \A s : Wal!Front(s) = Front(s) /\ Wal!Range(s) = Range(s)
  BY DEF Wal!Front, Front, Wal!Range, Range
<1>2. \A s : Wal!Max(s) = Max(s)
  BY DEF Wal!Max, Max
<1>3. ASSUME NEW n
      PROVE  Wal!After(n) = Picked(file, {i \in DOMAIN file : file[i].seq > n})
  BY DEF Wal!After, Wal!Picked, Picked, Wal!Rank, Rank, Wal!Cardinality, Cardinality
<1>4. Wal!LogOrdered <=> OrderedLog(file)
  BY DEF Wal!LogOrdered, OrderedLog
<1> QED
  BY <1>1, <1>2, <1>3, <1>4

\* What a step takes from the file is at or below n, or had no newline.
KeptAbove(n) ==
    \A e \in Range(file) :
        \/ e \in Range(file')
        \/ e.seq <= n
        \/ tail = "bare" /\ e = Last(file)

\* A line without its newline stood there before, or has a number above n.
BareLineNew(n) ==
    tail' = "bare" => (tail = "bare" /\ file' = file) \/ Last(file').seq > n

LEMMA AtMostGrows ==
    ASSUME NEW s \in Seq(Wal!Entry), NEW n \in Nat, NEW m \in Nat, n <= m, AtMost(s, n)
    PROVE  AtMost(s, m)
BY EntryTyped DEF AtMost

\* A line that is written is the last of a file in order.
LEMMA LineWritten ==
    ASSUME FileOK, OrderedLog(file), NEW n \in Nat, AtMost(file, n),
           NEW e \in Wal!Entry, n < e.seq, Wal!WriteLine(e), NEW c
    PROVE  /\ FileOK' /\ tail' = "clean"
           /\ OrderedLog(file') /\ AtMost(file', e.seq)
           /\ KeptAbove(c)
           /\ tail = "clean" => e \in Range(file')
<1>1. e.seq \in Nat /\ n <= e.seq /\ file \in Seq(Wal!Entry)
  BY DEF Wal!Entry, FileOK
<1>2. tail' = "clean" /\ tail' \in Wal!Tails
  BY DEF Wal!WriteLine, Wal!Tails
<1>3. CASE tail = "clean"
  <2>1. file' = Append(file, e)
    BY <1>3 DEF Wal!WriteLine
  <2>2. /\ OrderedLog(Append(file, e)) /\ AtMost(Append(file, e), e.seq)
        /\ Append(file, e) \in Seq(Wal!Entry)
        /\ Range(Append(file, e)) = Range(file) \cup {e}
    BY <1>1, AppendOrdered
  <2>3. /\ OrderedLog(file') /\ AtMost(file', e.seq) /\ file' \in Seq(Wal!Entry)
        /\ Range(file') = Range(file) \cup {e}
    BY <2>1, <2>2, Zenon
  <2> QED
    BY <1>2, <2>3 DEF FileOK, KeptAbove
<1>4. CASE tail = "piece"
  <2>1. file' = file
    BY <1>4 DEF Wal!WriteLine
  <2>2. AtMost(file, e.seq)
    BY <1>1, AtMostGrows
  <2> QED
    BY <1>1, <1>2, <1>4, <2>1, <2>2 DEF FileOK, KeptAbove
<1>5. CASE tail = "bare"
  <2>1. file' = Front(file) /\ file # <<>>
    BY <1>5, LogOperators DEF Wal!WriteLine, FileOK
  <2>2. /\ OrderedLog(Front(file)) /\ AtMost(Front(file), n)
        /\ Front(file) \in Seq(Wal!Entry)
        /\ \A x \in Range(file) : x \in Range(Front(file)) \/ x = Last(file)
    BY <1>1, <2>1, FrontOrdered
  <2>3. AtMost(Front(file), e.seq)
    BY <1>1, <2>2, AtMostGrows
  <2>4. /\ OrderedLog(file') /\ AtMost(file', e.seq) /\ file' \in Seq(Wal!Entry)
        /\ \A x \in Range(file) : x \in Range(file') \/ x = Last(file)
    BY <2>1, <2>2, <2>3, Zenon
  <2> QED
    BY <1>2, <1>5, <2>4 DEF FileOK, KeptAbove
<1> QED
  BY <1>3, <1>4, <1>5 DEF FileOK, Wal!Tails

\* A write that is cut short leaves a file in order.
LEMMA TornWritten ==
    ASSUME FileOK, OrderedLog(file), NEW n \in Nat, AtMost(file, n),
           NEW e \in Wal!Entry, n < e.seq, Wal!WriteTorn(e), NEW c
    PROVE  /\ FileOK'
           /\ OrderedLog(file') /\ AtMost(file', e.seq)
           /\ BareLineNew(n)
           /\ KeptAbove(c)
<1>1. e.seq \in Nat /\ file \in Seq(Wal!Entry)
  BY DEF Wal!Entry, FileOK
<1>0. n <= e.seq
  BY <1>1
<1>2. CASE UNCHANGED <<file, tail>>
  <2>1. AtMost(file, e.seq)
    BY <1>0, <1>1, AtMostGrows
  <2> QED
    BY <1>2, <2>1 DEF FileOK, KeptAbove, BareLineNew, AtMost, OrderedLog
<1>3. CASE tail' = "piece" /\ file' = IF tail = "bare" THEN Wal!Front(file) ELSE file
  <2>0. tail' \in Wal!Tails /\ tail' # "bare"
    BY <1>3 DEF Wal!Tails
  <2>1. CASE tail # "bare"
    <3>1. file' = file
      BY <1>3, <2>1
    <3>2. AtMost(file, e.seq)
      BY <1>0, <1>1, AtMostGrows
    <3> QED
      BY <2>0, <3>1, <3>2 DEF FileOK, KeptAbove, BareLineNew, AtMost, OrderedLog
  <2>2. CASE tail = "bare"
    <3>1. file' = Front(file) /\ file # <<>>
      BY <1>3, <2>2, LogOperators DEF FileOK
    <3>2. /\ OrderedLog(Front(file)) /\ AtMost(Front(file), n)
          /\ Front(file) \in Seq(Wal!Entry)
          /\ \A x \in Range(file) : x \in Range(Front(file)) \/ x = Last(file)
      BY <1>1, <3>1, FrontOrdered
    <3>3. AtMost(Front(file), e.seq)
      BY <1>0, <1>1, <3>2, AtMostGrows
    <3>4. /\ OrderedLog(file') /\ AtMost(file', e.seq) /\ file' \in Seq(Wal!Entry)
          /\ \A x \in Range(file) : x \in Range(file') \/ x = Last(file)
      BY <3>1, <3>2, <3>3, Zenon
    <3> QED
      BY <2>0, <2>2, <3>4 DEF FileOK, KeptAbove, BareLineNew
  <2> QED
    BY <2>1, <2>2
<1>4. CASE tail = "clean" /\ tail' = "bare" /\ file' = Append(file, e)
  <2>1. /\ OrderedLog(Append(file, e)) /\ Append(file, e) # <<>>
        /\ AtMost(Append(file, e), e.seq) /\ Last(Append(file, e)) = e
        /\ Append(file, e) \in Seq(Wal!Entry)
        /\ Range(Append(file, e)) = Range(file) \cup {e}
    BY <1>1, AppendOrdered
  <2>2. /\ OrderedLog(file') /\ file' # <<>> /\ file' \in Seq(Wal!Entry)
        /\ AtMost(file', e.seq) /\ Last(file') = e
        /\ Range(file') = Range(file) \cup {e}
    BY <1>4, <2>1, Zenon
  <2>3. tail' \in Wal!Tails
    BY <1>4 DEF Wal!Tails
  <2> QED
    BY <1>1, <1>4, <2>2, <2>3 DEF FileOK, KeptAbove, BareLineNew
<1> QED
  BY <1>2, <1>3, <1>4 DEF Wal!WriteTorn

\* A rotation keeps what is after the checkpoint.
LEMMA Rotated ==
    ASSUME FileOK, OrderedLog(file), NEW n \in Nat, AtMost(file, n),
           NEW c \in Nat, Wal!Rotate(c)
    PROVE  /\ FileOK' /\ tail' \in {tail, "clean"}
           /\ (tail' = "bare" => tail = "bare" /\ file' = file)
           /\ OrderedLog(file') /\ AtMost(file', n)
           /\ KeptAbove(c)
<1>1. CASE UNCHANGED <<file, tail>>
  BY <1>1 DEF FileOK, KeptAbove
<1>2. CASE file' = Wal!After(c) /\ tail' = "clean"
  <2> DEFINE t == Picked(file, {i \in DOMAIN file : file[i].seq > c})
  <2>1. file' = t
    BY <1>2, LogOperators
  <2>2. file \in Seq(Wal!Entry)
    BY DEF FileOK
  <2>3. /\ OrderedLog(t) /\ AtMost(t, n) /\ t \in Seq(Wal!Entry)
        /\ \A e \in Range(file) : e \in Range(t) \/ e.seq <= c
    BY <2>2, PickedOrdered
  <2> HIDE DEF t
  <2>4. /\ OrderedLog(file') /\ AtMost(file', n) /\ file' \in Seq(Wal!Entry)
        /\ \A e \in Range(file) : e \in Range(file') \/ e.seq <= c
    BY <2>1, <2>3, Zenon
  <2>5. tail' \in Wal!Tails
    BY <1>2 DEF Wal!Tails
  <2> QED
    BY <1>2, <2>4, <2>5 DEF FileOK, KeptAbove
<1> QED
  BY <1>1, <1>2 DEF Wal!Rotate

-----------------------------------------------------------------------------
(* The log's operations, while the process runs *)

\* An operation of the log found it in order, and leaves it in order.
LogRuns ==
    /\ Wal!LogTypeOK /\ OrderedLog(file) /\ AtMost(file, seq) /\ ckpt <= checkpoint

LogGoesOn ==
    /\ LogRuns'
    /\ KeptAbove(ckpt') /\ ckpt <= ckpt' /\ checkpoint <= checkpoint' /\ seq <= seq'
    /\ BareLineNew(seq)

LEMMA LogTyped ==
    Wal!LogTypeOK <=> /\ FileOK /\ ckpt \in Nat /\ seq \in Nat /\ checkpoint \in Nat
                      /\ seen \in Seq(Anchor) /\ Len(seen) <= ReplayWindow
BY DEF Wal!LogTypeOK, FileOK

LEMMA Logged ==
    ASSUME LogRuns, NEW a \in Anchor, Wal!Log(a)
    PROVE  /\ LogGoesOn /\ tail' = "clean" /\ seq' = seq + 1 /\ checkpoint' = checkpoint
           /\ tail = "clean" => [seq |-> seq + 1, anchor |-> a] \in Range(file')
<1> DEFINE e == [seq |-> seq + 1, anchor |-> a]
<1>1. /\ FileOK /\ ckpt \in Nat /\ seq \in Nat /\ checkpoint \in Nat
      /\ seen \in Seq(Anchor) /\ Len(seen) <= ReplayWindow
      /\ OrderedLog(file) /\ AtMost(file, seq) /\ ckpt <= checkpoint
  BY LogTyped DEF LogRuns
<1>2. /\ seq' = seq + 1 /\ Wal!WriteLine(e) /\ seen' = Wal!Remember(seen, a)
      /\ checkpoint' = checkpoint /\ ckpt' = ckpt
  BY DEF Wal!Log
<1>3. e \in Wal!Entry /\ e.seq = seq + 1 /\ seq < e.seq
  BY <1>1 DEF Wal!Entry
<1> HIDE DEF e
<1>4. /\ FileOK' /\ tail' = "clean" /\ OrderedLog(file') /\ AtMost(file', e.seq)
      /\ KeptAbove(ckpt')
      /\ tail = "clean" => e \in Range(file')
  BY <1>1, <1>2, <1>3, LineWritten
<1>5. seen' \in Seq(Anchor) /\ Len(seen') <= ReplayWindow
  BY <1>1, <1>2, RememberTyped
<1>6. Wal!LogTypeOK'
  BY <1>1, <1>2, <1>4, <1>5 DEF Wal!LogTypeOK, FileOK
<1>7. AtMost(file', seq')
  BY <1>2, <1>3, <1>4
<1> QED
  BY <1>1, <1>2, <1>4, <1>6, <1>7 DEF LogGoesOn, LogRuns, e, BareLineNew

LEMMA LogFailed ==
    ASSUME LogRuns, NEW a \in Anchor, Wal!LogFails(a)
    PROVE  LogGoesOn
<1> DEFINE e == [seq |-> seq + 1, anchor |-> a]
<1>1. /\ FileOK /\ ckpt \in Nat /\ seq \in Nat /\ checkpoint \in Nat
      /\ seen \in Seq(Anchor) /\ Len(seen) <= ReplayWindow
      /\ OrderedLog(file) /\ AtMost(file, seq) /\ ckpt <= checkpoint
  BY LogTyped DEF LogRuns
<1>2. /\ seq' = seq + 1 /\ Wal!WriteTorn(e)
      /\ UNCHANGED <<checkpoint, ckpt, seen>>
  BY DEF Wal!LogFails
<1>3. e \in Wal!Entry /\ seq < e.seq /\ seq <= seq' /\ e.seq = seq'
  BY <1>1, <1>2 DEF Wal!Entry
<1> HIDE DEF e
<1>4. /\ FileOK' /\ OrderedLog(file') /\ AtMost(file', e.seq) /\ KeptAbove(ckpt')
      /\ BareLineNew(seq)
  BY <1>1, <1>2, <1>3, TornWritten
<1>5. Wal!LogTypeOK'
  BY <1>1, <1>2, <1>4 DEF Wal!LogTypeOK, FileOK
<1>6. AtMost(file', seq')
  BY <1>3, <1>4
<1> QED
  BY <1>1, <1>2, <1>3, <1>4, <1>5, <1>6 DEF LogGoesOn, LogRuns

LEMMA Marked ==
    ASSUME LogRuns, NEW n \in Nat, Wal!Mark(n)
    PROVE  /\ LogGoesOn /\ tail' \in {tail, "clean"} /\ seq' = seq
           /\ ckpt' = ckpt \/ (ckpt' = n /\ n > 0)
<1>1. /\ FileOK /\ ckpt \in Nat /\ seq \in Nat /\ checkpoint \in Nat
      /\ seen \in Seq(Anchor) /\ Len(seen) <= ReplayWindow
      /\ OrderedLog(file) /\ AtMost(file, seq) /\ ckpt <= checkpoint
  BY LogTyped DEF LogRuns
<1>2. CASE n <= checkpoint
  <2>1. UNCHANGED <<file, tail, ckpt, seq, checkpoint, seen>>
    BY <1>2 DEF Wal!Mark, Wal!disk, Wal!memory
  <2>2. LogRuns'
    BY <2>1 DEF LogRuns, Wal!LogTypeOK, Wal!Entry, Wal!Tails, OrderedLog, AtMost
  <2> QED
    BY <1>1, <2>1, <2>2 DEF LogGoesOn, KeptAbove, BareLineNew
<1>3. CASE ~(n <= checkpoint)
  <2>1. checkpoint' = n /\ ckpt' = n /\ Wal!Rotate(n) /\ UNCHANGED <<seq, seen>>
    BY <1>3 DEF Wal!Mark
  <2>2. /\ FileOK' /\ tail' \in {tail, "clean"} /\ OrderedLog(file')
        /\ (tail' = "bare" => tail = "bare" /\ file' = file)
        /\ AtMost(file', seq) /\ KeptAbove(n)
    BY <1>1, <2>1, Rotated
  <2>3. Wal!LogTypeOK'
    BY <1>1, <2>1, <2>2 DEF Wal!LogTypeOK, FileOK
  <2>4. AtMost(file', seq') /\ KeptAbove(ckpt') /\ ckpt' <= checkpoint'
    BY <1>1, <2>1, <2>2
  <2>5. checkpoint <= checkpoint' /\ ckpt <= ckpt'
    BY <1>1, <1>3, <2>1
  <2>6. n > 0
    BY <1>1, <1>3
  <2> QED
    BY <1>1, <2>1, <2>2, <2>3, <2>4, <2>5, <2>6 DEF LogGoesOn, LogRuns, BareLineNew
<1> QED
  BY <1>2, <1>3

LEMMA MarkFailed ==
    ASSUME LogRuns, NEW n \in Nat, Wal!MarkFails(n)
    PROVE  /\ LogGoesOn /\ tail' = tail /\ seq' = seq
           /\ ckpt' = ckpt \/ (ckpt' = n /\ n > 0)
<1>1. /\ FileOK /\ ckpt \in Nat /\ seq \in Nat /\ checkpoint \in Nat
      /\ seen \in Seq(Anchor) /\ Len(seen) <= ReplayWindow
      /\ OrderedLog(file) /\ AtMost(file, seq) /\ ckpt <= checkpoint
  BY LogTyped DEF LogRuns
<1>2. /\ n > checkpoint /\ checkpoint' = n /\ ckpt' \in {ckpt, n}
      /\ UNCHANGED <<file, tail, seq, seen>>
  BY DEF Wal!MarkFails
<1>3. ckpt <= ckpt' /\ ckpt' \in Nat /\ ckpt' <= checkpoint' /\ checkpoint <= checkpoint'
  BY <1>1, <1>2
<1>4. LogRuns'
  BY <1>1, <1>2, <1>3 DEF LogRuns, Wal!LogTypeOK, FileOK, OrderedLog, AtMost, Wal!Entry, Wal!Tails
<1> QED
  BY <1>1, <1>2, <1>3, <1>4 DEF LogGoesOn, KeptAbove, BareLineNew

\* Opening the log: the largest number in the file is the last one given out.
LEMMA Opened ==
    ASSUME Wal!LogTypeOK, OrderedLog(file), Wal!Open
    PROVE  LogRuns' /\ UNCHANGED <<file, tail, ckpt>>
<1>1. FileOK /\ file \in Seq(Wal!Entry) /\ ckpt \in Nat
  BY DEF Wal!LogTypeOK, FileOK
<1>2. /\ checkpoint' = ckpt /\ seen' = Wal!Reread[Len(file)]
      /\ UNCHANGED <<file, tail, ckpt>>
  BY DEF Wal!Open, Wal!disk
<1> DEFINE S == {0} \cup {file[i].seq : i \in DOMAIN file}
<1>3. seq' = Max(S)
  BY LogOperators DEF Wal!Open
<1>4. S = {0} \cup {p.seq : p \in Range(file)}
  BY DEF Range
<1> HIDE DEF S
<1>5. Max(S) \in Nat /\ \A p \in Range(file) : p.seq <= Max(S)
  BY <1>1, <1>4, MaxOfNumbers
<1>6. seq' \in Nat /\ AtMost(file', seq')
  BY <1>2, <1>3, <1>5 DEF AtMost, Range
<1>7. seen' \in Seq(Anchor) /\ Len(seen') <= ReplayWindow
  BY <1>1, <1>2, RereadTyped
<1>8. Wal!LogTypeOK'
  BY <1>1, <1>2, <1>6, <1>7 DEF Wal!LogTypeOK, FileOK, Wal!Entry, Wal!Tails
<1>9. OrderedLog(file')
  BY <1>2
<1> QED
  BY <1>1, <1>2, <1>6, <1>8, <1>9 DEF LogRuns

-----------------------------------------------------------------------------
(* The buffer's steps, by the proofs about FlushBuffer *)

Flushing == INSTANCE FlushBufferProofs WITH
    Payload     <- Item,
    Conforming  <- Item,
    Tokens      <- [p \in Item |-> 0],
    TokenBudget <- 1

\* The instance of the proofs speaks of the same buffer.
LEMMA SameBuffer ==
    /\ Flushing!FlushBufferAssumption
    /\ Buffer!TypeOK <=> Flushing!TypeOK
    /\ Buffer!TypeOK' <=> Flushing!TypeOK'
    /\ Live = Flushing!Unsettled
    /\ Live' = Flushing!Unsettled'
<1>1. Flushing!FlushBufferAssumption
  BY DurableBufferAssumption DEF Flushing!FlushBufferAssumption
<1>2. /\ Buffer!TypeOK <=> Flushing!TypeOK
      /\ Buffer!TypeOK' <=> Flushing!TypeOK'
  BY DEF Buffer!TypeOK, Flushing!TypeOK, Buffer!Flight, Flushing!Flight,
         Buffer!Awaits, Flushing!Awaits
<1>3. Live = Flushing!Unsettled /\ Live' = Flushing!Unsettled'
  BY DEF Live, Flushing!Unsettled, Flushing!InQueue, Flushing!InDead, Flushing!Aboard,
         Flushing!Range, Range, Buffer!Sending, Flushing!Sending
<1> QED
  BY <1>1, <1>2, <1>3

LEMMA SameDrains ==
    /\ Buffer!TimerFires => Flushing!TimerFires
    /\ Buffer!Flush => Flushing!Flush
    /\ Buffer!Stop => Flushing!Stop
    /\ \A p : Buffer!Enqueue(p) => Flushing!Enqueue(p)
<1> USE DEF Buffer!Drain, Buffer!Launch, Buffer!GiveUp, Buffer!Overflow,
            Buffer!NewFlight, Buffer!outcomes, Buffer!endpoint, Buffer!Range,
            Flushing!Drain, Flushing!Launch, Flushing!GiveUp, Flushing!Overflow,
            Flushing!NewFlight, Flushing!outcomes, Flushing!endpoint, Flushing!Range
<1>1. Buffer!TimerFires => Flushing!TimerFires
  BY DEF Buffer!TimerFires, Flushing!TimerFires
<1>2. Buffer!Flush => Flushing!Flush
  BY DEF Buffer!Flush, Flushing!Flush
<1>3. Buffer!Stop => Flushing!Stop
  BY DEF Buffer!Stop, Flushing!Stop
<1>4. ASSUME NEW p PROVE Buffer!Enqueue(p) => Flushing!Enqueue(p)
  BY DEF Buffer!Enqueue, Flushing!Enqueue, Buffer!Push, Flushing!Push
<1> QED
  BY <1>1, <1>2, <1>3, <1>4

LEMMA SameFlights ==
    ASSUME NEW f
    PROVE  /\ Buffer!AttemptLost(f) => Flushing!AttemptLost(f)
           /\ Buffer!AnswerStored(f) => Flushing!FlightStep(f)
           /\ Buffer!AnswerError(f) => Flushing!FlightStep(f)
           /\ Buffer!AttemptFails(f) => Flushing!FlightStep(f)
           /\ Buffer!Resend(f) => Flushing!FlightStep(f)
           /\ Buffer!Refuse(f) => Flushing!FlightStep(f)
           /\ Buffer!Credit(f) => Flushing!FlightStep(f)
           /\ Buffer!Notify(f) => Flushing!FlightStep(f)
           /\ \A p : Buffer!LateArrival(p) => Flushing!LateArrival(p)
<1> USE DEF Buffer!GiveUp, Buffer!Overflow, Buffer!Become, Buffer!Arrive,
            Buffer!outcomes, Buffer!endpoint, Buffer!client, Buffer!Range,
            Flushing!GiveUp, Flushing!Overflow, Flushing!Become, Flushing!Arrive,
            Flushing!outcomes, Flushing!endpoint, Flushing!client, Flushing!Range
<1>1. Buffer!AttemptLost(f) => Flushing!AttemptLost(f)
  BY DEF Buffer!AttemptLost, Flushing!AttemptLost
<1>2. Buffer!AnswerStored(f) => Flushing!AnswerStored(f)
  BY DEF Buffer!AnswerStored, Flushing!AnswerStored
<1>3. Buffer!AnswerError(f) => Flushing!AnswerError(f)
  BY DEF Buffer!AnswerError, Flushing!AnswerError
<1>4. Buffer!AttemptFails(f) => Flushing!AttemptFails(f)
  BY <1>1 DEF Buffer!AttemptFails, Flushing!AttemptFails
<1>5. Buffer!Resend(f) => Flushing!Resend(f)
  BY DEF Buffer!Resend, Flushing!Resend
<1>6. Buffer!Refuse(f) => Flushing!Refuse(f)
  BY DEF Buffer!Refuse, Flushing!Refuse
<1>7. Buffer!Credit(f) => Flushing!Credit(f)
  BY DEF Buffer!Credit, Flushing!Credit
<1>8. Buffer!Notify(f) => Flushing!Notify(f)
  BY DEF Buffer!Notify, Flushing!Notify
<1>9. \A p : Buffer!LateArrival(p) => Flushing!LateArrival(p)
  BY DEF Buffer!LateArrival, Flushing!LateArrival
<1> QED
  BY <1>1, <1>2, <1>3, <1>4, <1>5, <1>6, <1>7, <1>8, <1>9 DEF Flushing!FlightStep

\* An enqueue brings its payload into memory ...
LEMMA EnqueueGoesOn ==
    ASSUME Buffer!TypeOK, NEW p \in Item, Buffer!Enqueue(p)
    PROVE  Buffer!TypeOK' /\ Live' \subseteq Live \cup {p}
<1>1. /\ Flushing!FlushBufferAssumption /\ Flushing!TypeOK /\ Flushing!Enqueue(p)
      /\ Live = Flushing!Unsettled /\ Live' = Flushing!Unsettled'
      /\ Buffer!TypeOK' <=> Flushing!TypeOK'
  BY SameBuffer, SameDrains
<1>2. Flushing!Unsettled' \subseteq Flushing!Unsettled \cup {p}
  BY <1>1, Flushing!EnqueueBrings
<1>3. Flushing!Next
  BY <1>1 DEF Flushing!Next
<1>4. Flushing!TypeOK'
  BY <1>1, <1>3, Flushing!TypeStep
<1> QED
  BY <1>1, <1>2, <1>4

\* ... and nothing else does.
LEMMA OthersGoOn ==
    ASSUME Buffer!TypeOK,
           \/ Buffer!TimerFires \/ Buffer!Flush \/ Buffer!Stop
           \/ \E f \in flights :
                \/ Buffer!AnswerStored(f) \/ Buffer!AnswerError(f)
                \/ Buffer!AttemptFails(f) \/ Buffer!Resend(f) \/ Buffer!Refuse(f)
                \/ Buffer!Credit(f) \/ Buffer!Notify(f)
           \/ \E p \in failed : Buffer!LateArrival(p)
    PROVE  Buffer!TypeOK' /\ Live' \subseteq Live
<1>1. /\ Flushing!FlushBufferAssumption /\ Flushing!TypeOK
      /\ Live = Flushing!Unsettled /\ Live' = Flushing!Unsettled'
      /\ Buffer!TypeOK' <=> Flushing!TypeOK'
  BY SameBuffer
<1>2. CASE Buffer!TimerFires \/ Buffer!Flush \/ Buffer!Stop
  <2>1. Flushing!TimerFires \/ Flushing!Flush \/ Flushing!Stop
    BY <1>2, SameDrains
  <2>2. Flushing!Unsettled' \subseteq Flushing!Unsettled
    BY <1>1, <2>1, Flushing!DrainQueueBrings
  <2>3. Flushing!Next
    BY <2>1 DEF Flushing!Next
  <2>4. Flushing!TypeOK'
    BY <1>1, <2>3, Flushing!TypeStep
  <2> QED
    BY <1>1, <2>2, <2>4
<1>3. ASSUME NEW f \in flights,
             \/ Buffer!AnswerStored(f) \/ Buffer!AnswerError(f)
             \/ Buffer!AttemptFails(f) \/ Buffer!Resend(f) \/ Buffer!Refuse(f)
             \/ Buffer!Credit(f) \/ Buffer!Notify(f)
      PROVE  Buffer!TypeOK' /\ Live' \subseteq Live
  <2>1. Flushing!FlightStep(f)
    BY <1>3, SameFlights
  <2>2. Flushing!Unsettled' \subseteq Flushing!Unsettled
    BY <1>1, <2>1, Flushing!FlightBrings
  <2>3. Flushing!Next
    BY <2>1 DEF Flushing!Next
  <2>4. Flushing!TypeOK'
    BY <1>1, <2>3, Flushing!TypeStep
  <2> QED
    BY <1>1, <2>2, <2>4
<1>4. ASSUME NEW p \in failed, Buffer!LateArrival(p)
      PROVE  Buffer!TypeOK' /\ Live' \subseteq Live
  <2>1. Flushing!LateArrival(p) /\ p \in Item
    BY <1>4, SameFlights DEF Buffer!TypeOK
  <2>2. Live' = Live
    BY <1>4 DEF Buffer!LateArrival, Buffer!client, Live, Buffer!Sending
  <2>3. Flushing!Next
    BY <2>1 DEF Flushing!Next
  <2>4. Flushing!TypeOK'
    BY <1>1, <2>3, Flushing!TypeStep
  <2> QED
    BY <1>1, <2>2, <2>4
<1> QED
  BY <1>2, <1>3, <1>4

\* An attempt lost after the answer, when the log refuses to be marked.
LEMMA LostGoesOn ==
    ASSUME Buffer!TypeOK, NEW f \in flights, Answered(f), Buffer!AttemptLost(f),
           receipts' = IF f.at = "stored" THEN receipts \cup Range(f.batch)
                                          ELSE receipts
    PROVE  Buffer!TypeOK' /\ Live' \subseteq Live
<1>1. /\ Flushing!FlushBufferAssumption /\ Flushing!TypeOK
      /\ Live = Flushing!Unsettled /\ Live' = Flushing!Unsettled'
      /\ Buffer!TypeOK' <=> Flushing!TypeOK'
  BY SameBuffer
<1>2. Flushing!AttemptLost(f) /\ f \in Flushing!Sending
  BY SameFlights DEF Flushing!Sending, Answered
<1>3. /\ Flushing!Unsettled' \subseteq Flushing!Unsettled
      /\ deadLetter' \in Seq(Item) /\ flights' \subseteq Flushing!Flight
      /\ dropped' \subseteq Item /\ failed' \subseteq Item
      /\ UNCHANGED <<queue, tokens, stopped, accepted, delivered, notified,
                     refused, Flushing!endpoint>>
  BY <1>1, <1>2, Flushing!AttemptLostBrings
<1>4. Range(f.batch) \subseteq Item
  <2>1. f.batch \in Seq(Item)
    BY DEF Buffer!TypeOK, Buffer!Flight
  <2> QED
    BY <2>1, LenProperties, ElementOfSeq DEF Range
<1>5. Flushing!TypeOK'
  BY <1>1, <1>3, <1>4 DEF Flushing!TypeOK, Flushing!endpoint
<1> QED
  BY <1>1, <1>3, <1>5

-----------------------------------------------------------------------------
(* The invariant, and what keeps it *)

\* A flight is marked that carries a tracked payload with the number n.
AnsweredUpTo(n) ==
    \E f \in flights : Answered(f) /\ \E p \in Range(f.batch) \cap tracked : n = p.seq

Stays == /\ ckpt' >= ckpt /\ KeptAbove(ckpt')
         /\ ckpt' = ckpt \/ AnsweredUpTo(ckpt')

\* A file that does not end with a newline will spoil the line written next.
Torn == IF tail = "clean" THEN 0 ELSE 1

Covered(p) == p \in Range(file) \/ p.seq <= checkpoint \/ p \in mangled

\* WrittenAhead, with what it rests on: each fault leaves at most one line that is
\* torn or was spoiled, no object in memory is the one whose line has no newline (the
\* write failed, or its process died), numbers in memory are numbers given out, and
\* the checkpoint in memory is never behind the one on disk.
DurableInv ==
    /\ OrderedLog(file)
    /\ up => AtMost(file, seq) /\ ckpt <= checkpoint
    /\ \A p \in Live : Covered(p)
    /\ IsFiniteSet(mangled) /\ Cardinality(mangled) + Torn <= faults
    /\ tail = "bare" => Last(file) \notin Live
    /\ up => \A p \in Live : p.seq <= seq
    /\ ~up => Live = {} /\ mangled = {}

LifeOK ==
    /\ up \in BOOLEAN
    /\ recovering \in Seq(Wal!Entry)
    /\ tracked \subseteq Item
    /\ mangled \subseteq Item
    /\ faults \in 0..MaxFaults

\* A step while the process runs, which puts the payloads in fresh into memory.
LEMMA RunsOn ==
    ASSUME TypeOK, DurableInv, up, up' = TRUE, LogGoesOn,
           NEW fresh, Live' \subseteq Live \cup fresh,
           fresh = {} \/ tail' = "clean",
           \A p \in fresh : p.seq <= seq' /\ (p \in Range(file') \/ p \in mangled'),
           mangled \subseteq mangled', IsFiniteSet(mangled'),
           Cardinality(mangled') + Torn' <= faults'
    PROVE  DurableInv' /\ Wal!LogTypeOK' /\ ckpt' >= ckpt /\ KeptAbove(ckpt')
<1>1. /\ Wal!LogTypeOK' /\ OrderedLog(file') /\ AtMost(file', seq')
      /\ ckpt' <= checkpoint'
      /\ KeptAbove(ckpt') /\ ckpt <= ckpt' /\ checkpoint <= checkpoint'
      /\ seq <= seq' /\ BareLineNew(seq)
  BY DEF LogGoesOn, LogRuns
<1>2. /\ ckpt \in Nat /\ checkpoint \in Nat /\ ckpt' \in Nat /\ checkpoint' \in Nat
      /\ seq \in Nat /\ seq' \in Nat
  BY <1>1 DEF TypeOK, Wal!LogTypeOK
<1>4. \A p \in Live : p \in Item /\ p.seq \in Nat
  <2>1. \A f \in Buffer!Sending : f.batch \in Seq(Item)
    BY DEF TypeOK, Buffer!TypeOK, Buffer!Sending, Buffer!Flight
  <2>2. queue \in Seq(Item) /\ deadLetter \in Seq(Item)
    BY DEF TypeOK, Buffer!TypeOK
  <2>3. \A s \in Seq(Item) : Range(s) \subseteq Item
    BY LenProperties, ElementOfSeq DEF Range
  <2>4. Live \subseteq Item
    BY <2>1, <2>2, <2>3 DEF Live
  <2> QED
    BY <2>4 DEF Item
<1>6. \A p \in Live' : p.seq <= seq'
  <2> TAKE p \in Live'
  <2>1. CASE p \in fresh
    BY <2>1
  <2>2. CASE p \in Live
    <3>1. p.seq \in Nat /\ p.seq <= seq
      BY <1>4, <2>2 DEF DurableInv
    <3> QED
      BY <1>1, <1>2, <3>1
  <2> QED
    BY <2>1, <2>2
<1>7. ASSUME tail' = "bare" PROVE Last(file') \notin Live'
  <2>1. Live' \subseteq Live
    BY <1>7
  <2>2. CASE tail = "bare" /\ file' = file
    BY <2>1, <2>2 DEF DurableInv
  <2>3. CASE Last(file').seq > seq
    <3> SUFFICES ASSUME Last(file') \in Live PROVE FALSE
      BY <2>1
    <3>1. Last(file').seq \in Nat /\ Last(file').seq <= seq
      BY <1>4 DEF DurableInv
    <3> QED
      BY <1>2, <2>3, <3>1
  <2> QED
    BY <1>1, <1>7, <2>2, <2>3 DEF BareLineNew
<1>5. ASSUME NEW p \in Live' PROVE Covered(p)'
  <2>1. CASE p \in fresh
    BY <2>1 DEF Covered
  <2>2. CASE p \in Live
    <3>1. (tail = "bare" => p # Last(file)) /\ p.seq \in Nat /\ Covered(p)
      BY <1>4, <2>2 DEF DurableInv
    <3>2. CASE p \in Range(file)
      <4>1. p \in Range(file') \/ p.seq <= ckpt'
        BY <1>1, <3>1, <3>2 DEF KeptAbove
      <4>2. p \in Range(file') \/ p.seq <= checkpoint'
        BY <1>1, <1>2, <3>1, <4>1
      <4> QED
        BY <4>2 DEF Covered
    <3>3. CASE p.seq <= checkpoint
      <4>1. p.seq <= checkpoint'
        BY <1>1, <1>2, <3>1, <3>3
      <4> QED
        BY <4>1 DEF Covered
    <3>4. CASE p \in mangled
      BY <3>4 DEF Covered
    <3> QED
      BY <3>1, <3>2, <3>3, <3>4 DEF Covered
  <2> QED
    BY <2>1, <2>2
<1> QED
  BY <1>1, <1>5, <1>6, <1>7 DEF DurableInv

\* The process dies: what is in memory is gone, and one more fault is on record.
LEMMA Dies ==
    ASSUME TypeOK, DurableInv, Die, FileOK', OrderedLog(file'), ckpt' \in Nat
    PROVE  TypeOK' /\ DurableInv'
<1> DEFINE none == <<>>
<1>1. \A S : none \in Seq(S)
  BY EmptyOnce
<1>2. /\ queue' = none /\ deadLetter' = none /\ accepted' = none /\ seen' = none
      /\ recovering' = none
  BY DEF Die, NewBuffer, Wal!Forget
<1>3. /\ tokens' = 0 /\ stopped' = FALSE /\ flights' = {}
      /\ delivered' = {} /\ receipts' = {} /\ notified' = {} /\ refused' = {}
      /\ dropped' = {} /\ failed' = {} /\ stored' = {} /\ duplicated' = {}
      /\ seq' = 0 /\ checkpoint' = 0
      /\ up' = FALSE /\ tracked' = {} /\ mangled' = {} /\ faults' = faults + 1
      /\ faults < MaxFaults
  BY DEF Die, NewBuffer, Wal!Forget
<1>4. Len(none) = 0 /\ Range(none) = {}
  BY EmptyOnce, EmptySeq
<1>5. faults \in Nat /\ MaxFaults \in Nat /\ ReplayWindow \in Nat
  BY DurableBufferAssumption DEF TypeOK
<1> HIDE DEF none
<1>6. Buffer!TypeOK'
  BY <1>1, <1>2, <1>3 DEF Buffer!TypeOK
<1>7. Wal!LogTypeOK'
  BY <1>1, <1>2, <1>3, <1>4, <1>5 DEF Wal!LogTypeOK, FileOK
<1>8. LifeOK'
  <2>1. recovering' \in Seq(Wal!Entry)
    BY <1>1, <1>2, Zenon
  <2>2. up' \in BOOLEAN
    BY <1>3
  <2>3. faults' \in 0..MaxFaults
    BY <1>3, <1>5
  <2> QED
    BY <1>3, <2>1, <2>2, <2>3 DEF LifeOK
<1>9. TypeOK'
  BY <1>6, <1>7, <1>8 DEF TypeOK, LifeOK
<1>10. Live' = {}
  BY <1>2, <1>3, <1>4 DEF Live, Buffer!Sending
<1>11. IsFiniteSet(mangled') /\ Cardinality(mangled') = 0
  BY <1>3, FS_EmptySet
<1>12. Cardinality(mangled') + Torn' <= faults'
  BY <1>3, <1>5, <1>11 DEF Torn
<1>13. DurableInv'
  BY <1>3, <1>10, <1>11, <1>12 DEF DurableInv
<1> QED
  BY <1>9, <1>13

LEMMA ItemIsEntry == Item = Wal!Entry
BY DEF Item, Wal!Entry

\* A payload goes through enqueue, the log first.
LEMMA SubmitKeeps ==
    ASSUME TypeOK, DurableInv, up, NEW a \in Anchor, Submit(a), UNCHANGED <<up, faults>>
    PROVE  /\ DurableInv' /\ Wal!LogTypeOK' /\ Buffer!TypeOK'
           /\ tracked' \subseteq Item /\ mangled' \subseteq Item
           /\ Stays
<1> DEFINE item == [anchor |-> a, seq |-> seq + 1]
           line == [seq |-> seq + 1, anchor |-> a]
<1>1. /\ Wal!Log(a) /\ Buffer!Enqueue(item) /\ tracked' = tracked \cup {item}
      /\ mangled' = IF tail = "clean" THEN mangled ELSE mangled \cup {item}
  BY DEF Submit
<1>2. LogRuns /\ seq \in Nat
  BY DEF DurableInv, TypeOK, LogRuns, Wal!LogTypeOK
<1>3. item \in Item /\ item = line
  BY <1>2 DEF Item
<1>4. LogGoesOn /\ tail' = "clean" /\ (tail = "clean" => line \in Range(file'))
  BY <1>1, <1>2, Logged
<1>10. item.seq <= seq'
  BY <1>1, <1>2 DEF Wal!Log
<1> HIDE DEF item, line
<1>5. Buffer!TypeOK' /\ Live' \subseteq Live \cup {item}
  BY <1>1, <1>3, EnqueueGoesOn DEF TypeOK
<1>6. /\ IsFiniteSet(mangled) /\ Cardinality(mangled) + Torn <= faults
      /\ Cardinality(mangled) \in Nat /\ faults \in Nat
  BY FS_CardinalityType DEF DurableInv, TypeOK
<1>7. /\ IsFiniteSet(mangled') /\ Cardinality(mangled') + Torn' <= faults'
      /\ mangled \subseteq mangled' /\ mangled' \subseteq Item
  <2>1. Torn' = 0
    BY <1>4 DEF Torn
  <2>2. CASE tail = "clean"
    BY <1>1, <1>6, <2>1, <2>2 DEF TypeOK, Torn
  <2>3. CASE tail # "clean"
    <3>1. mangled' = mangled \cup {item} /\ Torn = 1
      BY <1>1, <2>3 DEF Torn
    <3>2. /\ IsFiniteSet(mangled \cup {item})
          /\ Cardinality(mangled \cup {item}) \in
                {Cardinality(mangled), Cardinality(mangled) + 1}
      BY <1>6, FS_AddElement
    <3> QED
      BY <1>3, <1>6, <2>1, <3>1, <3>2 DEF TypeOK
  <2> QED
    BY <2>2, <2>3
<1>8. (item \in Range(file') \/ item \in mangled') /\ item.seq <= seq'
  BY <1>1, <1>3, <1>4, <1>10
<1>9. DurableInv' /\ Wal!LogTypeOK' /\ ckpt' >= ckpt /\ KeptAbove(ckpt')
  <2> DEFINE fresh == {item}
  <2>1. /\ up' = TRUE /\ Live' \subseteq Live \cup fresh
        /\ \A p \in fresh :
             p.seq <= seq' /\ (p \in Range(file') \/ p \in mangled')
    BY <1>5, <1>8 DEF TypeOK
  <2> HIDE DEF fresh
  <2> QED
    BY <1>4, <1>7, <2>1, RunsOn
<1>11. ckpt' = ckpt
  BY <1>1 DEF Wal!Log
<1> QED
  BY <1>1, <1>3, <1>5, <1>7, <1>9, <1>11 DEF TypeOK, Stays

-----------------------------------------------------------------------------
(* Every step keeps the invariant, and what is unsent *)


\* The largest log number a flight carries.
LEMMA LastSeqTyped ==
    ASSUME TypeOK, NEW f \in flights
    PROVE  /\ LastSeq(f) \in Nat /\ f.batch \in Seq(Item) /\ Range(f.batch) \subseteq Item
           /\ LastSeq(f) > 0 /\ Answered(f) => AnsweredUpTo(LastSeq(f))
<1>1. f.batch \in Seq(Item)
  BY DEF TypeOK, Buffer!TypeOK, Buffer!Flight
<1>2. f.batch \in Seq(Wal!Entry)
  BY <1>1, ItemIsEntry
<1>3. Range(f.batch) \subseteq Item
  BY <1>1, LenProperties, ElementOfSeq DEF Range
<1> DEFINE P == Range(f.batch) \cap tracked
<1>4. P \subseteq Range(f.batch)
  OBVIOUS
<1>5. LastSeq(f) = Max({0} \cup {p.seq : p \in P})
  BY DEF LastSeq
<1> HIDE DEF P
<1> DEFINE S == {0} \cup {p.seq : p \in P}
<1>6. LastSeq(f) \in Nat /\ LastSeq(f) \in S
  BY <1>2, <1>4, <1>5, MaxOfNumbers
<1>7. ASSUME LastSeq(f) > 0, Answered(f) PROVE AnsweredUpTo(LastSeq(f))
  <2>1. PICK p \in P : LastSeq(f) = p.seq
    BY <1>6, <1>7
  <2> QED
    BY <1>7, <2>1 DEF AnsweredUpTo, P
<1> QED
  BY <1>1, <1>3, <1>6, <1>7

\* A step that only moves payloads in memory, or marks the log.
LEMMA QuietKeeps ==
    ASSUME TypeOK, DurableInv, up, up' = TRUE, LogGoesOn, Live' \subseteq Live,
           mangled' = mangled, Torn' <= Torn, faults' \in Nat, faults <= faults',
           ckpt' = ckpt \/ AnsweredUpTo(ckpt')
    PROVE  DurableInv' /\ Wal!LogTypeOK' /\ Stays
<1> DEFINE fresh == {}
<1>1. /\ IsFiniteSet(mangled) /\ Cardinality(mangled) + Torn <= faults
      /\ Cardinality(mangled) \in Nat /\ faults \in Nat
  BY FS_CardinalityType DEF DurableInv, TypeOK
<1>2. Torn \in Nat /\ Torn' \in Nat
  BY DEF Torn
<1>3. Cardinality(mangled') + Torn' <= faults'
  BY <1>1, <1>2
<1>4. IsFiniteSet(mangled') /\ mangled \subseteq mangled'
  BY <1>1
<1>5. /\ Live' \subseteq Live \cup fresh /\ fresh = {}
      /\ \A p \in fresh : p.seq <= seq' /\ (p \in Range(file') \/ p \in mangled')
  OBVIOUS
<1> HIDE DEF fresh
<1> QED
  BY <1>3, <1>4, <1>5, RunsOn DEF Stays

LEMMA StepKeeps ==
    ASSUME TypeOK, DurableInv, Next
    PROVE  TypeOK' /\ DurableInv' /\ Stays
<1> DEFINE Goal == TypeOK' /\ DurableInv' /\ Stays
<1>1. /\ Buffer!TypeOK /\ Wal!LogTypeOK /\ LifeOK
      /\ faults \in Nat /\ MaxFaults \in Nat
      /\ FileOK /\ ckpt \in Nat /\ seq \in Nat /\ checkpoint \in Nat
  BY DurableBufferAssumption DEF TypeOK, LifeOK, Wal!LogTypeOK, FileOK
<1>2. TypeOK' <=> Buffer!TypeOK' /\ Wal!LogTypeOK' /\ LifeOK'
  BY DEF TypeOK, LifeOK
<1>3. up => LogRuns
  BY <1>1 DEF DurableInv, LogRuns
<1>4. ASSUME NEW a \in Anchor, Enqueue(a) PROVE Goal
  <2>1. /\ up /\ Submit(a) /\ UNCHANGED <<up, recovering, faults>>
    BY <1>4 DEF Enqueue, Running
  <2>2. /\ DurableInv' /\ Wal!LogTypeOK' /\ Buffer!TypeOK'
        /\ tracked' \subseteq Item /\ mangled' \subseteq Item
        /\ Stays
    BY <2>1, SubmitKeeps
  <2>3. LifeOK'
    BY <1>1, <2>1, <2>2 DEF LifeOK
  <2> QED
    BY <1>2, <2>2, <2>3
<1>5. ASSUME NEW a \in Anchor, EnqueueThrows(a) PROVE Goal
  <2>1. /\ up /\ faults < MaxFaults /\ Wal!LogFails(a) /\ faults' = faults + 1
        /\ UNCHANGED <<buffer, up, recovering, tracked, mangled>>
    BY <1>5 DEF EnqueueThrows, Running
  <2>2. LogGoesOn /\ ckpt' = ckpt
    BY <1>3, <2>1, LogFailed DEF Wal!LogFails
  <2>3. Live' = Live /\ Buffer!TypeOK'
    BY <1>1, <2>1 DEF buffer, Live, Buffer!Sending, Buffer!TypeOK, Buffer!Flight, Buffer!Awaits
  <2>4. /\ IsFiniteSet(mangled) /\ Cardinality(mangled) + Torn <= faults
        /\ Cardinality(mangled) \in Nat
    BY FS_CardinalityType DEF DurableInv
  <2>5. IsFiniteSet(mangled') /\ Cardinality(mangled') + Torn' <= faults'
    <3>1. Torn \in 0..1 /\ Torn' \in 0..1
      BY DEF Torn
    <3> QED
      BY <1>1, <2>1, <2>4, <3>1
  <2> DEFINE fresh == {}
  <2>6. /\ Live' \subseteq Live \cup fresh /\ fresh = {} /\ up' = TRUE
        /\ mangled \subseteq mangled'
        /\ \A p \in fresh :
             p.seq <= seq' /\ (p \in Range(file') \/ p \in mangled')
    BY <2>1, <2>3 DEF TypeOK
  <2> HIDE DEF fresh
  <2>7. DurableInv' /\ Wal!LogTypeOK' /\ ckpt' >= ckpt /\ KeptAbove(ckpt')
    BY <2>1, <2>2, <2>5, <2>6, RunsOn
  <2>8. LifeOK'
    <3>1. faults' \in 0..MaxFaults
      BY <1>1, <2>1
    <3> QED
      BY <1>1, <2>1, <3>1 DEF LifeOK
  <2> QED
    BY <1>2, <2>2, <2>3, <2>7, <2>8 DEF Stays
<1>6. ASSUME NEW a \in Anchor, CrashLogging(a) PROVE Goal
  <2> DEFINE line == [seq |-> seq + 1, anchor |-> a]
  <2>1. Die /\ up /\ Wal!WriteTorn(line) /\ ckpt' = ckpt
    BY <1>6 DEF CrashLogging, Die
  <2>2. line \in Wal!Entry /\ seq < line.seq
    BY <1>1 DEF Wal!Entry
  <2> HIDE DEF line
  <2>3. OrderedLog(file) /\ AtMost(file, seq)
    BY <2>1 DEF DurableInv
  <2>4. FileOK' /\ OrderedLog(file') /\ KeptAbove(ckpt')
    BY <1>1, <2>1, <2>2, <2>3, TornWritten
  <2>5. TypeOK' /\ DurableInv'
    BY <1>1, <2>1, <2>4, Dies
  <2> QED
    BY <1>1, <2>1, <2>4, <2>5 DEF Stays
<1>7. ASSUME NEW f \in flights, Credit(f) PROVE Goal
  <2>1. /\ up /\ Buffer!Credit(f) /\ Wal!Mark(LastSeq(f))
        /\ tracked' = tracked \ Range(f.batch)
        /\ UNCHANGED <<up, recovering, mangled, faults>>
    BY <1>7 DEF Credit, Running
  <2>2. /\ LogGoesOn /\ tail' \in {tail, "clean"}
        /\ ckpt' = ckpt \/ (ckpt' = LastSeq(f) /\ LastSeq(f) > 0)
    BY <1>3, <2>1, LastSeqTyped, Marked
  <2>7. Answered(f)
    BY <2>1 DEF Buffer!Credit, Answered
  <2>8. ckpt' = ckpt \/ AnsweredUpTo(ckpt')
    BY <2>2, <2>7, LastSeqTyped
  <2>3. Buffer!TypeOK' /\ Live' \subseteq Live
    BY <1>1, <2>1, OthersGoOn
  <2>4. Torn' <= Torn
    BY <2>2 DEF Torn
  <2>5. DurableInv' /\ Wal!LogTypeOK' /\ Stays
    <3>1. up' = TRUE /\ faults' \in Nat /\ faults <= faults' /\ mangled' = mangled
      BY <1>1, <2>1 DEF TypeOK
    <3> QED
      BY <2>1, <2>2, <2>3, <2>4, <2>8, <3>1, QuietKeeps
  <2>6. LifeOK'
    BY <1>1, <2>1 DEF LifeOK
  <2> QED
    BY <1>2, <2>3, <2>5, <2>6
<1>8. ASSUME NEW f \in flights, CreditThrows(f) PROVE Goal
  <2>1. /\ up /\ faults < MaxFaults /\ Answered(f) /\ Buffer!AttemptLost(f)
        /\ receipts' = IF f.at = "stored" THEN receipts \cup Range(f.batch)
                                          ELSE receipts
        /\ Wal!MarkFails(LastSeq(f))
        /\ tracked' = tracked \ Range(f.batch) /\ faults' = faults + 1
        /\ UNCHANGED <<up, recovering, mangled>>
    BY <1>8 DEF CreditThrows, Running
  <2>2. /\ LogGoesOn /\ tail' = tail
        /\ ckpt' = ckpt \/ (ckpt' = LastSeq(f) /\ LastSeq(f) > 0)
    BY <1>3, <2>1, LastSeqTyped, MarkFailed
  <2>8. ckpt' = ckpt \/ AnsweredUpTo(ckpt')
    BY <2>1, <2>2, LastSeqTyped
  <2>3. Buffer!TypeOK' /\ Live' \subseteq Live
    BY <1>1, <2>1, LostGoesOn
  <2>4. Torn' <= Torn
    BY <2>2 DEF Torn
  <2>5. DurableInv' /\ Wal!LogTypeOK' /\ Stays
    <3>1. up' = TRUE /\ faults' \in Nat /\ faults <= faults' /\ mangled' = mangled
      BY <1>1, <2>1 DEF TypeOK
    <3> QED
      BY <2>1, <2>2, <2>3, <2>4, <2>8, <3>1, QuietKeeps
  <2>6. LifeOK'
    <3>1. faults' \in 0..MaxFaults
      BY <1>1, <2>1
    <3> QED
      BY <1>1, <2>1, <3>1 DEF LifeOK
  <2> QED
    BY <1>2, <2>3, <2>5, <2>6
<1>9. ASSUME NEW f \in flights, CrashMarking(f) PROVE Goal
  <2>1. /\ Die /\ up /\ LastSeq(f) > checkpoint /\ ckpt' = LastSeq(f)
        /\ UNCHANGED <<file, tail>> /\ Answered(f)
    BY <1>9 DEF CrashMarking, Die
  <2>2. ckpt <= checkpoint /\ LastSeq(f) \in Nat
    BY <2>1, LastSeqTyped DEF DurableInv
  <2>6. AnsweredUpTo(ckpt')
    BY <1>1, <2>1, <2>2, LastSeqTyped
  <2>3. FileOK' /\ OrderedLog(file')
    BY <1>1, <2>1 DEF FileOK, DurableInv, Wal!Entry, Wal!Tails
  <2>4. ckpt' \in Nat /\ ckpt' >= ckpt /\ KeptAbove(ckpt')
    BY <1>1, <2>1, <2>2 DEF KeptAbove
  <2>5. TypeOK' /\ DurableInv'
    BY <2>1, <2>3, <2>4, Dies
  <2> QED
    BY <2>4, <2>5, <2>6 DEF Stays
<1>10. CASE Rest
  <2>1. /\ up /\ UNCHANGED <<log, life>>
        /\ \/ Buffer!TimerFires \/ Buffer!Flush \/ Buffer!Stop
           \/ \E f \in flights :
                \/ Buffer!AnswerStored(f) \/ Buffer!AnswerError(f)
                \/ Buffer!AttemptFails(f) \/ Buffer!Resend(f) \/ Buffer!Refuse(f)
                \/ Buffer!Credit(f) \/ Buffer!Notify(f)
           \/ \E p \in failed : Buffer!LateArrival(p)
    BY <1>10 DEF Rest, Running
  <2>2. Buffer!TypeOK' /\ Live' \subseteq Live
    BY <1>1, <2>1, OthersGoOn
  <2>3. UNCHANGED <<file, tail, ckpt, seq, checkpoint, seen, up, recovering, tracked,
                    mangled, faults>>
    BY <2>1 DEF log, life
  <2>4. LogGoesOn /\ Torn' <= Torn
    <3>1. LogRuns'
      BY <1>3, <2>1, <2>3
         DEF LogRuns, Wal!LogTypeOK, OrderedLog, AtMost, Wal!Entry, Wal!Tails
    <3>2. Torn' = Torn /\ Torn \in Nat
      BY <2>3 DEF Torn
    <3> QED
      BY <1>1, <2>3, <3>1, <3>2 DEF LogGoesOn, KeptAbove, BareLineNew
  <2>5. DurableInv' /\ Wal!LogTypeOK' /\ Stays
    <3>1. up' = TRUE /\ faults' \in Nat /\ faults <= faults' /\ mangled' = mangled
      BY <1>1, <2>1, <2>3 DEF TypeOK
    <3> QED
      BY <2>1, <2>2, <2>3, <2>4, <3>1, QuietKeeps
  <2>6. LifeOK'
    BY <1>1, <2>3 DEF LifeOK
  <2> QED
    BY <1>2, <2>2, <2>5, <2>6
<1>11. CASE Crash
  <2>1. Die /\ UNCHANGED <<file, tail, ckpt>>
    BY <1>11 DEF Crash
  <2>2. FileOK' /\ OrderedLog(file') /\ ckpt' \in Nat
    BY <1>1, <2>1 DEF FileOK, DurableInv, Wal!Entry, Wal!Tails
  <2>3. Stays
    BY <1>1, <2>1 DEF Stays, KeptAbove
  <2> QED
    BY <2>1, <2>2, <2>3, Dies
<1>12. CASE Restart
  <2>1. /\ up = FALSE /\ up' = TRUE /\ Wal!Open /\ recovering' = Wal!After(ckpt)
        /\ UNCHANGED <<buffer, tracked, mangled, faults>>
    BY <1>12 DEF Restart, TypeOK
  <2>2. OrderedLog(file) /\ Live = {} /\ mangled = {}
    BY <2>1 DEF DurableInv
  <2>3. LogRuns' /\ UNCHANGED <<file, tail, ckpt>>
    BY <1>1, <2>1, <2>2, Opened
  <2>4. Live' = {} /\ Buffer!TypeOK'
    BY <1>1, <2>1, <2>2
       DEF buffer, Live, Buffer!Sending, Buffer!TypeOK, Buffer!Flight, Buffer!Awaits
  <2>5. recovering' \in Seq(Wal!Entry)
    <3> DEFINE keep == {i \in DOMAIN file : file[i].seq > ckpt}
    <3>1. keep \subseteq DOMAIN file /\ recovering' = Picked(file, keep)
      BY <2>1, LogOperators
    <3> HIDE DEF keep
    <3> QED
      BY <1>1, <3>1, PickedRange DEF FileOK
  <2>6. LifeOK'
    BY <1>1, <2>1, <2>5 DEF LifeOK
  <2>7. Torn' = Torn
    BY <2>3 DEF Torn
  <2>8. DurableInv'
    BY <2>1, <2>3, <2>4, <2>7 DEF DurableInv, LogRuns
  <2>9. Stays
    BY <1>1, <2>3 DEF Stays, KeptAbove
  <2> QED
    BY <1>2, <2>3, <2>4, <2>6, <2>8, <2>9 DEF LogRuns
<1>13. CASE Recover
  <2> DEFINE a == Head(recovering).anchor
  <2>1. /\ up /\ recovering # <<>> /\ recovering' = Tail(recovering)
        /\ UNCHANGED <<up, faults>>
        /\ \/ UNCHANGED <<buffer, log, tracked, mangled>>
           \/ Submit(a)
    BY <1>13 DEF Recover
  <2>2. recovering \in Seq(Wal!Entry)
    BY <1>1 DEF LifeOK
  <2>3. recovering' \in Seq(Wal!Entry) /\ Head(recovering) \in Wal!Entry
    BY <2>1, <2>2, HeadTailProperties
  <2>4. a \in Anchor
    BY <2>3 DEF Wal!Entry
  <2> HIDE DEF a
  <2>5. CASE Submit(a)
    <3>1. /\ DurableInv' /\ Wal!LogTypeOK' /\ Buffer!TypeOK'
          /\ tracked' \subseteq Item /\ mangled' \subseteq Item
          /\ Stays
      BY <2>1, <2>4, <2>5, SubmitKeeps
    <3>2. LifeOK'
      BY <1>1, <2>1, <2>3, <3>1 DEF LifeOK
    <3> QED
      BY <1>2, <3>1, <3>2
  <2>6. CASE UNCHANGED <<buffer, log, tracked, mangled>>
    <3>1. UNCHANGED <<file, tail, ckpt, seq, checkpoint, seen, tracked, mangled>>
      BY <2>6 DEF log
    <3>2. Live' = Live /\ Buffer!TypeOK'
      BY <1>1, <2>6
         DEF buffer, Live, Buffer!Sending, Buffer!TypeOK, Buffer!Flight, Buffer!Awaits
    <3>3. Wal!LogTypeOK' /\ LifeOK'
      BY <1>1, <2>1, <2>3, <3>1 DEF Wal!LogTypeOK, Wal!Entry, Wal!Tails, LifeOK
    <3>4. DurableInv'
      BY <2>1, <3>1, <3>2 DEF DurableInv, OrderedLog, AtMost, Torn, Covered
    <3>5. Stays
      BY <1>1, <3>1 DEF Stays, KeptAbove
    <3> QED
      BY <1>2, <3>2, <3>3, <3>4, <3>5
  <2> QED
    BY <2>1, <2>5, <2>6
<1> QED
  BY <1>4, <1>5, <1>6, <1>7, <1>8, <1>9, <1>10, <1>11, <1>12, <1>13 DEF Next

LEMMA StutterKeeps ==
    ASSUME TypeOK, DurableInv, UNCHANGED vars
    PROVE  TypeOK' /\ DurableInv' /\ Stays
<1>1. /\ UNCHANGED <<buffer, file, tail, ckpt, seq, checkpoint, seen>>
      /\ UNCHANGED <<up, recovering, tracked, mangled, faults>>
  BY DEF vars, log, life
<1>2. Live' = Live /\ Buffer!TypeOK'
  BY <1>1
     DEF TypeOK, buffer, Live, Buffer!Sending, Buffer!TypeOK, Buffer!Flight, Buffer!Awaits
<1>3. Wal!LogTypeOK' /\ ckpt \in Nat
  BY <1>1 DEF TypeOK, Wal!LogTypeOK, Wal!Entry, Wal!Tails
<1>4. TypeOK'
  BY <1>1, <1>2, <1>3 DEF TypeOK
<1>5. DurableInv'
  BY <1>1, <1>2 DEF DurableInv, OrderedLog, AtMost, Torn, Covered
<1>6. Stays
  BY <1>1, <1>3 DEF Stays, KeptAbove
<1> QED
  BY <1>4, <1>5, <1>6

LEMMA InitHolds == Init => TypeOK /\ DurableInv
<1> SUFFICES ASSUME Init PROVE TypeOK /\ DurableInv
  OBVIOUS
<1> DEFINE none == <<>>
<1>1. (\A S : none \in Seq(S)) /\ Range(none) = {} /\ Len(none) = 0 /\ DOMAIN none = {}
  BY EmptyOnce, EmptySeq
<1>2. /\ queue = none /\ deadLetter = none /\ accepted = none /\ seen = none
      /\ recovering = none /\ file = none
  BY DEF Init, Buffer!Init, Wal!Init
<1>3. /\ tokens = 0 /\ stopped = FALSE /\ flights = {}
      /\ delivered = {} /\ receipts = {} /\ notified = {} /\ refused = {}
      /\ dropped = {} /\ failed = {} /\ stored = {} /\ duplicated = {}
      /\ tail = "clean" /\ ckpt = 0 /\ seq = 0 /\ checkpoint = 0
      /\ up = TRUE /\ tracked = {} /\ mangled = {} /\ faults = 0
  BY DEF Init, Buffer!Init, Wal!Init
<1>4. ReplayWindow \in Nat /\ MaxFaults \in Nat
  BY DurableBufferAssumption
<1> HIDE DEF none
<1>5. Buffer!TypeOK
  BY <1>1, <1>2, <1>3 DEF Buffer!TypeOK
<1>6. Wal!LogTypeOK
  BY <1>1, <1>2, <1>3, <1>4 DEF Wal!LogTypeOK, Wal!Tails
<1>7. LifeOK
  <2>1. recovering \in Seq(Wal!Entry)
    BY <1>1, <1>2, Zenon
  <2>2. up \in BOOLEAN
    BY <1>3
  <2>3. faults \in 0..MaxFaults
    BY <1>3, <1>4
  <2> QED
    BY <1>3, <2>1, <2>2, <2>3 DEF LifeOK
<1>8. Live = {}
  BY <1>1, <1>2, <1>3 DEF Live, Buffer!Sending
<1>9. IsFiniteSet(mangled) /\ Cardinality(mangled) + Torn <= faults
  BY <1>3, FS_EmptySet DEF Torn
<1>10. OrderedLog(file) /\ AtMost(file, seq)
  BY <1>1, <1>2 DEF OrderedLog, AtMost
<1>11. DurableInv
  BY <1>3, <1>8, <1>9, <1>10 DEF DurableInv
<1> QED
  BY <1>5, <1>6, <1>7, <1>11 DEF TypeOK, LifeOK

\* The invariant holds throughout, whatever crashes and fails.
LEMMA DurableInvAlways == Spec => [](TypeOK /\ DurableInv)
<1>1. TypeOK /\ DurableInv /\ [Next]_vars => (TypeOK /\ DurableInv)'
  BY StepKeeps, StutterKeeps
<1> QED
  BY <1>1, InitHolds, PTL DEF Spec

\* Every variable keeps its type, through crashes and restarts: the log's numbers are
\* numbers, and what recovery reads back are entries.
THEOREM DurableTypeCorrect == Spec => []TypeOK
BY DurableInvAlways, PTL

\* A payload that is still to be sent can be read back from the log, unless a flush
\* put it at or below the checkpoint or its line was spoiled; no more lines are
\* spoiled than there were faults; and the numbers grow from line to line.
THEOREM WrittenAheadAlways == Spec => []WrittenAhead
<1>1. TypeOK /\ DurableInv => WrittenAhead
  <2> SUFFICES ASSUME TypeOK, DurableInv PROVE WrittenAhead
    OBVIOUS
  <2>1. Wal!LogOrdered /\ (up => \A i \in DOMAIN file : file[i].seq <= seq)
    BY LogOperators DEF DurableInv, AtMost
  <2>2. \A p \in Live : p \in Range(file) \/ p.seq <= checkpoint \/ p \in mangled
    BY DEF DurableInv, Covered
  <2>3. Cardinality(mangled) <= faults
    <3>1. /\ Cardinality(mangled) \in Nat /\ Cardinality(mangled) + Torn <= faults
          /\ faults \in Nat
      BY FS_CardinalityType DEF DurableInv, TypeOK
    <3>2. Torn \in Nat
      BY DEF Torn
    <3> QED
      BY <3>1, <3>2
  <2> QED
    BY <2>1, <2>2, <2>3 DEF WrittenAhead
<1> QED
  BY <1>1, DurableInvAlways, PTL

\* An entry that could be read back.
LEMMA Readable ==
    ASSUME TypeOK, NEW e \in Range(file)
    PROVE  e.seq \in Nat
BY EntryTyped DEF TypeOK, Wal!LogTypeOK, Wal!Entry, Range

\* TakenByAnswer, of one step.
Taken ==
    /\ ckpt' >= ckpt
    /\ \A e \in Replayable :
        \/ e \in Replayable'
        \/ tail = "bare" /\ e = Last(file)
        \/ \E f \in flights : Answered(f) /\
             \E p \in Range(f.batch) \cap tracked : ckpt' = p.seq /\ e.seq <= p.seq

LEMMA StaysIsTaken ==
    ASSUME TypeOK, TypeOK', Stays
    PROVE  Taken
<1>1. /\ ckpt' >= ckpt /\ KeptAbove(ckpt') /\ (ckpt' = ckpt \/ AnsweredUpTo(ckpt'))
      /\ ckpt \in Nat /\ ckpt' \in Nat
  BY DEF Stays, TypeOK, Wal!LogTypeOK
<1>2. ASSUME NEW e \in Replayable, e \notin Replayable', ~(tail = "bare" /\ e = Last(file))
      PROVE  \E f \in flights : Answered(f) /\
                \E p \in Range(f.batch) \cap tracked : ckpt' = p.seq /\ e.seq <= p.seq
  <2>1. e \in Range(file) /\ e.seq > ckpt /\ e.seq \in Nat
    BY Readable DEF Replayable
  <2>2. e.seq <= ckpt'
    <3>1. CASE e \in Range(file')
      BY <1>1, <1>2, <2>1, <3>1 DEF Replayable
    <3>2. CASE e \notin Range(file')
      BY <1>1, <1>2, <2>1, <3>2 DEF KeptAbove
    <3> QED
      BY <3>1, <3>2
  <2>3. AnsweredUpTo(ckpt')
    BY <1>1, <2>1, <2>2
  <2> QED
    BY <2>2, <2>3 DEF AnsweredUpTo
<1> QED
  BY <1>1, <1>2 DEF Taken

\* The checkpoint on disk never moves back, and an entry that could be read back goes
\* only under an answered flight that carries its number or a larger one, or when it
\* ended the file without its newline: no rotation, crash, failed write or restart
\* takes one.  It does not say that the entry itself was sent.
THEOREM TakenByAnswerAlways == Spec => TakenByAnswer
<1>1. /\ TypeOK /\ DurableInv /\ [Next]_vars => [Stays]_vars
      /\ TypeOK /\ TypeOK' /\ [Stays]_vars => [Taken]_vars
  BY StepKeeps, StaysIsTaken
<1>2. TypeOK /\ DurableInv /\ TypeOK' /\ [Next]_vars => [Taken]_vars
  BY <1>1
<1>3. [Taken]_vars <=>
      [/\ ckpt' >= ckpt
       /\ \A e \in Replayable :
            \/ e \in Replayable'
            \/ tail = "bare" /\ e = Last(file)
            \/ \E f \in flights : Answered(f) /\
                 \E p \in Range(f.batch) \cap tracked :
                     ckpt' = p.seq /\ e.seq <= p.seq]_vars
  BY DEF Taken
<1> QED
  BY <1>2, <1>3, DurableInvAlways, PTL DEF Spec, TakenByAnswer
=============================================================================
