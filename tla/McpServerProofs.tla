---------------------------- MODULE McpServerProofs ----------------------------
(***************************************************************************)
(* Proofs about the two parts of the MCP server that have state: the tap    *)
(* of its transport (TransportTap) and the reader of the anchor stream      *)
(* with the gate before a tool (AnchorIndex, ChainGate).  The parts share   *)
(* nothing; their proofs share what they say of sequences.                  *)
(*                                                                          *)
(* The tap, for every set of calls, every buffer and batch size, retry      *)
(* count and bound of the retry queue.  TapInv is inductive.  It says of    *)
(* the payloads in memory what Accounted says, place by place instead of    *)
(* in one sequence: the buffer, the batch being sent, the entries taken to  *)
(* be retried and the retry queue have nothing in common, with each other   *)
(* or with what has an outcome.  It adds the shape of a flush (a flush      *)
(* that sends the buffer has nothing left to retry, so that it may end      *)
(* there), the order of the pending calls, and where the items of a         *)
(* receipt have gone.  Most steps neither take a call nor make a payload:   *)
(* one lemma says what such a step must show (GoesOn).                      *)
(*                                                                          *)
(* The reader and the gate, for every set of servers and loops, every cap,  *)
(* age and batch size, and every policy.  GateInv is inductive.  It says    *)
(* of each index that its three lists agree (Agree) and hold the newest of  *)
(* the entries it was ever given (Holds), and of each message who has it:   *)
(* a loop about to work on it, an index, or nobody.  Agree and Holds are    *)
(* carried through the two loops of the code, over a reply and over the     *)
(* stale entries, one entry at a time (IndexSteps, RemoveSteps).            *)
(***************************************************************************)
EXTENDS TransportTap, ChainGate, OnceSequences

-----------------------------------------------------------------------------
(* Flattening *)

\* The flattening of the first m sequences of ss, as a function of m.
Joins(ss, f, i) == IF i = 1 THEN ss[i] ELSE f[i - 1] \o ss[i]
Joining(ss, f, m) == f = [i \in 1..m |-> Joins(ss, f, i)]

LEMMA JoiningExists ==
    ASSUME NEW ss
    PROVE  \A m \in Nat : \E f : Joining(ss, f, m)
<1> DEFINE G == {m \in Nat : \E f : Joining(ss, f, m)}
<1>1. 0 \in G
  <2>1. Joining(ss, <<>>, 0)
    BY DEF Joining
  <2> QED
    BY <2>1
<1>2. ASSUME NEW m \in Nat, m \in G PROVE m + 1 \in G
  <2>1. PICK f : Joining(ss, f, m)
    BY <1>2
  <2> DEFINE g == [i \in 1..(m + 1) |-> IF i = m + 1 THEN Joins(ss, f, m + 1) ELSE f[i]]
  <2>2. ASSUME NEW i \in 1..(m + 1) PROVE g[i] = Joins(ss, g, i)
    <3>1. CASE i = m + 1
      <4>1. g[i] = Joins(ss, f, i)
        BY <3>1
      <4>2. i # 1 => i - 1 \in 1..(m + 1) /\ i - 1 # m + 1
        BY <3>1
      <4>3. i # 1 => g[i - 1] = f[i - 1]
        BY <4>2
      <4> HIDE DEF g
      <4> QED
        BY <4>1, <4>3 DEF Joins
    <3>2. CASE i # m + 1
      <4>1. i \in 1..m /\ (i # 1 => i - 1 \in 1..(m + 1) /\ i - 1 # m + 1)
        BY <3>2
      <4>2. g[i] = f[i] /\ (i # 1 => g[i - 1] = f[i - 1])
        BY <3>2, <4>1
      <4>3. f[i] = Joins(ss, f, i)
        BY <2>1, <4>1 DEF Joining
      <4> HIDE DEF g
      <4> QED
        BY <4>2, <4>3 DEF Joins
    <3> QED
      BY <3>1, <3>2
  <2>3. g = [i \in 1..(m + 1) |-> g[i]]
    OBVIOUS
  <2>4. Joining(ss, g, m + 1)
    <3> HIDE DEF g
    <3>1. [i \in 1..(m + 1) |-> g[i]] = [i \in 1..(m + 1) |-> Joins(ss, g, i)]
      BY <2>2
    <3> QED
      BY <2>3, <3>1 DEF Joining
  <2> HIDE DEF g
  <2> QED
    BY <2>4
<1> HIDE DEF G
<1>3. \A m \in Nat : m \in G
  BY <1>1, <1>2, SetInduction
<1> QED
  BY <1>3 DEF G

LEMMA FlattenJoins ==
    ASSUME NEW S, NEW ss \in Seq(Seq(S)), ss # <<>>
    PROVE  \E f : Joining(ss, f, Len(ss)) /\ FlattenSeq(ss) = f[Len(ss)]
<1>1. Len(ss) \in Nat /\ Len(ss) # 0
  BY EmptySeq, LenProperties
<1> DEFINE F == CHOOSE f : f = [i \in 1..Len(ss) |-> IF i = 1 THEN ss[i]
                                                   ELSE f[i - 1] \o ss[i]]
<1>2. FlattenSeq(ss) = F[Len(ss)]
  BY <1>1 DEF FlattenSeq
<1>3. \E f : f = [i \in 1..Len(ss) |-> IF i = 1 THEN ss[i] ELSE f[i - 1] \o ss[i]]
  BY <1>1, JoiningExists DEF Joining, Joins
<1>4. F = [i \in 1..Len(ss) |-> IF i = 1 THEN ss[i] ELSE F[i - 1] \o ss[i]]
  BY <1>3
<1>5. Joining(ss, F, Len(ss))
  <2> HIDE DEF F
  <2> QED
    BY <1>4 DEF Joining, Joins
<1> HIDE DEF F
<1> QED
  BY <1>2, <1>5

\* What flattening makes of sequences that share nothing.
LEMMA FlattenOnce ==
    ASSUME NEW S, NEW ss \in Seq(Seq(S))
    PROVE  LET all == FlattenSeq(ss) IN
           /\ all \in Seq(S)
           /\ Range(all) = UNION {Range(ss[i]) : i \in DOMAIN ss}
           /\ (\A i \in DOMAIN ss : /\ IsInjective(ss[i])
                                    /\ \A j \in DOMAIN ss : i # j =>
                                         Range(ss[i]) \cap Range(ss[j]) = {})
              => IsInjective(all)
<1> DEFINE n == Len(ss)
           Upto(m) == UNION {Range(ss[i]) : i \in 1..m}
           Apart == \A i \in DOMAIN ss : /\ IsInjective(ss[i])
                                         /\ \A j \in DOMAIN ss : i # j =>
                                              Range(ss[i]) \cap Range(ss[j]) = {}
           Good(t, m) == t \in Seq(S) /\ Range(t) = Upto(m) /\ (Apart => IsInjective(t))
<1>1. n \in Nat /\ DOMAIN ss = 1..n
  BY LenProperties
<1>2. CASE ss = <<>>
  <2>1. n = 0
    BY <1>2
  <2>2. FlattenSeq(ss) = <<>>
    BY <1>2, <2>1 DEF FlattenSeq
  <2>3. UNION {Range(ss[i]) : i \in DOMAIN ss} = {}
    BY <1>1, <2>1
  <2> QED
    BY <2>2, <2>3, EmptyOnce
<1>3. CASE ss # <<>>
  <2>1. PICK f : Joining(ss, f, n) /\ FlattenSeq(ss) = f[n]
    BY <1>3, FlattenJoins
  <2>2. n # 0
    BY <1>3, EmptySeq
  <2>3. \A i \in 1..n : f[i] = Joins(ss, f, i) /\ ss[i] \in Seq(S)
    BY <1>1, <2>1, ElementOfSeq DEF Joining
  <2> DEFINE G == {m \in Nat : m + 1 <= n => Good(f[m + 1], m + 1)}
  <2>4. 0 \in G
    <3>1. f[1] = ss[1] /\ ss[1] \in Seq(S)
      BY <1>1, <2>2, <2>3 DEF Joins
    <3>2. Upto(1) = Range(ss[1])
      OBVIOUS
    <3>3. Apart => IsInjective(ss[1])
      BY <1>1, <2>2
    <3> HIDE DEF Upto, Apart
    <3> QED
      BY <3>1, <3>2, <3>3
  <2>5. ASSUME NEW m \in Nat, m \in G PROVE m + 1 \in G
    <3> SUFFICES ASSUME m + 2 <= n PROVE Good(f[m + 2], m + 2)
      OBVIOUS
    <3>1. m + 1 \in 1..n /\ m + 2 \in 1..n /\ m + 2 # 1 /\ (m + 2) - 1 = m + 1
      BY <1>1
    <3>2. f[m + 2] = f[m + 1] \o ss[m + 2] /\ ss[m + 2] \in Seq(S)
      BY <2>3, <3>1 DEF Joins
    <3>3. Good(f[m + 1], m + 1)
      <4>1. m + 1 <= n
        BY <1>1, <3>1
      <4> HIDE DEF Good
      <4> QED
        BY <2>5, <4>1
    <3>4. Upto(m + 2) = Upto(m + 1) \cup Range(ss[m + 2])
      <4>1. 1..(m + 2) = (1..(m + 1)) \cup {m + 2}
        OBVIOUS
      <4> QED
        BY <4>1
    <3>5. Apart => IsInjective(ss[m + 2]) /\ Upto(m + 1) \cap Range(ss[m + 2]) = {}
      <4> SUFFICES ASSUME Apart
                   PROVE  IsInjective(ss[m + 2]) /\ Upto(m + 1) \cap Range(ss[m + 2]) = {}
        OBVIOUS
      <4>1. IsInjective(ss[m + 2])
        BY <1>1, <3>1
      <4>2. ASSUME NEW i \in 1..(m + 1) PROVE Range(ss[i]) \cap Range(ss[m + 2]) = {}
        <5>1. i \in 1..n /\ i # m + 2
          BY <1>1, <3>1
        <5> QED
          BY <1>1, <3>1, <5>1
      <4> QED
        BY <4>1, <4>2
    <3> HIDE DEF Apart, Upto
    <3>6. /\ f[m + 1] \o ss[m + 2] \in Seq(S)
          /\ Range(f[m + 1] \o ss[m + 2]) = Range(f[m + 1]) \cup Range(ss[m + 2])
          /\ (/\ IsInjective(f[m + 1]) /\ IsInjective(ss[m + 2])
              /\ Range(f[m + 1]) \cap Range(ss[m + 2]) = {})
             => IsInjective(f[m + 1] \o ss[m + 2])
      BY <3>2, <3>3, ConcatOnce
    <3> QED
      BY <3>2, <3>3, <3>4, <3>5, <3>6
  <2>6. \A m \in Nat : m \in G
    <3> HIDE DEF G
    <3> QED
      BY <2>4, <2>5, SetInduction
  <2>7. Good(f[n], n)
    <3>1. n - 1 \in Nat /\ (n - 1) + 1 = n
      BY <1>1, <2>2
    <3>2. n - 1 \in G
      BY <2>6, <3>1
    <3> HIDE DEF Good
    <3> QED
      BY <3>1, <3>2
  <2> QED
    BY <1>1, <2>1, <2>7
<1> QED
  BY <1>2, <1>3

\* The flattening of one more sequence.
LEMMA FlattenAppend ==
    ASSUME NEW S, NEW ss \in Seq(Seq(S)), NEW t \in Seq(S)
    PROVE  FlattenSeq(Append(ss, t)) = FlattenSeq(ss) \o t
<1> DEFINE n == Len(ss)
           longer == Append(ss, t)
<1>1. n \in Nat /\ DOMAIN ss = 1..n
  BY LenProperties
<1>2. /\ longer \in Seq(Seq(S)) /\ Len(longer) = n + 1 /\ longer # <<>>
      /\ \A i \in 1..n : longer[i] = ss[i]
      /\ longer[n + 1] = t
  BY AppendProperties
<1> HIDE DEF longer
<1>3. PICK g : Joining(longer, g, n + 1) /\ FlattenSeq(longer) = g[n + 1]
  BY <1>2, FlattenJoins
<1>4. \A i \in 1..(n + 1) : g[i] = Joins(longer, g, i)
  BY <1>3 DEF Joining
<1>5. CASE n = 0
  <2>1. g[1] = t
    BY <1>2, <1>4, <1>5 DEF Joins
  <2>2. FlattenSeq(ss) = <<>>
    <3>1. ss = <<>>
      BY <1>5, EmptySeq
    <3> QED
      BY <1>5, <3>1 DEF FlattenSeq
  <2>3. <<>> \o t = t
    OBVIOUS
  <2> QED
    BY <1>3, <1>5, <2>1, <2>2, <2>3 DEF longer
<1>6. CASE n # 0
  <2>1. PICK f : Joining(ss, f, n) /\ FlattenSeq(ss) = f[n]
    BY <1>6, EmptySeq, FlattenJoins
  <2>2. \A i \in 1..n : f[i] = Joins(ss, f, i)
    BY <2>1 DEF Joining
  <2> DEFINE G == {m \in Nat : m + 1 <= n => g[m + 1] = f[m + 1]}
  <2>3. 0 \in G
    <3>1. 1 \in 1..n /\ 1 \in 1..(n + 1)
      BY <1>1, <1>6
    <3> QED
      BY <1>2, <1>4, <2>2, <3>1 DEF Joins
  <2>4. ASSUME NEW m \in Nat, m \in G PROVE m + 1 \in G
    <3> SUFFICES ASSUME m + 2 <= n PROVE g[m + 2] = f[m + 2]
      OBVIOUS
    <3>1. /\ m + 1 <= n /\ m + 2 \in 1..n /\ m + 2 \in 1..(n + 1)
          /\ m + 2 # 1 /\ (m + 2) - 1 = m + 1
      BY <1>1
    <3>2. g[m + 1] = f[m + 1]
      BY <2>4, <3>1
    <3>3. g[m + 2] = g[m + 1] \o longer[m + 2]
      BY <1>4, <3>1 DEF Joins
    <3>4. f[m + 2] = f[m + 1] \o ss[m + 2]
      BY <2>2, <3>1 DEF Joins
    <3> QED
      BY <1>2, <3>1, <3>2, <3>3, <3>4
  <2>5. \A m \in Nat : m \in G
    <3> HIDE DEF G
    <3> QED
      BY <2>3, <2>4, SetInduction
  <2>6. g[n] = f[n]
    <3>1. n - 1 \in Nat /\ (n - 1) + 1 = n
      BY <1>1, <1>6
    <3>2. n - 1 \in G
      BY <2>5, <3>1
    <3> QED
      BY <3>1, <3>2
  <2>7. g[n + 1] = g[n] \o t
    <3>1. n + 1 \in 1..(n + 1) /\ n + 1 # 1 /\ (n + 1) - 1 = n
      BY <1>1, <1>6
    <3> QED
      BY <1>2, <1>4, <3>1 DEF Joins
  <2> QED
    BY <1>3, <2>1, <2>6, <2>7 DEF longer
<1> QED
  BY <1>5, <1>6

-----------------------------------------------------------------------------
(* The inductive invariant *)

\* What the entries of a queue carry; no payload twice in one, none in two.
Carried(q) == UNION {Range(q[i].items) : i \in DOMAIN q}

Separate(q) ==
    \A i \in DOMAIN q : /\ IsInjective(q[i].items)
                        /\ \A j \in DOMAIN q : i # j =>
                             Range(q[i].items) \cap Range(q[j].items) = {}

\* An entry of the retry queue has failed before.
Tried(q) == \A e \in Range(q) : e.attempts > 0

\* What a flush sends, has taken and has given back.
OnItsWay   == Range(current.items) \cup Carried(eligible) \cup Carried(retryQueue)
Everything == Range(buffer) \cup OnItsWay \cup Settled

SendTyped ==
    /\ flushing \in Stages
    /\ current \in Batch
    /\ eligible \in Seq(Entry) /\ retryQueue \in Seq(Entry)
    /\ Len(Payloads(retryQueue)) <= MaxRetryBuffer

SendApart ==
    /\ IsInjective(current.items) /\ Separate(eligible) /\ Separate(retryQueue)
    /\ Range(current.items) \cap Carried(eligible) = {}
    /\ Range(current.items) \cap Carried(retryQueue) = {}
    /\ Carried(eligible) \cap Carried(retryQueue) = {}

\* Between its requests a flush holds no batch; one that sends the buffer has
\* nothing left to retry, and so may end.
FlushShape ==
    /\ flushing = "idle" => current = Nothing /\ eligible = <<>>
    /\ flushing = "between" => current = Nothing
    /\ flushing \in {"posted", "reading"} /\ current.attempts = 0 => eligible = <<>>
    /\ Tried(eligible) /\ Tried(retryQueue)

Sending == SendTyped /\ SendApart /\ FlushShape

OutcomesApart(f) == \A o, p \in Outcomes : o # p => f[o] \cap f[p] = {}

PlacesApart ==
    /\ buffer \in Seq(Item) /\ IsInjective(buffer)
    /\ outcome \in [Outcomes -> SUBSET Item] /\ OutcomesApart(outcome)
    /\ Range(buffer) \cap OnItsWay = {}
    /\ Range(buffer) \cap Settled = {}
    /\ OnItsWay \cap Settled = {}

\* The call c came before the call d; the calls of t are in the order they came in.
Earlier(s, c, d) == \A i, j \in DOMAIN s : s[i] = c /\ s[j] = d => i < j

InOrder(t, s) == \A k, l \in DOMAIN t : k < l => Earlier(s, t[k], t[l])

CallsKnown ==
    /\ pending \in Seq(Call) /\ requested \in Seq(Call)
    /\ Len(pending) <= MaxBuffer
    /\ IsInjective(pending) /\ IsInjective(requested)
    /\ Range(pending) \subseteq handled /\ handled \subseteq Range(requested)
    /\ witnessed \subseteq handled
    /\ witnessed \cap Range(pending) = {}
    /\ InOrder(pending, requested)
    /\ \A c \in Range(pending), d \in GivenUp : Earlier(requested, d, c)

\* The payloads speak of what was witnessed, each of calls of its own.
CallsTold ==
    /\ witnessed = skipped \cup UNION {i.calls : i \in Everything}
    /\ \A i \in Everything : i.calls \cap skipped = {}
    /\ \A i, j \in Everything : i # j => i.calls \cap j.calls = {}

ReceiptsFollow ==
    /\ {succeeded, erred, disturbed} \subseteq SUBSET Item
    /\ stored \subseteq Everything
    /\ succeeded \subseteq stored
    /\ succeeded \subseteq outcome["delivered"] \cup disturbed
    /\ erred \subseteq outcome["refused"] \cup outcome["exhausted"] \cup disturbed
    /\ outcome["delivered"] \subseteq stored
    /\ flushing = "reading" => Range(current.items) \subseteq stored

TapInv ==
    /\ link \in Links
    /\ CallsKnown
    /\ Sending
    /\ PlacesApart
    /\ CallsTold
    /\ ReceiptsFollow

-----------------------------------------------------------------------------
(* The queues of batches *)

\* The sequences of items in a queue.
ItemsOf(q) == [i \in DOMAIN q |-> q[i].items]

LEMMA ItemsOfTyped ==
    ASSUME NEW q \in Seq(Entry)
    PROVE  /\ ItemsOf(q) \in Seq(Seq(Item)) /\ Len(ItemsOf(q)) = Len(q)
           /\ DOMAIN ItemsOf(q) = DOMAIN q
           /\ \A i \in DOMAIN q : /\ ItemsOf(q)[i] = q[i].items
                                  /\ q[i].items \in Seq(Item) /\ q[i].attempts \in Nat
           /\ Payloads(q) = FlattenSeq(ItemsOf(q))
<1>1. Len(q) \in Nat /\ DOMAIN q = 1..Len(q)
  BY LenProperties
<1>2. \A i \in DOMAIN q : q[i].items \in Seq(Item) /\ q[i].attempts \in Nat
  <2>1. \A i \in DOMAIN q : q[i] \in Entry
    BY <1>1, ElementOfSeq
  <2> QED
    BY <2>1 DEF Entry
<1>3. ItemsOf(q) \in [1..Len(q) -> Seq(Item)]
  BY <1>1, <1>2 DEF ItemsOf
<1>4. ItemsOf(q) \in Seq(Seq(Item))
  BY <1>1, <1>3, SeqDef
<1>5. DOMAIN ItemsOf(q) = DOMAIN q /\ \A i \in DOMAIN q : ItemsOf(q)[i] = q[i].items
  BY DEF ItemsOf
<1>6. Len(ItemsOf(q)) = Len(q)
  BY <1>1, <1>4, <1>5, LenProperties
<1>7. Payloads(q) = FlattenSeq(ItemsOf(q))
  BY DEF Payloads, ItemsOf
<1> QED
  BY <1>2, <1>4, <1>5, <1>6, <1>7

\* The payloads of a queue, and of one more entry.
LEMMA PayloadsOnce ==
    ASSUME NEW q \in Seq(Entry)
    PROVE  /\ Payloads(q) \in Seq(Item) /\ Len(Payloads(q)) \in Nat
           /\ Range(Payloads(q)) = Carried(q)
           /\ Separate(q) => IsInjective(Payloads(q))
<1> DEFINE ss == ItemsOf(q)
<1>1. /\ ss \in Seq(Seq(Item)) /\ DOMAIN ss = DOMAIN q
      /\ \A i \in DOMAIN q : ss[i] = q[i].items
      /\ Payloads(q) = FlattenSeq(ss)
  BY ItemsOfTyped
<1>2. UNION {Range(ss[i]) : i \in DOMAIN ss} = Carried(q)
  BY <1>1 DEF Carried
<1>3. Separate(q) <=> \A i \in DOMAIN ss : /\ IsInjective(ss[i])
                                           /\ \A j \in DOMAIN ss : i # j =>
                                                Range(ss[i]) \cap Range(ss[j]) = {}
  BY <1>1 DEF Separate
<1> HIDE DEF ss
<1>4. /\ FlattenSeq(ss) \in Seq(Item)
      /\ Range(FlattenSeq(ss)) = UNION {Range(ss[i]) : i \in DOMAIN ss}
      /\ (\A i \in DOMAIN ss : /\ IsInjective(ss[i])
                               /\ \A j \in DOMAIN ss : i # j =>
                                    Range(ss[i]) \cap Range(ss[j]) = {})
         => IsInjective(FlattenSeq(ss))
  BY <1>1, FlattenOnce
<1>5. Len(FlattenSeq(ss)) \in Nat
  BY <1>4, LenProperties
<1> QED
  BY <1>1, <1>2, <1>3, <1>4, <1>5

LEMMA EmptyQueue ==
    /\ <<>> \in Seq(Entry) /\ Separate(<<>>) /\ Carried(<<>>) = {} /\ Tried(<<>>)
    /\ Len(Payloads(<<>>)) = 0
<1>1. <<>> \in Seq(Entry) /\ Separate(<<>>) /\ Carried(<<>>) = {} /\ Tried(<<>>)
  BY EmptyOnce DEF Separate, Carried, Tried, Range
<1>2. ItemsOf(<<>>) = <<>> /\ Len(<<>>) = 0
  BY DEF ItemsOf
<1>3. Payloads(<<>>) = FlattenSeq(ItemsOf(<<>>))
  BY <1>1, ItemsOfTyped
<1>4. FlattenSeq(<<>>) = <<>>
  BY <1>2 DEF FlattenSeq
<1> QED
  BY <1>1, <1>2, <1>3, <1>4

LEMMA ShorterQueue ==
    ASSUME NEW q \in Seq(Entry), NEW r \in Seq(Entry), Separate(q), Separate(r),
           Carried(r) \subseteq Carried(q)
    PROVE  Len(Payloads(r)) <= Len(Payloads(q))
<1>1. /\ Payloads(q) \in Seq(Item) /\ IsInjective(Payloads(q))
      /\ Range(Payloads(q)) = Carried(q)
  BY PayloadsOnce
<1>2. /\ Payloads(r) \in Seq(Item) /\ IsInjective(Payloads(r))
      /\ Range(Payloads(r)) = Carried(r)
  BY PayloadsOnce
<1> QED
  BY <1>1, <1>2, OnceShorter

LEMMA AppendQueue ==
    ASSUME NEW q \in Seq(Entry), NEW e \in Entry
    PROVE  LET r == Append(q, e) IN
           /\ r \in Seq(Entry)
           /\ Carried(r) = Carried(q) \cup Range(e.items)
           /\ (/\ Separate(q) /\ IsInjective(e.items)
               /\ Carried(q) \cap Range(e.items) = {}) => Separate(r)
           /\ (Tried(q) /\ e.attempts > 0) => Tried(r)
           /\ Len(Payloads(r)) = Len(Payloads(q)) + Len(e.items)
<1> DEFINE r == Append(q, e)
           n == Len(q)
<1>1. n \in Nat /\ DOMAIN q = 1..n
  BY LenProperties
<1>2. /\ r \in Seq(Entry) /\ Len(r) = n + 1
      /\ \A i \in 1..n : r[i] = q[i]
      /\ r[n + 1] = e
  BY AppendProperties
<1>3. DOMAIN r = 1..(n + 1) /\ 1..(n + 1) = (1..n) \cup {n + 1}
  BY <1>1, <1>2, LenProperties
<1>4. Append(ItemsOf(q), e.items) = ItemsOf(r)
  <2>1. /\ ItemsOf(q) \in Seq(Seq(Item)) /\ Len(ItemsOf(q)) = n
        /\ \A i \in DOMAIN q : ItemsOf(q)[i] = q[i].items
    BY ItemsOfTyped
  <2>2. e.items \in Seq(Item)
    BY DEF Entry
  <2> DEFINE longer == Append(ItemsOf(q), e.items)
  <2>3. /\ longer \in Seq(Seq(Item)) /\ Len(longer) = n + 1
        /\ \A i \in 1..n : longer[i] = ItemsOf(q)[i]
        /\ longer[n + 1] = e.items
    BY <2>1, <2>2, AppendProperties
  <2>4. /\ ItemsOf(r) \in Seq(Seq(Item)) /\ Len(ItemsOf(r)) = n + 1
        /\ \A i \in DOMAIN r : ItemsOf(r)[i] = r[i].items
    BY <1>2, ItemsOfTyped
  <2> HIDE DEF longer, r, n
  <2>5. \A i \in 1..(n + 1) : longer[i] = ItemsOf(r)[i]
    <3> SUFFICES ASSUME NEW i \in 1..(n + 1) PROVE longer[i] = ItemsOf(r)[i]
      OBVIOUS
    <3>1. ItemsOf(r)[i] = r[i].items
      BY <1>3, <2>4
    <3>2. CASE i = n + 1
      BY <1>2, <2>3, <3>1, <3>2
    <3>3. CASE i \in 1..n
      BY <1>1, <1>2, <2>1, <2>3, <3>1, <3>3
    <3> QED
      BY <1>3, <3>2, <3>3
  <2> QED
    BY <2>3, <2>4, <2>5, SeqEqual DEF longer
<1> HIDE DEF r, n
<1>5. Carried(r) = Carried(q) \cup Range(e.items)
  BY <1>1, <1>2, <1>3 DEF Carried
<1>6. ASSUME Separate(q), IsInjective(e.items), Carried(q) \cap Range(e.items) = {}
      PROVE  Separate(r)
  <2> SUFFICES ASSUME NEW i \in DOMAIN r
               PROVE  /\ IsInjective(r[i].items)
                      /\ \A j \in DOMAIN r : i # j =>
                           Range(r[i].items) \cap Range(r[j].items) = {}
    BY DEF Separate
  <2>1. \A k \in 1..n : /\ Range(q[k].items) \subseteq Carried(q)
                        /\ IsInjective(q[k].items)
                        /\ \A j \in 1..n : k # j =>
                             Range(q[k].items) \cap Range(q[j].items) = {}
    BY <1>1, <1>6 DEF Carried, Separate
  <2>2. CASE i = n + 1
    BY <1>2, <1>3, <1>6, <2>1, <2>2
  <2>3. CASE i \in 1..n
    <3>1. IsInjective(r[i].items)
      BY <1>2, <2>1, <2>3
    <3>2. ASSUME NEW j \in DOMAIN r, i # j
          PROVE  Range(r[i].items) \cap Range(r[j].items) = {}
      <4>1. CASE j = n + 1
        BY <1>2, <1>6, <2>1, <2>3, <4>1
      <4>2. CASE j \in 1..n
        BY <1>2, <2>1, <2>3, <3>2, <4>2
      <4> QED
        BY <1>3, <3>2, <4>1, <4>2
    <3> QED
      BY <3>1, <3>2
  <2> QED
    BY <1>3, <2>2, <2>3
<1>7. (Tried(q) /\ e.attempts > 0) => Tried(r)
  <2>1. Range(r) = Range(q) \cup {e}
    BY AppendOnce DEF r
  <2> QED
    BY <2>1 DEF Tried
<1>8. Len(Payloads(r)) = Len(Payloads(q)) + Len(e.items)
  <2>1. /\ ItemsOf(q) \in Seq(Seq(Item)) /\ e.items \in Seq(Item)
        /\ Payloads(q) = FlattenSeq(ItemsOf(q))
    BY ItemsOfTyped DEF Entry
  <2>2. Payloads(r) = FlattenSeq(ItemsOf(r))
    BY <1>2, ItemsOfTyped
  <2>3. Payloads(r) = Payloads(q) \o e.items
    BY <1>4, <2>1, <2>2, FlattenAppend
  <2>4. Payloads(q) \in Seq(Item)
    BY PayloadsOnce
  <2> QED
    BY <2>1, <2>3, <2>4, ConcatProperties
<1>9. r \in Seq(Entry)
  BY <1>2
<1> QED
  BY <1>5, <1>6, <1>7, <1>8, <1>9 DEF r

\* A part of a queue: entries drawn from it, no two from one place.
Drawn(q, r, at) ==
    /\ at \in [DOMAIN r -> DOMAIN q]
    /\ \A k, l \in DOMAIN r : at[k] = at[l] => k = l
    /\ \A k \in DOMAIN r : r[k] = q[at[k]]

From(q, places) == UNION {Range(q[i].items) : i \in places}

LEMMA DrawnQueue ==
    ASSUME NEW q \in Seq(Entry), NEW r \in Seq(Entry), NEW at, Drawn(q, r, at)
    PROVE  /\ Separate(q) => Separate(r)
           /\ Tried(q) => Tried(r)
           /\ Carried(r) = From(q, Range(at))
<1>1. ASSUME Separate(q) PROVE Separate(r)
  <2> SUFFICES ASSUME NEW k \in DOMAIN r
               PROVE  /\ IsInjective(r[k].items)
                      /\ \A l \in DOMAIN r : k # l =>
                           Range(r[k].items) \cap Range(r[l].items) = {}
    BY DEF Separate
  <2>1. \A l \in DOMAIN r : at[l] \in DOMAIN q /\ r[l] = q[at[l]]
    BY DEF Drawn
  <2>2. IsInjective(r[k].items)
    BY <1>1, <2>1 DEF Separate
  <2>3. ASSUME NEW l \in DOMAIN r, k # l
        PROVE  Range(r[k].items) \cap Range(r[l].items) = {}
    <3>1. at[k] # at[l]
      BY <2>3 DEF Drawn
    <3> QED
      BY <1>1, <2>1, <3>1 DEF Separate
  <2> QED
    BY <2>2, <2>3
<1>2. ASSUME Tried(q) PROVE Tried(r)
  BY <1>2 DEF Tried, Drawn, Range
<1>3. Carried(r) = From(q, Range(at))
  <2>1. /\ \A k \in DOMAIN r : at[k] \in Range(at) /\ r[k] = q[at[k]]
        /\ \A i \in Range(at) : \E k \in DOMAIN r : i = at[k]
    BY DEF Drawn, Range
  <2>2. ASSUME NEW x \in Carried(r) PROVE x \in From(q, Range(at))
    BY <2>1, <2>2 DEF Carried, From
  <2>3. ASSUME NEW x \in From(q, Range(at)) PROVE x \in Carried(r)
    <3>1. PICK i \in Range(at) : x \in Range(q[i].items)
      BY <2>3 DEF From
    <3>2. PICK k \in DOMAIN r : i = at[k]
      BY <2>1
    <3> QED
      BY <2>1, <3>1, <3>2 DEF Carried
  <2> QED
    BY <2>2, <2>3
<1> QED
  BY <1>1, <1>2, <1>3

LEMMA FromParts ==
    ASSUME NEW q \in Seq(Entry), Separate(q), NEW A, NEW B, A \cup B = DOMAIN q,
           A \cap B = {}
    PROVE  /\ Carried(q) = From(q, A) \cup From(q, B)
           /\ From(q, A) \cap From(q, B) = {}
<1>1. Carried(q) = From(q, A) \cup From(q, B)
  BY DEF Carried, From
<1>2. From(q, A) \cap From(q, B) = {}
  <2> SUFFICES ASSUME NEW i \in A, NEW j \in B
               PROVE  Range(q[i].items) \cap Range(q[j].items) = {}
    BY DEF From
  <2> QED
    BY DEF Separate
<1> QED
  BY <1>1, <1>2

\* A filter divides a queue in two.
LEMMA FilteredQueue ==
    ASSUME NEW q \in Seq(Entry), Separate(q), Tried(q), NEW keep \in SUBSET DOMAIN q
    PROVE  LET r == Picked(q, keep)
               s == Picked(q, DOMAIN q \ keep) IN
           /\ r \in Seq(Entry) /\ Separate(r) /\ Tried(r)
           /\ s \in Seq(Entry) /\ Separate(s) /\ Tried(s)
           /\ Carried(q) = Carried(r) \cup Carried(s)
           /\ Carried(r) \cap Carried(s) = {}
<1>1. ASSUME NEW some \in SUBSET DOMAIN q
      PROVE  /\ Picked(q, some) \in Seq(Entry)
             /\ Separate(Picked(q, some)) /\ Tried(Picked(q, some))
             /\ Carried(Picked(q, some)) = From(q, some)
  <2> DEFINE r == Picked(q, some)
  <2>1. /\ r \in Seq(Entry) /\ Len(r) = Cardinality(some) /\ Cardinality(some) \in Nat
        /\ \A k \in 1..Len(r) : \E i \in some : Rank(some, i) = k /\ r[k] = q[i]
        /\ \A i \in some : /\ Rank(some, i) \in 1..Len(r)
                           /\ r[Rank(some, i)] = q[i]
        /\ \A i, j \in some : i < j => Rank(some, i) < Rank(some, j)
    BY PickedElements
  <2>2. DOMAIN r = 1..Len(r)
    BY <2>1, LenProperties
  <2> DEFINE at == [k \in DOMAIN r |-> CHOOSE i \in some : Rank(some, i) = k /\ r[k] = q[i]]
  <2> HIDE DEF r
  <2>3. ASSUME NEW k \in DOMAIN r
        PROVE  at[k] \in some /\ Rank(some, at[k]) = k /\ r[k] = q[at[k]]
    <3>1. \E i \in some : Rank(some, i) = k /\ r[k] = q[i]
      BY <2>1, <2>2
    <3> QED
      BY <3>1
  <2>4. Range(at) = some
    <3>1. ASSUME NEW i \in some PROVE \E k \in DOMAIN r : i = at[k]
      <4>1. Rank(some, i) \in DOMAIN r
        BY <2>1, <2>2
      <4> DEFINE j == at[Rank(some, i)]
      <4>2. j \in some /\ Rank(some, j) = Rank(some, i)
        BY <2>3, <4>1
      <4>3. some \subseteq 1..Len(q) /\ Len(q) \in Nat
        BY LenProperties
      <4> HIDE DEF j
      <4>4. j = i
        <5>1. i \in Nat /\ j \in Nat /\ Rank(some, i) \in Nat
          BY <2>1, <4>2, <4>3
        <5>2. ~(i < j) /\ ~(j < i)
          BY <2>1, <4>2, <5>1
        <5> QED
          BY <5>1, <5>2
      <4> QED
        BY <4>1, <4>4 DEF j
    <3>2. DOMAIN at = DOMAIN r
      OBVIOUS
    <3> HIDE DEF at
    <3> QED
      BY <2>3, <3>1, <3>2 DEF Range
  <2>5. Drawn(q, r, at)
    <3>1. at \in [DOMAIN r -> DOMAIN q]
      BY <2>3
    <3> HIDE DEF at
    <3> QED
      BY <2>3, <3>1 DEF Drawn
  <2> HIDE DEF at
  <2>6. /\ Separate(q) => Separate(r)
        /\ Tried(q) => Tried(r)
        /\ Carried(r) = From(q, Range(at))
    BY <2>1, <2>5, DrawnQueue
  <2> QED
    BY <2>1, <2>4, <2>6 DEF r
<1>2. (DOMAIN q \ keep) \in SUBSET DOMAIN q /\ keep \cup (DOMAIN q \ keep) = DOMAIN q
      /\ keep \cap (DOMAIN q \ keep) = {}
  OBVIOUS
<1>3. /\ Carried(q) = From(q, keep) \cup From(q, DOMAIN q \ keep)
      /\ From(q, keep) \cap From(q, DOMAIN q \ keep) = {}
  BY <1>2, FromParts
<1> QED
  BY <1>1, <1>2, <1>3

\* A queue cut in two.
LEMMA CutQueue ==
    ASSUME NEW q \in Seq(Entry), Separate(q), Tried(q), NEW n \in 0..Len(q)
    PROVE  LET r == SubSeq(q, 1, n)
               s == SubSeq(q, n + 1, Len(q)) IN
           /\ r \in Seq(Entry) /\ Separate(r) /\ Tried(r) /\ Carried(r) = From(q, 1..n)
           /\ s \in Seq(Entry) /\ Separate(s) /\ Tried(s)
           /\ Carried(q) = Carried(r) \cup Carried(s)
           /\ Carried(r) \cap Carried(s) = {}
<1>1. Len(q) \in Nat /\ DOMAIN q = 1..Len(q) /\ n \in Nat /\ n <= Len(q)
  BY LenProperties
<1>2. ASSUME NEW a \in 1..(Len(q) + 1), NEW b \in 0..Len(q), a <= b + 1
      PROVE  /\ SubSeq(q, a, b) \in Seq(Entry)
             /\ Separate(SubSeq(q, a, b)) /\ Tried(SubSeq(q, a, b))
             /\ Carried(SubSeq(q, a, b)) = From(q, a..b)
  <2> DEFINE r == SubSeq(q, a, b)
             at == [k \in 1..(b - a + 1) |-> a + k - 1]
  <2>1. a \in Int /\ b \in Int /\ a >= 1 /\ b <= Len(q)
    BY <1>1
  <2>2. \A i \in a..b : q[i] \in Entry
    BY <1>1, <2>1, ElementOfSeq
  <2>3. /\ r \in Seq(Entry) /\ Len(r) = (IF a <= b THEN b - a + 1 ELSE 0)
        /\ \A i \in 1..(b - a + 1) : r[i] = q[a + i - 1]
    BY <2>1, <2>2, SubSeqProperties
  <2>4. DOMAIN r = 1..(b - a + 1)
    <3>1. Len(r) = b - a + 1
      BY <1>2, <2>1, <2>3
    <3> QED
      BY <2>3, <3>1, LenProperties
  <2>5. Range(at) = a..b
    <3>1. ASSUME NEW i \in a..b PROVE i - a + 1 \in 1..(b - a + 1) /\ a + (i - a + 1) - 1 = i
      BY <2>1
    <3>2. ASSUME NEW k \in 1..(b - a + 1) PROVE a + k - 1 \in a..b
      BY <2>1
    <3> QED
      BY <2>4, <3>1, <3>2 DEF Range
  <2>6. Drawn(q, r, at)
    <3>1. \A k \in 1..(b - a + 1) : a + k - 1 \in DOMAIN q
      BY <1>1, <2>1
    <3>2. \A k, l \in 1..(b - a + 1) : a + k - 1 = a + l - 1 => k = l
      BY <2>1
    <3> HIDE DEF r
    <3> QED
      BY <2>3, <2>4, <3>1, <3>2 DEF Drawn
  <2> HIDE DEF r, at
  <2>7. /\ Separate(q) => Separate(r)
        /\ Tried(q) => Tried(r)
        /\ Carried(r) = From(q, Range(at))
    BY <2>3, <2>6, DrawnQueue
  <2> QED
    BY <2>3, <2>5, <2>7 DEF r
<1>3. /\ SubSeq(q, 1, n) \in Seq(Entry)
      /\ Separate(SubSeq(q, 1, n)) /\ Tried(SubSeq(q, 1, n))
      /\ Carried(SubSeq(q, 1, n)) = From(q, 1..n)
  <2>1. 1 \in 1..(Len(q) + 1) /\ n \in 0..Len(q) /\ 1 <= n + 1
    BY <1>1
  <2> QED
    BY <1>2, <2>1
<1>4. /\ SubSeq(q, n + 1, Len(q)) \in Seq(Entry)
      /\ Separate(SubSeq(q, n + 1, Len(q))) /\ Tried(SubSeq(q, n + 1, Len(q)))
      /\ Carried(SubSeq(q, n + 1, Len(q))) = From(q, (n + 1)..Len(q))
  <2>1. n + 1 \in 1..(Len(q) + 1) /\ Len(q) \in 0..Len(q) /\ n + 1 <= Len(q) + 1
    BY <1>1
  <2> QED
    BY <1>2, <2>1
<1>5. (1..n) \cup ((n + 1)..Len(q)) = DOMAIN q /\ (1..n) \cap ((n + 1)..Len(q)) = {}
  BY <1>1
<1>6. /\ Carried(q) = From(q, 1..n) \cup From(q, (n + 1)..Len(q))
      /\ From(q, 1..n) \cap From(q, (n + 1)..Len(q)) = {}
  BY <1>5, FromParts
<1> QED
  BY <1>3, <1>4, <1>6

\* The first entry of a queue, and the rest.
LEMMA FirstAndRest ==
    ASSUME NEW q \in Seq(Entry), Separate(q), Tried(q), q # <<>>
    PROVE  LET s == SubSeq(q, 2, Len(q)) IN
           /\ s \in Seq(Entry) /\ Separate(s) /\ Tried(s)
           /\ q[1].items \in Seq(Item) /\ IsInjective(q[1].items)
           /\ q[1].attempts \in Nat /\ q[1].attempts > 0
           /\ Carried(q) = Range(q[1].items) \cup Carried(s)
           /\ Range(q[1].items) \cap Carried(s) = {}
<1>1. Len(q) \in Nat /\ Len(q) # 0 /\ DOMAIN q = 1..Len(q)
  BY LenProperties, EmptySeq
<1>2. 1 \in 0..Len(q) /\ 1 \in DOMAIN q /\ 1 + 1 = 2
  BY <1>1
<1>3. LET s == SubSeq(q, 1 + 1, Len(q)) IN
      /\ Carried(SubSeq(q, 1, 1)) = From(q, 1..1)
      /\ s \in Seq(Entry) /\ Separate(s) /\ Tried(s)
      /\ Carried(q) = Carried(SubSeq(q, 1, 1)) \cup Carried(s)
      /\ Carried(SubSeq(q, 1, 1)) \cap Carried(s) = {}
  BY <1>2, CutQueue
<1>4. From(q, 1..1) = Range(q[1].items)
  <2>1. 1..1 = {1}
    OBVIOUS
  <2> QED
    BY <2>1 DEF From
<1>5. /\ q[1].items \in Seq(Item) /\ q[1].attempts \in Nat
      /\ IsInjective(q[1].items) /\ q[1].attempts > 0
  BY <1>2, ItemsOfTyped DEF Separate, Tried, Range
<1> QED
  BY <1>2, <1>3, <1>4, <1>5

-----------------------------------------------------------------------------
(* Outcomes *)

\* What has an outcome in f.
Gone(f) == UNION {f[o] : o \in Outcomes}

\* More items with one outcome.
LEMMA DecidedOnce ==
    ASSUME NEW f \in [Outcomes -> SUBSET Item], OutcomesApart(f), NEW o \in Outcomes,
           NEW S \in SUBSET Item, S \cap Gone(f) = {}
    PROVE  LET g == [f EXCEPT ![o] = @ \cup S] IN
           /\ g \in [Outcomes -> SUBSET Item] /\ OutcomesApart(g)
           /\ Gone(g) = Gone(f) \cup S
           /\ g[o] = f[o] \cup S
           /\ \A p \in Outcomes : f[p] \subseteq g[p] /\ (p # o => g[p] = f[p])
<1> DEFINE g == [f EXCEPT ![o] = @ \cup S]
<1>1. /\ g[o] = f[o] \cup S
      /\ \A p \in Outcomes : p # o => g[p] = f[p]
  OBVIOUS
<1>2. g \in [Outcomes -> SUBSET Item]
  OBVIOUS
<1> HIDE DEF g
<1>3. \A p \in Outcomes : f[p] \subseteq g[p] /\ f[p] \subseteq Gone(f)
  BY <1>1 DEF Gone
<1>4. Gone(g) = Gone(f) \cup S
  <2>1. ASSUME NEW x \in Gone(g) PROVE x \in Gone(f) \cup S
    <3>1. PICK p \in Outcomes : x \in g[p]
      BY <2>1 DEF Gone
    <3> QED
      BY <1>1, <1>3, <3>1
  <2>2. ASSUME NEW x \in Gone(f) \cup S PROVE \E p \in Outcomes : x \in g[p]
    <3>1. CASE x \in S
      BY <1>1, <3>1
    <3>2. CASE x \in Gone(f)
      BY <1>3, <3>2 DEF Gone
    <3> QED
      BY <3>1, <3>2
  <2> QED
    BY <2>1, <2>2 DEF Gone
<1>5. OutcomesApart(g)
  <2> SUFFICES ASSUME NEW p \in Outcomes, NEW r \in Outcomes, p # r
               PROVE  g[p] \cap g[r] = {}
    BY DEF OutcomesApart
  <2>1. f[p] \cap f[r] = {}
    BY DEF OutcomesApart
  <2>2. CASE p = o
    BY <1>1, <1>3, <2>1, <2>2
  <2>3. CASE r = o
    BY <1>1, <1>3, <2>1, <2>3
  <2>4. CASE p # o /\ r # o
    BY <1>1, <2>1, <2>4
  <2> QED
    BY <2>2, <2>3, <2>4
<1> QED
  BY <1>1, <1>2, <1>3, <1>4, <1>5 DEF g

-----------------------------------------------------------------------------
(* A flush on its way *)

LEMMA NothingSent ==
    /\ Nothing \in Batch /\ IsInjective(Nothing.items) /\ Range(Nothing.items) = {}
    /\ Nothing.attempts = 0
<1>1. Nothing.items = <<>> /\ Nothing.attempts = 0
  BY DEF Nothing
<1>2. Nothing \in Batch
  BY EmptyOnce DEF Nothing, Batch
<1> QED
  BY <1>1, <1>2, EmptyOnce

LEMMA BatchTyped ==
    ASSUME NEW b \in Batch
    PROVE  b.items \in Seq(Item) /\ b.attempts \in Nat
BY DEF Batch

LEMMA QueueFits ==
    ASSUME SendTyped, SendApart, NEW r \in Seq(Entry), Separate(r),
           Carried(r) \subseteq Carried(retryQueue)
    PROVE  Len(Payloads(r)) <= MaxRetryBuffer
<1>1. Len(Payloads(r)) <= Len(Payloads(retryQueue))
  BY ShorterQueue DEF SendTyped, SendApart
<1>2. Len(Payloads(r)) \in Nat /\ Len(Payloads(retryQueue)) \in Nat
  BY PayloadsOnce DEF SendTyped
<1>3. MaxRetryBuffer \in Nat
  BY TransportTapAssumption
<1> QED
  BY <1>1, <1>2, <1>3 DEF SendTyped

\* A flush takes from the retry queue what is due, and sends the first of it.
LEMMA BeginKeeps ==
    ASSUME Sending, flushing = "idle", Begin
    PROVE  Sending' /\ OnItsWay' = OnItsWay /\ flushing' \in {"between", "posted"}
<1> DEFINE q == retryQueue
           r == Picked(q, Due)
           s == Picked(q, DOMAIN q \ Due)
           rest == SubSeq(r, 2, Len(r))
<1>1. /\ current = Nothing /\ eligible = <<>> /\ Tried(q)
      /\ q \in Seq(Entry) /\ Separate(q)
  BY DEF Sending, SendTyped, SendApart, FlushShape
<1>2. Due \in SUBSET DOMAIN q
  BY DEF Due
<1>3. /\ retryQueue' = s /\ eligible' = rest
      /\ current' = IF r = <<>> THEN Nothing
                    ELSE [items |-> r[1].items, attempts |-> r[1].attempts]
      /\ flushing' = IF r = <<>> THEN "between" ELSE "posted"
  BY DEF Begin
<1>4. /\ r \in Seq(Entry) /\ Separate(r) /\ Tried(r)
      /\ s \in Seq(Entry) /\ Separate(s) /\ Tried(s)
      /\ Carried(q) = Carried(r) \cup Carried(s)
      /\ Carried(r) \cap Carried(s) = {}
  BY <1>1, <1>2, FilteredQueue
<1> HIDE DEF q, r, s
<1>5. Len(Payloads(s)) <= MaxRetryBuffer
  BY <1>4, QueueFits DEF Sending, q
<1>6. OnItsWay = Carried(q)
  BY <1>1, EmptyQueue, NothingSent DEF OnItsWay, q
<1>7. CASE r = <<>>
  <2>1. rest = <<>>
    <3>1. Len(r) = 0
      BY <1>7
    <3> QED
      BY <3>1, SubSeqEmpty
  <2>2. current' = Nothing /\ flushing' = "between" /\ eligible' = <<>>
    BY <1>3, <1>7, <2>1
  <2>3. Carried(r) = {}
    BY <1>7, EmptyQueue
  <2>4. SendTyped'
    BY <1>3, <1>4, <1>5, <2>2, EmptyQueue, NothingSent DEF SendTyped, Stages
  <2>5. SendApart'
    BY <1>3, <1>4, <2>2, EmptyQueue, NothingSent DEF SendApart
  <2>6. FlushShape'
    BY <1>3, <1>4, <2>2, EmptyQueue DEF FlushShape
  <2>7. OnItsWay' = Carried(s)
    BY <1>3, <2>2, EmptyQueue, NothingSent DEF OnItsWay
  <2> QED
    BY <1>4, <1>6, <2>2, <2>3, <2>4, <2>5, <2>6, <2>7 DEF Sending
<1>8. CASE r # <<>>
  <2>1. /\ rest \in Seq(Entry) /\ Separate(rest) /\ Tried(rest)
        /\ r[1].items \in Seq(Item) /\ IsInjective(r[1].items)
        /\ r[1].attempts \in Nat /\ r[1].attempts > 0
        /\ Carried(r) = Range(r[1].items) \cup Carried(rest)
        /\ Range(r[1].items) \cap Carried(rest) = {}
    BY <1>4, <1>8, FirstAndRest
  <2> HIDE DEF rest
  <2>2. /\ current' = [items |-> r[1].items, attempts |-> r[1].attempts]
        /\ flushing' = "posted"
    BY <1>3, <1>8
  <2>3. /\ current'.items = r[1].items /\ current'.attempts = r[1].attempts
        /\ current' \in Batch
    BY <2>1, <2>2 DEF Batch
  <2>4. SendTyped'
    BY <1>3, <1>4, <1>5, <2>1, <2>2, <2>3 DEF SendTyped, Stages
  <2>5. SendApart'
    BY <1>3, <1>4, <2>1, <2>3 DEF SendApart
  <2>6. FlushShape'
    BY <1>3, <1>4, <2>1, <2>2, <2>3 DEF FlushShape
  <2>7. OnItsWay' = Carried(q)
    BY <1>3, <1>4, <2>1, <2>3 DEF OnItsWay
  <2> QED
    BY <1>6, <2>2, <2>4, <2>5, <2>6, <2>7 DEF Sending
<1> QED
  BY <1>7, <1>8

LEMMA StartFlushKeeps ==
    ASSUME Sending, StartFlush
    PROVE  /\ Sending' /\ OnItsWay' = OnItsWay
           /\ flushing' = "reading" => flushing = "reading" /\ current' = current
<1>1. CASE flushing = "idle"
  BY <1>1, BeginKeeps DEF StartFlush
<1>2. CASE flushing # "idle"
  <2>1. UNCHANGED sending
    BY <1>2 DEF StartFlush
  <2>2. UNCHANGED <<flushing, current, eligible, retryQueue>>
    BY <2>1 DEF sending
  <2> QED
    BY <2>2 DEF Sending, SendTyped, SendApart, FlushShape, OnItsWay
<1> QED
  BY <1>1, <1>2

\* The next batch that is left to retry.
LEMMA PostRetryKeeps ==
    ASSUME Sending, PostRetry
    PROVE  Sending' /\ OnItsWay' = OnItsWay /\ flushing' = "posted"
<1> DEFINE q == eligible
           rest == SubSeq(q, 2, Len(q))
<1>1. /\ flushing = "between" /\ q # <<>> /\ retryQueue' = retryQueue
      /\ current' = [items |-> q[1].items, attempts |-> q[1].attempts]
      /\ eligible' = Tail(q) /\ flushing' = "posted"
  BY DEF PostRetry
<1>2. current = Nothing /\ Tried(q) /\ q \in Seq(Entry) /\ Separate(q)
  BY <1>1 DEF Sending, SendTyped, SendApart, FlushShape
<1>3. eligible' = rest
  BY <1>1, <1>2, TailIsSubSeq
<1>4. /\ rest \in Seq(Entry) /\ Separate(rest) /\ Tried(rest)
      /\ q[1].items \in Seq(Item) /\ IsInjective(q[1].items)
      /\ q[1].attempts \in Nat /\ q[1].attempts > 0
      /\ Carried(q) = Range(q[1].items) \cup Carried(rest)
      /\ Range(q[1].items) \cap Carried(rest) = {}
  BY <1>1, <1>2, FirstAndRest
<1> HIDE DEF rest
<1>5. /\ current'.items = q[1].items /\ current'.attempts = q[1].attempts
      /\ current' \in Batch
  BY <1>1, <1>4 DEF Batch
<1>6. SendTyped'
  BY <1>1, <1>3, <1>4, <1>5 DEF Sending, SendTyped, Stages
<1>7. SendApart'
  BY <1>1, <1>3, <1>4, <1>5 DEF Sending, SendApart
<1>8. FlushShape'
  <2>1. Tried(retryQueue)
    BY DEF Sending, FlushShape
  <2>2. /\ flushing' = "posted" /\ current'.attempts > 0 /\ current'.attempts \in Nat
        /\ Tried(eligible') /\ Tried(retryQueue')
    BY <1>1, <1>3, <1>4, <1>5, <2>1
  <2> QED
    BY <2>2 DEF FlushShape
<1>9. OnItsWay' = OnItsWay
  BY <1>1, <1>2, <1>3, <1>4, <1>5, NothingSent DEF OnItsWay
<1> QED
  BY <1>1, <1>6, <1>7, <1>8, <1>9 DEF Sending

\* A flush that ends, or goes on to its next request, with some of its batch and
\* of the queue back in the queue.
LEMMA Concluded ==
    ASSUME Sending, flushing \in {"posted", "reading"}, Conclude, eligible' = eligible,
           retryQueue' \in Seq(Entry), Separate(retryQueue'), Tried(retryQueue'),
           Len(Payloads(retryQueue')) <= MaxRetryBuffer,
           Carried(retryQueue') \subseteq Range(current.items) \cup Carried(retryQueue)
    PROVE  /\ Sending' /\ OnItsWay' = Carried(eligible) \cup Carried(retryQueue')
           /\ flushing' \in {"idle", "between"}
<1>1. current' = Nothing
  BY DEF Conclude
<1>2. flushing' = IF current.attempts = 0 THEN "idle" ELSE "between"
  BY DEF Conclude, EndFlush
<1>3. current.attempts = 0 => eligible = <<>>
  BY DEF Sending, FlushShape
<1>4. SendTyped'
  BY <1>1, <1>2, NothingSent DEF Sending, SendTyped, Stages
<1>5. SendApart'
  BY <1>1, NothingSent DEF Sending, SendApart
<1>6. FlushShape'
  BY <1>1, <1>2, <1>3 DEF Sending, FlushShape
<1>7. OnItsWay' = Carried(eligible) \cup Carried(retryQueue')
  BY <1>1, NothingSent DEF OnItsWay
<1> QED
  BY <1>2, <1>4, <1>5, <1>6, <1>7 DEF Sending

\* What a failed attempt makes of the queue and the outcomes, when gone is what gets
\* one: the batch itself, or the oldest entries.
GoesBack(told, gone) ==
    /\ retryQueue' \in Seq(Entry) /\ Separate(retryQueue') /\ Tried(retryQueue')
    /\ Len(Payloads(retryQueue')) <= MaxRetryBuffer
    /\ gone \subseteq Range(current.items) \cup Carried(retryQueue)
    /\ Carried(retryQueue') = (Range(current.items) \cup Carried(retryQueue)) \ gone
    /\ outcome' \in [Outcomes -> SUBSET Item] /\ OutcomesApart(outcome')
    /\ Gone(outcome') = Gone(outcome) \cup gone
    /\ \A p \in Outcomes : outcome[p] \subseteq outcome'[p]
    /\ outcome'["delivered"] = outcome["delivered"]
    /\ erred' \subseteq erred \cup told \cup outcome'["exhausted"]
    /\ erred' \subseteq erred \cup told \cup Range(current.items)

\* Receipts are of what is in the batch.
LEMMA ReceiptsOfBatch ==
    ASSUME NEW b \in Batch
    PROVE  /\ ReceiptsOf(b) \in Seq(Item)
           /\ Range(ReceiptsOf(b)) \subseteq Range(b.items)
<1>1. b.items \in Seq(Item)
  BY BatchTyped
<1>2. CASE b.attempts > 0
  BY <1>1, <1>2 DEF ReceiptsOf
<1>3. CASE ~(b.attempts > 0)
  <2> DEFINE keep == {i \in DOMAIN b.items : ~b.items[i].summary}
  <2>1. ReceiptsOf(b) = Picked(b.items, keep)
    BY <1>3 DEF ReceiptsOf
  <2>2. keep \subseteq DOMAIN b.items
    OBVIOUS
  <2> HIDE DEF keep
  <2>3. /\ Picked(b.items, keep) \in Seq(Item)
        /\ Range(Picked(b.items, keep)) \subseteq Range(b.items)
    BY <1>1, <2>2, PickedRange
  <2> QED
    BY <2>1, <2>3
<1> QED
  BY <1>2, <1>3

LEMMA RetryLaterGoes ==
    ASSUME Sending, PlacesApart, NEW told, RetryLater(told)
    PROVE  \E gone : GoesBack(told, gone)
<1> DEFINE q == retryQueue
           carried == Range(current.items)
<1>1. /\ q \in Seq(Entry) /\ Separate(q) /\ Tried(q) /\ current \in Batch
      /\ Len(Payloads(q)) <= MaxRetryBuffer
      /\ IsInjective(current.items) /\ carried \cap Carried(q) = {}
  BY DEF Sending, SendTyped, SendApart, FlushShape
<1>2. /\ current.items \in Seq(Item) /\ current.attempts \in Nat
      /\ Len(current.items) \in Nat
  BY <1>1, BatchTyped, LenProperties
<1>3. carried \subseteq Item /\ Carried(q) \subseteq Item
  <2>1. carried \subseteq Item
    BY <1>2, RangeOfSeqTyped
  <2>2. Payloads(q) \in Seq(Item) /\ Range(Payloads(q)) = Carried(q)
    BY <1>1, PayloadsOnce
  <2> QED
    BY <2>1, <2>2, RangeOfSeqTyped
<1>4. /\ outcome \in [Outcomes -> SUBSET Item] /\ OutcomesApart(outcome)
      /\ (carried \cup Carried(q)) \cap Gone(outcome) = {}
  BY DEF PlacesApart, OnItsWay, Settled, Gone
<1>5. {"delivered", "exhausted", "evicted"} \subseteq Outcomes /\ "delivered" # "exhausted"
      /\ "delivered" # "evicted"
  BY DEF Outcomes
<1>6. CASE current.attempts + 1 >= MaxRetries
  <2>1. /\ erred' = erred \cup told \cup Range(ReceiptsOf(current))
        /\ outcome' = [outcome EXCEPT !["exhausted"] = @ \cup carried]
        /\ retryQueue' = q
    BY <1>6 DEF RetryLater, Settle
  <2>2. /\ outcome' \in [Outcomes -> SUBSET Item] /\ OutcomesApart(outcome')
        /\ Gone(outcome') = Gone(outcome) \cup carried
        /\ outcome'["exhausted"] = outcome["exhausted"] \cup carried
        /\ \A p \in Outcomes : /\ outcome[p] \subseteq outcome'[p]
                               /\ (p # "exhausted" => outcome'[p] = outcome[p])
    <3>1. carried \in SUBSET Item /\ carried \cap Gone(outcome) = {}
      BY <1>3, <1>4
    <3> HIDE DEF carried
    <3> QED
      BY <1>4, <1>5, <2>1, <3>1, DecidedOnce
  <2>3. Range(ReceiptsOf(current)) \subseteq carried
    BY <1>1, ReceiptsOfBatch
  <2>4. Carried(q) = (carried \cup Carried(q)) \ carried
    BY <1>1
  <2> HIDE DEF carried
  <2>5. GoesBack(told, carried)
    BY <1>1, <1>5, <2>1, <2>2, <2>3, <2>4 DEF GoesBack, carried
  <2> QED
    BY <2>5
<1>7. CASE ~(current.attempts + 1 >= MaxRetries)
  <2> DEFINE Rest(n) == SubSeq(q, n + 1, Len(q))
             fits == {n \in 0..Len(q) :
                        Len(current.items) + Len(Payloads(Rest(n))) <= MaxRetryBuffer}
             entry == [items |-> current.items, due |-> FALSE,
                       attempts |-> current.attempts + 1]
  <2>1. erred' = erred \cup told /\ MakeRoom(current)
    BY <1>7 DEF RetryLater
  <2>2. CASE fits = {}
    <3> DEFINE gone == Carried(q) \cup carried
    <3>1. /\ retryQueue' = <<>>
          /\ outcome' = [outcome EXCEPT !["evicted"] =
                           @ \cup (Range(Payloads(q)) \cup Range(current.items))]
      BY <2>1, <2>2 DEF MakeRoom, Settle
    <3>2. Range(Payloads(q)) = Carried(q)
      BY <1>1, PayloadsOnce
    <3>3. outcome' = [outcome EXCEPT !["evicted"] = @ \cup gone]
      BY <3>1, <3>2
    <3>4. gone \in SUBSET Item /\ gone \cap Gone(outcome) = {}
      BY <1>3, <1>4
    <3> HIDE DEF gone
    <3>5. /\ outcome' \in [Outcomes -> SUBSET Item] /\ OutcomesApart(outcome')
          /\ Gone(outcome') = Gone(outcome) \cup gone
          /\ \A p \in Outcomes : /\ outcome[p] \subseteq outcome'[p]
                                 /\ (p # "evicted" => outcome'[p] = outcome[p])
      BY <1>4, <1>5, <3>3, <3>4, DecidedOnce
    <3>6. MaxRetryBuffer \in Nat
      BY TransportTapAssumption
    <3>7. Len(Payloads(retryQueue')) <= MaxRetryBuffer
      BY <3>1, <3>6, EmptyQueue
    <3>8. /\ gone = carried \cup Carried(q)
          /\ Carried(retryQueue') = (carried \cup Carried(q)) \ gone
      BY <3>1, EmptyQueue DEF gone
    <3>9. GoesBack(told, gone)
      BY <1>5, <2>1, <3>1, <3>5, <3>7, <3>8, EmptyQueue DEF GoesBack
    <3> QED
      BY <3>9
  <2>3. CASE fits # {}
    <3>1. PICK n \in fits : n = Min(fits)
      <4>1. fits \subseteq Nat
        <5>1. Len(q) \in Nat /\ fits \subseteq 0..Len(q)
          BY <1>1, LenProperties
        <5> HIDE DEF fits, q
        <5> QED
          BY <5>1
      <4> HIDE DEF fits
      <4>2. \E x \in fits : \A y \in fits : x <= y
        BY <2>3, <4>1, LeastExists
      <4>3. Min(fits) \in fits
        BY <4>2 DEF Min
      <4> QED
        BY <4>3
    <3> DEFINE old == SubSeq(q, 1, n)
               rest == SubSeq(q, n + 1, Len(q))
    <3>2. /\ outcome' = [outcome EXCEPT !["evicted"] = @ \cup Range(Payloads(old))]
          /\ retryQueue' = Append(rest, entry)
      BY <2>1, <2>3, <3>1 DEF MakeRoom, Settle
    <3>3. /\ n \in 0..Len(q)
          /\ Len(current.items) + Len(Payloads(rest)) <= MaxRetryBuffer
      BY <3>1
    <3>4. /\ old \in Seq(Entry) /\ Separate(old) /\ Tried(old)
          /\ rest \in Seq(Entry) /\ Separate(rest) /\ Tried(rest)
          /\ Carried(q) = Carried(old) \cup Carried(rest)
          /\ Carried(old) \cap Carried(rest) = {}
      BY <1>1, <3>3, CutQueue
    <3> HIDE DEF old, rest, fits, q
    <3>5. /\ entry \in Entry /\ entry.items = current.items
          /\ entry.attempts > 0
      BY <1>2 DEF Entry
    <3> HIDE DEF entry
    <3>6. /\ Append(rest, entry) \in Seq(Entry)
          /\ Carried(Append(rest, entry)) = Carried(rest) \cup Range(entry.items)
          /\ (/\ Separate(rest) /\ IsInjective(entry.items)
              /\ Carried(rest) \cap Range(entry.items) = {}) => Separate(Append(rest, entry))
          /\ (Tried(rest) /\ entry.attempts > 0) => Tried(Append(rest, entry))
          /\ Len(Payloads(Append(rest, entry))) = Len(Payloads(rest)) + Len(entry.items)
      BY <3>4, <3>5, AppendQueue
    <3>7. /\ retryQueue' \in Seq(Entry) /\ Separate(retryQueue') /\ Tried(retryQueue')
          /\ Carried(retryQueue') = Carried(rest) \cup carried
      BY <1>1, <3>2, <3>4, <3>5, <3>6
    <3>8. Len(Payloads(retryQueue')) <= MaxRetryBuffer
      <4>1. Len(Payloads(rest)) \in Nat
        BY <3>4, PayloadsOnce
      <4> QED
        BY <1>2, <3>2, <3>3, <3>5, <3>6, <4>1
    <3>9. Range(Payloads(old)) = Carried(old)
      BY <3>4, PayloadsOnce
    <3>10. /\ outcome' = [outcome EXCEPT !["evicted"] = @ \cup Carried(old)]
           /\ Carried(old) \in SUBSET Item /\ Carried(old) \cap Gone(outcome) = {}
      BY <1>3, <1>4, <3>2, <3>4, <3>9
    <3>11. /\ outcome' \in [Outcomes -> SUBSET Item] /\ OutcomesApart(outcome')
           /\ Gone(outcome') = Gone(outcome) \cup Carried(old)
           /\ \A p \in Outcomes : /\ outcome[p] \subseteq outcome'[p]
                                  /\ (p # "evicted" => outcome'[p] = outcome[p])
      BY <1>4, <1>5, <3>10, DecidedOnce
    <3>12. /\ Carried(old) \subseteq carried \cup Carried(q)
           /\ Carried(retryQueue') = (carried \cup Carried(q)) \ Carried(old)
      BY <1>1, <3>4, <3>7
    <3>13. GoesBack(told, Carried(old))
      BY <1>5, <2>1, <3>7, <3>8, <3>11, <3>12 DEF GoesBack, q
    <3> QED
      BY <3>13
  <2> QED
    BY <2>2, <2>3
<1> QED
  BY <1>6, <1>7

-----------------------------------------------------------------------------
(* Steps of a flush *)

\* A step that neither takes a call nor makes a payload: what there is stays, and
\* may get an outcome.
GoesOn ==
    /\ link' \in Links
    /\ Sending' /\ PlacesApart' /\ ReceiptsFollow'
    /\ Everything' = Everything
    /\ Settled \subseteq Settled'

\* One in which nothing gets an outcome.
LEMMA MovesGoOn ==
    ASSUME TapInv, Sending', OnItsWay' = OnItsWay, link' \in Links,
           UNCHANGED <<buffer, receipts, outcome, stored>>,
           flushing' = "reading" => flushing = "reading" /\ current' = current
    PROVE  GoesOn
<1>1. UNCHANGED <<buffer, succeeded, erred, disturbed, outcome, stored>>
  BY DEF receipts
<1>2. Settled' = Settled
  BY <1>1 DEF Settled
<1>3. Everything' = Everything
  BY <1>1, <1>2 DEF Everything
<1>4. PlacesApart'
  BY <1>1, <1>2 DEF TapInv, PlacesApart
<1>5. ReceiptsFollow'
  BY <1>1, <1>3 DEF TapInv, ReceiptsFollow
<1> QED
  BY <1>2, <1>3, <1>4, <1>5 DEF GoesOn

LEMMA BeginGoesOn ==
    ASSUME TapInv, Begin, flushing = "idle", link' \in Links,
           UNCHANGED <<buffer, receipts, outcome, stored>>
    PROVE  GoesOn
<1>1. Sending' /\ OnItsWay' = OnItsWay /\ flushing' \in {"between", "posted"}
  BY BeginKeeps DEF TapInv
<1> QED
  BY <1>1, MovesGoOn

LEMMA CloseGoesOn ==
    ASSUME TapInv, Close
    PROVE  GoesOn
<1>1. /\ StartFlush /\ UNCHANGED <<buffer, receipts, outcome, stored>>
      /\ link' \in Links
  BY DEF Close, Links
<1>2. /\ Sending' /\ OnItsWay' = OnItsWay
      /\ flushing' = "reading" => flushing = "reading" /\ current' = current
  BY <1>1, StartFlushKeeps DEF TapInv
<1> QED
  BY <1>1, <1>2, MovesGoOn

\* An entry that becomes due is the same entry otherwise.
LEMMA DueQueue ==
    ASSUME NEW q \in Seq(Entry), NEW i \in DOMAIN q
    PROVE  LET r == [q EXCEPT ![i].due = TRUE] IN
           /\ r \in Seq(Entry) /\ Payloads(r) = Payloads(q) /\ Carried(r) = Carried(q)
           /\ Separate(q) => Separate(r)
           /\ Tried(q) => Tried(r)
<1> DEFINE e == [q[i] EXCEPT !.due = TRUE]
           r == [q EXCEPT ![i].due = TRUE]
<1>1. Len(q) \in Nat /\ DOMAIN q = 1..Len(q) /\ q \in [1..Len(q) -> Entry]
  BY LenProperties
<1>2. q[i] \in Entry
  BY <1>1, ElementOfSeq
<1>3. /\ e \in Entry /\ e.items = q[i].items /\ e.attempts = q[i].attempts
  BY <1>2 DEF Entry
<1>4. r = [q EXCEPT ![i] = e]
  OBVIOUS
<1> HIDE DEF r, e
<1>5. DOMAIN r = DOMAIN q /\ r \in [1..Len(q) -> Entry]
  BY <1>1, <1>3, <1>4
<1>6. r \in Seq(Entry)
  BY <1>1, <1>5, SeqDef
<1>7. \A j \in DOMAIN q : r[j].items = q[j].items /\ r[j].attempts = q[j].attempts
  <2> SUFFICES ASSUME NEW j \in DOMAIN q
               PROVE  r[j].items = q[j].items /\ r[j].attempts = q[j].attempts
    OBVIOUS
  <2>1. r[j] = IF j = i THEN e ELSE q[j]
    BY <1>4
  <2> QED
    BY <1>3, <2>1
<1>8. Payloads(r) = Payloads(q)
  <2>1. [j \in DOMAIN r |-> r[j].items] = [j \in DOMAIN q |-> q[j].items]
    BY <1>5, <1>7
  <2> QED
    BY <2>1 DEF Payloads
<1>9. Carried(r) = Carried(q) /\ (Separate(q) => Separate(r))
  BY <1>5, <1>7 DEF Carried, Separate
<1>10. Tried(q) => Tried(r)
  BY <1>5, <1>7 DEF Tried, Range
<1> QED
  BY <1>6, <1>8, <1>9, <1>10 DEF r

LEMMA ElapseGoesOn ==
    ASSUME TapInv, NEW i \in DOMAIN retryQueue, Elapse(i)
    PROVE  GoesOn
<1>1. /\ retryQueue' = [retryQueue EXCEPT ![i].due = TRUE]
      /\ UNCHANGED <<buffer, flushing, current, eligible, link, receipts, outcome, stored>>
  BY DEF Elapse
<1>2. /\ retryQueue \in Seq(Entry) /\ Separate(retryQueue) /\ Tried(retryQueue)
  BY DEF TapInv, Sending, SendTyped, SendApart, FlushShape
<1>3. /\ retryQueue' \in Seq(Entry) /\ Payloads(retryQueue') = Payloads(retryQueue)
      /\ Carried(retryQueue') = Carried(retryQueue)
      /\ Separate(retryQueue') /\ Tried(retryQueue')
  BY <1>1, <1>2, DueQueue
<1>4. SendTyped'
  BY <1>1, <1>3 DEF TapInv, Sending, SendTyped
<1>5. SendApart'
  BY <1>1, <1>3 DEF TapInv, Sending, SendApart
<1>6. FlushShape'
  BY <1>1, <1>3 DEF TapInv, Sending, FlushShape
<1>7. OnItsWay' = OnItsWay
  BY <1>1, <1>3 DEF OnItsWay
<1>8. link' \in Links
  BY <1>1 DEF TapInv
<1> QED
  BY <1>1, <1>4, <1>5, <1>6, <1>7, <1>8, MovesGoOn DEF Sending

LEMMA PostRetryGoesOn ==
    ASSUME TapInv, PostRetry
    PROVE  GoesOn
<1>1. Sending' /\ OnItsWay' = OnItsWay /\ flushing' = "posted"
  BY PostRetryKeeps DEF TapInv
<1>2. UNCHANGED <<buffer, link, receipts, outcome, stored>>
  BY DEF PostRetry
<1>3. link' \in Links
  BY <1>2 DEF TapInv
<1> QED
  BY <1>1, <1>2, <1>3, MovesGoOn

LEMMA FindEmptyGoesOn ==
    ASSUME TapInv, FindEmpty
    PROVE  GoesOn
<1>1. /\ flushing = "between" /\ eligible = <<>> /\ flushing' = "idle"
      /\ UNCHANGED <<buffer, current, eligible, retryQueue, receipts, outcome, stored>>
  BY DEF FindEmpty, EndFlush
<1>2. link' \in Links
  BY DEF FindEmpty, EndFlush, TapInv, Links
<1>3. SendTyped' /\ SendApart' /\ FlushShape'
  BY <1>1 DEF TapInv, Sending, SendTyped, SendApart, FlushShape, Stages
<1>4. OnItsWay' = OnItsWay
  BY <1>1 DEF OnItsWay
<1> QED
  BY <1>1, <1>2, <1>3, <1>4, MovesGoOn DEF Sending

LEMMA AcceptGoesOn ==
    ASSUME TapInv, Accept
    PROVE  GoesOn
<1>1. /\ flushing = "posted" /\ flushing' = "reading"
      /\ stored' = stored \cup Range(current.items)
      /\ UNCHANGED <<buffer, current, eligible, retryQueue, link, succeeded, erred,
                     disturbed, outcome>>
  BY DEF Accept, receipts
<1>2. SendTyped' /\ SendApart'
  BY <1>1 DEF TapInv, Sending, SendTyped, SendApart, Stages
<1>3. FlushShape'
  BY <1>1 DEF TapInv, Sending, FlushShape
<1>4. OnItsWay' = OnItsWay /\ Settled' = Settled
  BY <1>1 DEF OnItsWay, Settled
<1>5. Everything' = Everything
  BY <1>1, <1>4 DEF Everything
<1>6. PlacesApart'
  BY <1>1, <1>4 DEF TapInv, PlacesApart
<1>7. ReceiptsFollow'
  <2>1. Range(current.items) \subseteq Everything
    BY DEF Everything, OnItsWay
  <2> QED
    BY <1>1, <1>5, <2>1 DEF TapInv, ReceiptsFollow
<1>8. link' \in Links
  BY <1>1 DEF TapInv
<1> QED
  BY <1>2, <1>3, <1>4, <1>5, <1>6, <1>7, <1>8 DEF GoesOn, Sending

\* Some of what is on its way gets an outcome.
Settles(gone) ==
    /\ Sending' /\ flushing' \in {"idle", "between"} /\ buffer' = buffer
    /\ gone \subseteq OnItsWay /\ OnItsWay' = OnItsWay \ gone
    /\ outcome' \in [Outcomes -> SUBSET Item] /\ OutcomesApart(outcome')
    /\ Gone(outcome') = Gone(outcome) \cup gone
    /\ \A p \in Outcomes : outcome[p] \subseteq outcome'[p]

LEMMA SettlesApart ==
    ASSUME TapInv, NEW gone, Settles(gone)
    PROVE  /\ PlacesApart' /\ Everything' = Everything /\ Settled \subseteq Settled'
           /\ outcome["delivered"] \subseteq outcome'["delivered"]
           /\ outcome["refused"] \subseteq outcome'["refused"]
           /\ outcome["exhausted"] \subseteq outcome'["exhausted"]
<1>1. Settled = Gone(outcome) /\ Settled' = Gone(outcome')
  BY DEF Settled, Gone
<1>2. Everything' = Everything
  BY <1>1 DEF Settles, Everything
<1>3. PlacesApart'
  BY <1>1 DEF TapInv, PlacesApart, Settles
<1>4. {"delivered", "refused", "exhausted"} \subseteq Outcomes
  BY DEF Outcomes
<1> QED
  BY <1>1, <1>2, <1>3, <1>4 DEF Settles

LEMMA EndLinks ==
    ASSUME TapInv, Conclude
    PROVE  link' \in Links
BY DEF TapInv, Conclude, EndFlush, Links

\* A batch that is answered for good.
LEMMA AnsweredSettles ==
    ASSUME TapInv, flushing \in {"posted", "reading"}, Conclude,
           UNCHANGED <<buffer, eligible, retryQueue>>,
           NEW o \in Outcomes, Settle(o, Range(current.items))
    PROVE  /\ Settles(Range(current.items))
           /\ outcome'[o] = outcome[o] \cup Range(current.items)
           /\ \A p \in Outcomes : p # o => outcome'[p] = outcome[p]
<1> DEFINE carried == Range(current.items)
<1>1. /\ Sending
      /\ retryQueue \in Seq(Entry) /\ Separate(retryQueue) /\ Tried(retryQueue)
      /\ Len(Payloads(retryQueue)) <= MaxRetryBuffer /\ current \in Batch
  BY DEF TapInv, Sending, SendTyped, SendApart, FlushShape
<1>2. /\ Sending' /\ OnItsWay' = Carried(eligible) \cup Carried(retryQueue)
      /\ flushing' \in {"idle", "between"}
  BY <1>1, Concluded
<1>3. OnItsWay' = OnItsWay \ carried /\ carried \subseteq OnItsWay
  BY <1>2 DEF TapInv, Sending, SendApart, OnItsWay
<1>4. carried \in SUBSET Item
  BY <1>1, BatchTyped, RangeOfSeqTyped
<1>5. /\ carried \cap Gone(outcome) = {}
      /\ outcome \in [Outcomes -> SUBSET Item] /\ OutcomesApart(outcome)
  BY <1>3 DEF TapInv, PlacesApart, Gone, Settled
<1>6. outcome' = [outcome EXCEPT ![o] = @ \cup carried]
  BY DEF Settle
<1> HIDE DEF carried
<1>7. /\ outcome' \in [Outcomes -> SUBSET Item] /\ OutcomesApart(outcome')
      /\ Gone(outcome') = Gone(outcome) \cup carried
      /\ outcome'[o] = outcome[o] \cup carried
      /\ \A p \in Outcomes : outcome[p] \subseteq outcome'[p] /\ (p # o => outcome'[p] = outcome[p])
  BY <1>4, <1>5, <1>6, DecidedOnce
<1>8. Settles(carried)
  BY <1>2, <1>3, <1>7 DEF Settles
<1> QED
  BY <1>7, <1>8 DEF carried

\* The receipts given before onWitness throws are of the batch.
LEMMA ToldOfBatch ==
    ASSUME current \in Batch, NEW told \in Told
    PROVE  told \subseteq Range(current.items) /\ told \subseteq Item
<1> DEFINE s == ReceiptsOf(current)
<1>1. s \in Seq(Item) /\ Range(s) \subseteq Range(current.items)
  BY ReceiptsOfBatch
<1>2. PICK k \in DOMAIN s : told = Range(SubSeq(s, 1, k))
  BY DEF Told
<1> HIDE DEF s
<1>3. k \in 0..Len(s)
  BY <1>1, LenProperties
<1>4. Range(SubSeq(s, 1, k)) \subseteq Range(s)
  BY <1>1, <1>3, CutOnce
<1>5. Range(current.items) \subseteq Item
  BY BatchTyped, RangeOfSeqTyped
<1> QED
  BY <1>1, <1>2, <1>4, <1>5

LEMMA SucceedGoesOn ==
    ASSUME TapInv, Succeed
    PROVE  GoesOn
<1> DEFINE carried == Range(current.items)
<1>1. /\ flushing = "reading" /\ succeeded' = succeeded \cup Range(ReceiptsOf(current))
      /\ Settle("delivered", carried) /\ Conclude
      /\ UNCHANGED <<buffer, eligible, retryQueue, erred, disturbed, stored>>
  BY DEF Succeed
<1>2. "delivered" \in Outcomes
  BY DEF Outcomes
<1>3. Settles(carried) /\ outcome'["delivered"] = outcome["delivered"] \cup carried
  BY <1>1, <1>2, AnsweredSettles
<1>4. /\ PlacesApart' /\ Everything' = Everything /\ Settled \subseteq Settled'
      /\ outcome["refused"] \subseteq outcome'["refused"]
      /\ outcome["exhausted"] \subseteq outcome'["exhausted"]
  BY <1>3, SettlesApart
<1>5. current \in Batch /\ carried \subseteq stored
  BY <1>1 DEF TapInv, Sending, SendTyped, ReceiptsFollow
<1>6. Range(ReceiptsOf(current)) \subseteq carried /\ carried \subseteq Item
  BY <1>5, ReceiptsOfBatch, BatchTyped, RangeOfSeqTyped
<1>7. ReceiptsFollow'
  <2>1. flushing' # "reading"
    BY <1>3 DEF Settles
  <2> HIDE DEF carried
  <2> QED
    BY <1>1, <1>3, <1>4, <1>5, <1>6, <2>1 DEF TapInv, ReceiptsFollow
<1>8. link' \in Links
  BY <1>1, EndLinks
<1> QED
  BY <1>3, <1>4, <1>7, <1>8 DEF GoesOn, Settles

LEMMA RefuseGoesOn ==
    ASSUME TapInv, Refuse
    PROVE  GoesOn /\ outcome'["delivered"] = outcome["delivered"]
<1> DEFINE carried == Range(current.items)
<1>1. /\ flushing = "posted" /\ erred' = erred \cup Range(ReceiptsOf(current))
      /\ Settle("refused", carried) /\ Conclude
      /\ UNCHANGED <<buffer, eligible, retryQueue, succeeded, disturbed, stored>>
  BY DEF Refuse
<1>2. {"refused", "delivered"} \subseteq Outcomes /\ "delivered" # "refused"
  BY DEF Outcomes
<1>3. /\ Settles(carried) /\ outcome'["refused"] = outcome["refused"] \cup carried
      /\ outcome'["delivered"] = outcome["delivered"]
  BY <1>1, <1>2, AnsweredSettles
<1>4. /\ PlacesApart' /\ Everything' = Everything /\ Settled \subseteq Settled'
      /\ outcome["exhausted"] \subseteq outcome'["exhausted"]
  BY <1>3, SettlesApart
<1>5. current \in Batch
  BY DEF TapInv, Sending, SendTyped
<1>6. Range(ReceiptsOf(current)) \subseteq carried /\ carried \subseteq Item
  BY <1>5, ReceiptsOfBatch, BatchTyped, RangeOfSeqTyped
<1>7. ReceiptsFollow'
  <2>1. flushing' # "reading"
    BY <1>3 DEF Settles
  <2> HIDE DEF carried
  <2> QED
    BY <1>1, <1>3, <1>4, <1>6, <2>1 DEF TapInv, ReceiptsFollow
<1>8. link' \in Links
  BY <1>1, EndLinks
<1> QED
  BY <1>3, <1>4, <1>7, <1>8 DEF GoesOn, Settles

\* A batch that is retried, or is out of attempts.
LEMMA RetrySettles ==
    ASSUME TapInv, flushing \in {"posted", "reading"}, Conclude,
           UNCHANGED <<buffer, eligible>>, NEW told, NEW gone, GoesBack(told, gone)
    PROVE  Settles(gone)
<1>1. Sending
  BY DEF TapInv
<1>2. /\ retryQueue' \in Seq(Entry) /\ Separate(retryQueue') /\ Tried(retryQueue')
      /\ Len(Payloads(retryQueue')) <= MaxRetryBuffer
      /\ gone \subseteq Range(current.items) \cup Carried(retryQueue)
      /\ Carried(retryQueue') = (Range(current.items) \cup Carried(retryQueue)) \ gone
  BY DEF GoesBack
<1>3. /\ Sending' /\ OnItsWay' = Carried(eligible) \cup Carried(retryQueue')
      /\ flushing' \in {"idle", "between"}
  BY <1>1, <1>2, Concluded
<1>4. OnItsWay' = OnItsWay \ gone /\ gone \subseteq OnItsWay
  BY <1>2, <1>3 DEF TapInv, Sending, SendApart, OnItsWay
<1> QED
  BY <1>3, <1>4 DEF Settles, GoesBack

LEMMA FailGoesOn ==
    ASSUME TapInv, Fail
    PROVE  GoesOn /\ outcome'["delivered"] = outcome["delivered"]
<1>1. /\ flushing \in {"posted", "reading"} /\ RetryLater({}) /\ Conclude
      /\ UNCHANGED <<buffer, eligible, succeeded, disturbed, stored>>
  BY DEF Fail
<1>2. PICK gone : GoesBack({}, gone)
  BY <1>1, RetryLaterGoes DEF TapInv
<1>3. Settles(gone)
  BY <1>1, <1>2, RetrySettles
<1>4. /\ PlacesApart' /\ Everything' = Everything /\ Settled \subseteq Settled'
      /\ outcome["refused"] \subseteq outcome'["refused"]
      /\ outcome["exhausted"] \subseteq outcome'["exhausted"]
  BY <1>3, SettlesApart
<1>5. /\ outcome'["delivered"] = outcome["delivered"]
      /\ erred' \subseteq erred \cup outcome'["exhausted"]
      /\ outcome' \in [Outcomes -> SUBSET Item]
  BY <1>2 DEF GoesBack
<1>6. outcome'["exhausted"] \subseteq Item
  BY <1>5 DEF Outcomes
<1>7. ReceiptsFollow'
  <2>1. flushing' # "reading"
    BY <1>3 DEF Settles
  <2> QED
    BY <1>1, <1>4, <1>5, <1>6, <2>1 DEF TapInv, ReceiptsFollow
<1>8. link' \in Links
  BY <1>1, EndLinks
<1> QED
  BY <1>3, <1>4, <1>5, <1>7, <1>8 DEF GoesOn, Settles

LEMMA ReceiptThrowsGoesOn ==
    ASSUME TapInv, ReceiptThrows
    PROVE  GoesOn /\ outcome'["delivered"] = outcome["delivered"]
<1> DEFINE carried == Range(current.items)
<1>1. PICK told \in Told :
        /\ \/ /\ flushing = "reading"
              /\ succeeded' = succeeded \cup told
              /\ RetryLater({})
           \/ /\ flushing = "posted"
              /\ RetryLater(told)
              /\ UNCHANGED succeeded
        /\ disturbed' = disturbed \cup carried
        /\ Conclude
        /\ UNCHANGED <<buffer, eligible, stored>>
  BY DEF ReceiptThrows
<1>2. current \in Batch
  BY DEF TapInv, Sending, SendTyped
<1>3. told \subseteq carried /\ told \subseteq Item
  BY <1>2, ToldOfBatch
<1>4. carried \subseteq Item
  BY <1>2, BatchTyped, RangeOfSeqTyped
<1>5. PICK what \in {{}, told} : RetryLater(what)
  BY <1>1
<1>6. PICK gone : GoesBack(what, gone)
  BY <1>5, RetryLaterGoes DEF TapInv
<1>7. Settles(gone)
  BY <1>1, <1>6, RetrySettles
<1>8. /\ PlacesApart' /\ Everything' = Everything /\ Settled \subseteq Settled'
      /\ outcome["refused"] \subseteq outcome'["refused"]
      /\ outcome["exhausted"] \subseteq outcome'["exhausted"]
  BY <1>7, SettlesApart
<1>9. /\ outcome'["delivered"] = outcome["delivered"]
      /\ erred' \subseteq erred \cup what \cup carried
  BY <1>6 DEF GoesBack
<1>10. \/ succeeded' = succeeded
       \/ succeeded' = succeeded \cup told /\ carried \subseteq stored
  BY <1>1 DEF TapInv, ReceiptsFollow
<1>11. ReceiptsFollow'
  <2>1. flushing' # "reading"
    BY <1>7 DEF Settles
  <2>2. disturbed' = disturbed \cup carried /\ stored' = stored
    BY <1>1
  <2>3. erred' \subseteq erred \cup carried
    BY <1>3, <1>5, <1>9
  <2> HIDE DEF carried
  <2>4. /\ {succeeded', erred', disturbed'} \subseteq SUBSET Item
        /\ succeeded' \subseteq stored'
        /\ succeeded' \subseteq outcome'["delivered"] \cup disturbed'
    BY <1>3, <1>4, <1>9, <1>10, <2>2, <2>3 DEF TapInv, ReceiptsFollow
  <2>5. erred' \subseteq outcome'["refused"] \cup outcome'["exhausted"] \cup disturbed'
    BY <1>8, <2>2, <2>3 DEF TapInv, ReceiptsFollow
  <2>6. stored' \subseteq Everything' /\ outcome'["delivered"] \subseteq stored'
    BY <1>8, <1>9, <2>2 DEF TapInv, ReceiptsFollow
  <2> QED
    BY <2>1, <2>4, <2>5, <2>6 DEF ReceiptsFollow
<1>12. link' \in Links
  BY <1>1, EndLinks
<1> QED
  BY <1>7, <1>8, <1>9, <1>11, <1>12 DEF GoesOn, Settles

LEMMA FailThrowsGoesOn ==
    ASSUME TapInv, FailThrows
    PROVE  GoesOn /\ outcome'["delivered"] = outcome["delivered"]
<1> DEFINE carried == Range(current.items)
           middle == [outcome EXCEPT !["exhausted"] = @ \cup carried]
<1>1. /\ outcome' = [outcome EXCEPT !["exhausted"] = @ \cup carried,
                                    !["lost"] = @ \cup Range(Payloads(eligible))]
      /\ flushing \in {"posted", "reading"} /\ current' = Nothing /\ eligible' = <<>>
      /\ flushing' = "idle" /\ link' \in Links
      /\ disturbed' = disturbed \cup carried
      /\ UNCHANGED <<buffer, retryQueue, stored>>
  BY DEF FailThrows, EndFlush, TapInv, Links
<1>2. PICK told \in Told : erred' = erred \cup told
  BY DEF FailThrows
<1>3. \/ succeeded' = succeeded
      \/ flushing = "reading" /\ \E some \in Told : succeeded' = succeeded \cup some
  BY DEF FailThrows
<1>4. current \in Batch /\ eligible \in Seq(Entry)
  BY DEF TapInv, Sending, SendTyped
<1>5. Range(Payloads(eligible)) = Carried(eligible) /\ Carried(eligible) \in SUBSET Item
  <2>1. Payloads(eligible) \in Seq(Item) /\ Range(Payloads(eligible)) = Carried(eligible)
    BY <1>4, PayloadsOnce
  <2> QED
    BY <2>1, RangeOfSeqTyped
<1>6. carried \in SUBSET Item
  BY <1>4, BatchTyped, RangeOfSeqTyped
<1>7. outcome' = [middle EXCEPT !["lost"] = @ \cup Carried(eligible)]
  BY <1>1, <1>5
<1>8. /\ outcome \in [Outcomes -> SUBSET Item] /\ OutcomesApart(outcome)
      /\ carried \cap Gone(outcome) = {} /\ Carried(eligible) \cap Gone(outcome) = {}
      /\ carried \cap Carried(eligible) = {}
  BY DEF TapInv, Sending, SendApart, PlacesApart, OnItsWay, Settled, Gone
<1>9. /\ {"exhausted", "lost", "delivered"} \subseteq Outcomes
      /\ "delivered" # "exhausted" /\ "delivered" # "lost"
  BY DEF Outcomes
<1> HIDE DEF carried
<1>10. /\ middle \in [Outcomes -> SUBSET Item] /\ OutcomesApart(middle)
       /\ Gone(middle) = Gone(outcome) \cup carried
       /\ middle["exhausted"] = outcome["exhausted"] \cup carried
       /\ \A p \in Outcomes : /\ outcome[p] \subseteq middle[p]
                              /\ (p # "exhausted" => middle[p] = outcome[p])
  BY <1>6, <1>8, <1>9, DecidedOnce
<1> HIDE DEF middle
<1>11. Carried(eligible) \cap Gone(middle) = {}
  BY <1>8, <1>10
<1>12. /\ outcome' \in [Outcomes -> SUBSET Item] /\ OutcomesApart(outcome')
       /\ Gone(outcome') = Gone(middle) \cup Carried(eligible)
       /\ \A p \in Outcomes : /\ middle[p] \subseteq outcome'[p]
                              /\ (p # "lost" => outcome'[p] = middle[p])
  <2> DEFINE rest == Carried(eligible)
             last == [middle EXCEPT !["lost"] = @ \cup rest]
  <2>1. "lost" \in Outcomes /\ rest \in SUBSET Item /\ rest \cap Gone(middle) = {}
    BY <1>5, <1>9, <1>11
  <2>2. outcome' = last
    BY <1>7
  <2> HIDE DEF rest
  <2>3. /\ last \in [Outcomes -> SUBSET Item] /\ OutcomesApart(last)
        /\ Gone(last) = Gone(middle) \cup rest
        /\ last["lost"] = middle["lost"] \cup rest
        /\ \A p \in Outcomes : /\ middle[p] \subseteq last[p]
                               /\ (p # "lost" => last[p] = middle[p])
    BY <1>10, <2>1, DecidedOnce
  <2> HIDE DEF last
  <2> QED
    BY <2>2, <2>3 DEF rest
<1>13. Sending'
  <2>1. SendTyped'
    BY <1>1, EmptyQueue, NothingSent DEF TapInv, Sending, SendTyped, Stages
  <2>2. SendApart'
    BY <1>1, EmptyQueue, NothingSent DEF TapInv, Sending, SendApart
  <2>3. FlushShape'
    BY <1>1, EmptyQueue DEF TapInv, Sending, FlushShape
  <2> QED
    BY <2>1, <2>2, <2>3 DEF Sending
<1> DEFINE gone == carried \cup Carried(eligible)
<1>14. OnItsWay' = OnItsWay \ gone /\ gone \subseteq OnItsWay
  <2>1. OnItsWay' = Carried(retryQueue)
    BY <1>1, EmptyQueue, NothingSent DEF OnItsWay
  <2> QED
    BY <2>1 DEF TapInv, Sending, SendApart, OnItsWay, carried
<1>15. Gone(outcome') = Gone(outcome) \cup gone
  BY <1>10, <1>12
<1>16. \A p \in Outcomes : outcome[p] \subseteq outcome'[p]
  BY <1>10, <1>12
<1>17. outcome'["delivered"] = outcome["delivered"]
  BY <1>9, <1>10, <1>12
<1> HIDE DEF gone
<1>18. Settles(gone)
  BY <1>1, <1>12, <1>13, <1>14, <1>15, <1>16 DEF Settles
<1>19. /\ PlacesApart' /\ Everything' = Everything /\ Settled \subseteq Settled'
       /\ outcome["refused"] \subseteq outcome'["refused"]
       /\ outcome["exhausted"] \subseteq outcome'["exhausted"]
  BY <1>18, SettlesApart
<1>20. told \subseteq carried
  BY <1>4, ToldOfBatch DEF carried
<1>21. \/ succeeded' = succeeded
       \/ carried \subseteq stored /\ \E some \in SUBSET carried : succeeded' = succeeded \cup some
  <2>1. flushing = "reading" => carried \subseteq stored
    BY DEF TapInv, ReceiptsFollow, carried
  <2>2. \A some \in Told : some \in SUBSET carried
    BY <1>4, ToldOfBatch DEF carried
  <2> QED
    BY <1>3, <2>1, <2>2
<1>22. ReceiptsFollow'
  <2>1. /\ {succeeded', erred', disturbed'} \subseteq SUBSET Item
        /\ succeeded' \subseteq stored'
        /\ succeeded' \subseteq outcome'["delivered"] \cup disturbed'
    BY <1>1, <1>2, <1>6, <1>17, <1>20, <1>21 DEF TapInv, ReceiptsFollow
  <2>2. erred' \subseteq outcome'["refused"] \cup outcome'["exhausted"] \cup disturbed'
    BY <1>1, <1>2, <1>19, <1>20 DEF TapInv, ReceiptsFollow
  <2>3. stored' \subseteq Everything' /\ outcome'["delivered"] \subseteq stored'
    BY <1>1, <1>17, <1>19 DEF TapInv, ReceiptsFollow
  <2> QED
    BY <1>1, <2>1, <2>2, <2>3 DEF ReceiptsFollow
<1> QED
  BY <1>1, <1>13, <1>17, <1>19, <1>22 DEF GoesOn

-----------------------------------------------------------------------------
(* Steps that take calls and make payloads *)

LEMMA CallsTyped ==
    ASSUME TapInv
    PROVE  /\ {skipped, handled, witnessed} \subseteq SUBSET Call
           /\ Range(requested) \subseteq Call /\ Range(pending) \subseteq Call
<1>1. Range(requested) \subseteq Call /\ Range(pending) \subseteq Call
  BY RangeOfSeqTyped DEF TapInv, CallsKnown
<1>2. skipped \subseteq witnessed
  BY DEF TapInv, CallsTold
<1> QED
  BY <1>1, <1>2 DEF TapInv, CallsKnown

LEMMA QuietKeeps ==
    ASSUME TapInv, GoesOn, UNCHANGED <<calls, skipped>>
    PROVE  TapInv'
<1>1. UNCHANGED <<pending, requested, handled, witnessed, skipped>>
  BY DEF calls
<1>2. CallsKnown'
  BY <1>1 DEF TapInv, CallsKnown, GivenUp, InOrder, Earlier
<1>3. CallsTold'
  BY <1>1 DEF TapInv, CallsTold, GoesOn
<1> QED
  BY <1>2, <1>3 DEF TapInv, GoesOn

\* A step of the calls alone.
LEMMA CallsAlone ==
    ASSUME TapInv, CallsKnown', UNCHANGED <<witnessed, buffer, skipped, sending, link,
                                            receipts, outcome, stored>>
    PROVE  TapInv' /\ Everything' = Everything
<1>1. /\ UNCHANGED <<witnessed, buffer, skipped, flushing, current, eligible, retryQueue>>
      /\ UNCHANGED <<link, succeeded, erred, disturbed, outcome, stored>>
  BY DEF sending, receipts
<1>2. Sending'
  BY <1>1 DEF TapInv, Sending, SendTyped, SendApart, FlushShape
<1>3. OnItsWay' = OnItsWay /\ Settled' = Settled
  BY <1>1 DEF OnItsWay, Settled
<1>4. Everything' = Everything
  BY <1>1, <1>3 DEF Everything
<1>5. PlacesApart'
  BY <1>1, <1>3 DEF TapInv, PlacesApart
<1>6. CallsTold'
  BY <1>1, <1>4 DEF TapInv, CallsTold
<1>7. ReceiptsFollow'
  BY <1>1, <1>4 DEF TapInv, ReceiptsFollow
<1> QED
  BY <1>1, <1>2, <1>4, <1>5, <1>6, <1>7 DEF TapInv

\* A call that comes is younger than those that came before.
LEMMA EarlierGrows ==
    ASSUME requested \in Seq(Call), NEW c \in Call, c \notin Range(requested),
           requested' = Append(requested, c)
    PROVE  /\ requested' \in Seq(Call) /\ Range(requested') = Range(requested) \cup {c}
           /\ IsInjective(requested) => IsInjective(requested')
           /\ \A d, e \in Range(requested) : Earlier(requested, d, e) => Earlier(requested', d, e)
           /\ \A d \in Range(requested) : Earlier(requested', d, c)
<1> DEFINE n == Len(requested)
<1>1. /\ requested' \in Seq(Call) /\ Range(requested') = Range(requested) \cup {c}
      /\ IsInjective(requested) => IsInjective(requested')
  BY AppendOnce
<1>2. /\ n \in Nat /\ DOMAIN requested = 1..n
      /\ Len(requested') = n + 1 /\ requested'[n + 1] = c
      /\ \A i \in 1..n : requested'[i] = requested[i]
  BY AppendProperties, LenProperties
<1>3. DOMAIN requested' = 1..(n + 1)
  BY <1>1, <1>2, LenProperties
<1>4. ASSUME NEW i \in DOMAIN requested', requested'[i] # c
      PROVE  i \in DOMAIN requested /\ requested'[i] = requested[i] /\ i <= n
  BY <1>2, <1>3, <1>4
<1>5. ASSUME NEW i \in DOMAIN requested', requested'[i] = c
      PROVE  i = n + 1
  <2>1. ASSUME i \in 1..n PROVE FALSE
    BY <1>2, <1>5, <2>1 DEF Range
  <2> QED
    BY <1>2, <1>3, <2>1
<1>6. ASSUME NEW d \in Range(requested), NEW e \in Range(requested), Earlier(requested, d, e)
      PROVE  Earlier(requested', d, e)
  <2> SUFFICES ASSUME NEW i \in DOMAIN requested', NEW j \in DOMAIN requested',
                      requested'[i] = d, requested'[j] = e
               PROVE  i < j
    BY DEF Earlier
  <2>1. d # c /\ e # c
    OBVIOUS
  <2> QED
    BY <1>4, <1>6, <2>1 DEF Earlier
<1>7. ASSUME NEW d \in Range(requested)
      PROVE  Earlier(requested', d, c)
  <2> SUFFICES ASSUME NEW i \in DOMAIN requested', NEW j \in DOMAIN requested',
                      requested'[i] = d, requested'[j] = c
               PROVE  i < j
    BY DEF Earlier
  <2>1. i \in DOMAIN requested /\ i <= n /\ j = n + 1
    BY <1>4, <1>5
  <2> QED
    BY <1>2, <2>1
<1> QED
  BY <1>1, <1>6, <1>7

LEMMA RequestKeeps ==
    ASSUME TapInv, NEW c \in Call, Request(c)
    PROVE  TapInv' /\ Everything' = Everything
<1> DEFINE all == Append(pending, c)
           n == Len(pending)
<1>1. /\ pending \in Seq(Call) /\ requested \in Seq(Call)
      /\ n <= MaxBuffer /\ MaxBuffer \in Nat
      /\ IsInjective(pending) /\ IsInjective(requested)
      /\ Range(pending) \subseteq handled /\ handled \subseteq Range(requested)
      /\ witnessed \subseteq handled
      /\ witnessed \cap Range(pending) = {} /\ InOrder(pending, requested)
      /\ \A d \in Range(pending), e \in GivenUp : Earlier(requested, e, d)
  BY TransportTapAssumption DEF TapInv, CallsKnown
<1>2. /\ c \notin Range(requested) /\ requested' = Append(requested, c)
      /\ pending' = IF Len(all) > MaxBuffer THEN Tail(all) ELSE all
      /\ handled' = handled \cup {c}
      /\ UNCHANGED <<witnessed, buffer, skipped, sending, link, receipts, outcome, stored>>
  BY DEF Request, Track
<1>3. /\ requested' \in Seq(Call) /\ Range(requested') = Range(requested) \cup {c}
      /\ IsInjective(requested')
      /\ \A d, e \in Range(requested) : Earlier(requested, d, e) => Earlier(requested', d, e)
      /\ \A d \in Range(requested) : Earlier(requested', d, c)
  BY <1>1, <1>2, EarlierGrows
<1>4. /\ all \in Seq(Call) /\ Range(all) = Range(pending) \cup {c} /\ IsInjective(all)
  BY <1>1, <1>2, AppendOnce
<1>5. /\ n \in Nat /\ DOMAIN pending = 1..n /\ Len(all) = n + 1 /\ all[n + 1] = c
      /\ \A k \in 1..n : all[k] = pending[k]
  BY <1>1, AppendProperties, LenProperties
<1>6. DOMAIN all = 1..(n + 1)
  BY <1>4, <1>5, LenProperties
<1> HIDE DEF all
<1>7. ASSUME NEW k \in DOMAIN all, NEW l \in DOMAIN all, k < l
      PROVE  Earlier(requested', all[k], all[l])
  <2>0. ASSUME NEW i \in 1..n PROVE all[i] = pending[i] /\ pending[i] \in Range(requested)
    <3>1. pending[i] \in Range(pending)
      BY <1>5 DEF Range
    <3> QED
      BY <1>1, <1>5, <3>1
  <2>1. k \in 1..n /\ all[k] = pending[k] /\ pending[k] \in Range(requested)
    <3>1. k \in 1..n
      BY <1>5, <1>6, <1>7
    <3> QED
      BY <2>0, <3>1
  <2>2. CASE l = n + 1
    BY <1>3, <1>5, <2>1, <2>2
  <2>3. CASE l # n + 1
    <3>1. l \in 1..n /\ all[l] = pending[l] /\ pending[l] \in Range(requested)
      <4>1. l \in 1..n
        BY <1>5, <1>6, <2>3
      <4> QED
        BY <2>0, <4>1
    <3>2. Earlier(requested, pending[k], pending[l])
      BY <1>1, <1>5, <1>7, <2>1, <3>1 DEF InOrder
    <3> QED
      BY <1>3, <2>1, <3>1, <3>2
  <2> QED
    BY <2>2, <2>3
<1>8. \A d \in Range(all), e \in GivenUp : Earlier(requested', e, d)
  <2> SUFFICES ASSUME NEW d \in Range(all), NEW e \in GivenUp PROVE Earlier(requested', e, d)
    OBVIOUS
  <2>1. e \in Range(requested)
    BY <1>1 DEF GivenUp
  <2>2. CASE d = c
    BY <1>3, <2>1, <2>2
  <2>3. CASE d # c
    <3>1. d \in Range(pending) /\ d \in Range(requested)
      BY <1>1, <1>4, <2>3
    <3>2. Earlier(requested, e, d)
      BY <1>1, <3>1
    <3> QED
      BY <1>3, <2>1, <3>1, <3>2
  <2> QED
    BY <2>2, <2>3
<1>9. CASE ~(Len(all) > MaxBuffer)
  <2>1. pending' = all
    BY <1>2, <1>9
  <2>2. GivenUp' = GivenUp
    BY <1>1, <1>2, <1>4, <2>1 DEF GivenUp
  <2>3. InOrder(pending', requested')
    BY <1>7, <2>1 DEF InOrder
  <2>4. Len(pending') <= MaxBuffer
    BY <1>1, <1>5, <1>9, <2>1
  <2>5. \A d \in Range(pending'), e \in GivenUp' : Earlier(requested', e, d)
    BY <1>8, <2>1, <2>2
  <2>6. /\ Range(pending') \subseteq handled' /\ handled' \subseteq Range(requested')
        /\ witnessed' \subseteq handled'
        /\ witnessed' \cap Range(pending') = {}
    BY <1>1, <1>2, <1>3, <1>4, <2>1
  <2>7. CallsKnown'
    BY <1>3, <1>4, <2>1, <2>3, <2>4, <2>5, <2>6 DEF CallsKnown
  <2> QED
    BY <1>2, <2>7, CallsAlone
<1>10. CASE Len(all) > MaxBuffer
  <2> DEFINE one == SubSeq(all, 1, 1)
             rest == SubSeq(all, 2, Len(all))
  <2>1. /\ Len(all) \in Nat /\ Len(all) > 0 /\ all # <<>> /\ 1 \in 0..Len(all) /\ 1 + 1 = 2
    BY <1>4, <1>5, EmptySeq
  <2>2. pending' = rest
    BY <1>2, <1>4, <1>10, <2>1, TailIsSubSeq
  <2>3. /\ one \in Seq(Call) /\ rest \in Seq(Call) /\ Len(rest) = Len(all) - 1
        /\ Range(all) = Range(one) \cup Range(rest)
        /\ IsInjective(rest) /\ Range(one) \cap Range(rest) = {}
    <3>1. LET a == SubSeq(all, 1, 1)
              b == SubSeq(all, 1 + 1, Len(all))
          IN  /\ a \in Seq(Call) /\ b \in Seq(Call)
              /\ Len(b) = Len(all) - 1
              /\ Range(all) = Range(a) \cup Range(b)
              /\ IsInjective(all) => /\ IsInjective(a) /\ IsInjective(b)
                                     /\ Range(a) \cap Range(b) = {}
      BY <1>4, <2>1, CutOnce
    <3> QED
      BY <1>4, <2>1, <3>1
  <2>4. /\ \A k \in 1..n : rest[k] = all[k + 1]
        /\ DOMAIN rest = 1..n
    <3>1. /\ Tail(all) \in Seq(Call) /\ Len(Tail(all)) = Len(all) - 1
          /\ \A k \in 1..Len(Tail(all)) : Tail(all)[k] = all[k + 1]
      BY <1>4, <2>1, HeadTailProperties
    <3>2. Tail(all) = rest
      BY <1>4, <2>1, TailIsSubSeq
    <3>3. Len(all) - 1 = n
      BY <1>5
    <3> QED
      BY <3>1, <3>2, <3>3, LenProperties
  <2>5. Range(one) = {all[1]}
    <3>1. all[1] \in Range(all) /\ all[1] \notin Range(rest)
      <4>1. 1 \in DOMAIN all
        BY <1>5, <1>6
      <4>2. ASSUME all[1] \in Range(rest) PROVE FALSE
        <5>1. PICK k \in 1..n : rest[k] = all[1]
          BY <2>4, <4>2 DEF Range
        <5>2. k + 1 \in DOMAIN all /\ k + 1 # 1
          BY <1>5, <1>6
        <5> QED
          BY <1>4, <2>4, <4>1, <5>1, <5>2 DEF IsInjective
      <4> QED
        BY <4>1, <4>2 DEF Range
    <3>2. \A d \in Range(all) : d \in Range(rest) \/ d = all[1]
      <4> SUFFICES ASSUME NEW i \in DOMAIN all PROVE all[i] \in Range(rest) \/ all[i] = all[1]
        BY DEF Range
      <4>1. CASE i # 1
        <5>1. i - 1 \in 1..n /\ (i - 1) + 1 = i
          BY <1>5, <1>6, <4>1
        <5> QED
          BY <2>4, <5>1 DEF Range
      <4> QED
        BY <4>1
    <3> QED
      BY <2>3, <3>1, <3>2
  <2> HIDE DEF one, rest
  <2>6. GivenUp' = GivenUp \cup {all[1]}
    <3>1. all[1] \in Range(pending) \cup {c} /\ all[1] \notin Range(rest)
      BY <1>4, <2>3, <2>5
    <3>2. Range(rest) = (Range(pending) \cup {c}) \ {all[1]}
      BY <1>4, <2>3, <2>5
    <3> QED
      BY <1>1, <1>2, <2>2, <3>1, <3>2 DEF GivenUp
  <2>7. InOrder(pending', requested')
    <3> SUFFICES ASSUME NEW k \in 1..n, NEW l \in 1..n, k < l
                 PROVE  Earlier(requested', rest[k], rest[l])
      BY <2>2, <2>4 DEF InOrder
    <3>1. k + 1 \in DOMAIN all /\ l + 1 \in DOMAIN all /\ k + 1 < l + 1
      BY <1>5, <1>6
    <3> QED
      BY <1>7, <2>4, <3>1
  <2>8. Len(pending') <= MaxBuffer
    BY <1>1, <1>5, <2>2, <2>3
  <2>9. \A d \in Range(pending'), e \in GivenUp' : Earlier(requested', e, d)
    <3> SUFFICES ASSUME NEW d \in Range(rest), NEW e \in GivenUp' PROVE Earlier(requested', e, d)
      BY <2>2
    <3>1. CASE e \in GivenUp
      BY <1>8, <2>3, <3>1
    <3>2. CASE e = all[1]
      <4>1. PICK k \in 1..n : rest[k] = d
        BY <2>4 DEF Range
      <4>2. 1 \in DOMAIN all /\ k + 1 \in DOMAIN all /\ 1 < k + 1
        BY <1>5, <1>6
      <4> QED
        BY <1>7, <2>4, <3>2, <4>1, <4>2
    <3> QED
      BY <2>6, <3>1, <3>2
  <2>10. /\ Range(pending') \subseteq handled' /\ handled' \subseteq Range(requested')
         /\ witnessed' \subseteq handled'
         /\ witnessed' \cap Range(pending') = {}
    BY <1>1, <1>2, <1>3, <1>4, <2>2, <2>3
  <2>11. CallsKnown'
    BY <1>3, <2>2, <2>3, <2>7, <2>8, <2>9, <2>10 DEF CallsKnown
  <2> QED
    BY <1>2, <2>11, CallsAlone
<1> QED
  BY <1>9, <1>10

LEMMA RequestThrowsKeeps ==
    ASSUME TapInv, NEW c \in Call, RequestThrows(c)
    PROVE  TapInv' /\ Everything' = Everything
<1>1. /\ c \notin Range(requested) /\ requested' = Append(requested, c)
      /\ UNCHANGED <<pending, handled>>
      /\ UNCHANGED <<witnessed, buffer, skipped, sending, link, receipts, outcome, stored>>
  BY DEF RequestThrows
<1>2. /\ requested' \in Seq(Call) /\ Range(requested') = Range(requested) \cup {c}
      /\ IsInjective(requested) => IsInjective(requested')
      /\ \A d, e \in Range(requested) : Earlier(requested, d, e) => Earlier(requested', d, e)
  BY <1>1, EarlierGrows DEF TapInv, CallsKnown
<1>3. GivenUp' = GivenUp /\ GivenUp \subseteq Range(requested)
  BY <1>1 DEF GivenUp, TapInv, CallsKnown
<1>4. InOrder(pending', requested')
  <2>1. \A k \in DOMAIN pending : pending[k] \in Range(requested)
    BY DEF TapInv, CallsKnown, Range
  <2> QED
    BY <1>1, <1>2, <2>1 DEF TapInv, CallsKnown, InOrder
<1>5. CallsKnown'
  BY <1>1, <1>2, <1>3, <1>4 DEF TapInv, CallsKnown
<1> QED
  BY <1>1, <1>5, CallsAlone

\* The call of a message that is looked up leaves the pending ones.
LEMMA ObservedKnown ==
    ASSUME TapInv, NEW c \in Range(pending),
           pending' = Picked(pending, {i \in DOMAIN pending : pending[i] # c}),
           witnessed' = witnessed \cup {c}, UNCHANGED <<requested, handled>>
    PROVE  CallsKnown'
<1> DEFINE keep == {i \in DOMAIN pending : pending[i] # c}
           r == Picked(pending, keep)
<1>1. /\ pending \in Seq(Call) /\ requested \in Seq(Call)
      /\ Len(pending) <= MaxBuffer /\ MaxBuffer \in Nat
      /\ IsInjective(pending) /\ IsInjective(requested)
      /\ Range(pending) \subseteq handled /\ handled \subseteq Range(requested)
      /\ witnessed \subseteq handled
      /\ witnessed \cap Range(pending) = {} /\ InOrder(pending, requested)
      /\ \A d \in Range(pending), e \in GivenUp : Earlier(requested, e, d)
  BY TransportTapAssumption DEF TapInv, CallsKnown
<1>2. keep \subseteq DOMAIN pending
  OBVIOUS
<1>3. \A d \in Range(pending) : d # c => \E i \in keep : pending[i] = d
  BY DEF Range
<1>4. \A i \in keep : pending[i] \in Range(pending) \ {c}
  BY DEF Range
<1> HIDE DEF keep
<1>5. /\ r \in Seq(Call) /\ Len(r) = Cardinality(keep) /\ Cardinality(keep) \in Nat
      /\ \A k \in 1..Len(r) : \E i \in keep : Rank(keep, i) = k /\ r[k] = pending[i]
      /\ \A i \in keep : /\ Rank(keep, i) \in 1..Len(r)
                         /\ r[Rank(keep, i)] = pending[i]
      /\ \A i, j \in keep : i < j => Rank(keep, i) < Rank(keep, j)
  BY <1>1, <1>2, PickedElements
<1>6. /\ \A d : d \in Range(r) <=> \E i \in keep : pending[i] = d
      /\ IsInjective(r)
  BY <1>1, <1>2, PickedRange
<1> HIDE DEF r
<1>7. Range(r) = Range(pending) \ {c}
  BY <1>3, <1>4, <1>6
<1>8. pending' = r
  BY DEF r, keep
<1>9. Len(r) <= MaxBuffer
  <2>1. Len(r) <= Len(pending)
    BY <1>1, <1>5, <1>6, <1>7, OnceShorter
  <2> QED
    BY <1>1, <1>5, <2>1, LenProperties
<1>10. InOrder(pending', requested')
  <2> SUFFICES ASSUME NEW k \in DOMAIN r, NEW l \in DOMAIN r, k < l
               PROVE  Earlier(requested, r[k], r[l])
    BY <1>8 DEF InOrder, Earlier
  <2>1. DOMAIN r = 1..Len(r) /\ Len(r) \in Nat
    BY <1>5, LenProperties
  <2>2. PICK i \in keep : Rank(keep, i) = k /\ r[k] = pending[i]
    BY <1>5, <2>1
  <2>3. PICK j \in keep : Rank(keep, j) = l /\ r[l] = pending[j]
    BY <1>5, <2>1
  <2>4. i \in Nat /\ j \in Nat /\ i \in DOMAIN pending /\ j \in DOMAIN pending
    BY <1>1, <1>2, LenProperties
  <2>5. i < j
    <3>1. ~(j < i)
      BY <1>5, <2>1, <2>2, <2>3
    <3>2. i # j
      BY <2>1, <2>2, <2>3
    <3> QED
      BY <2>4, <3>1, <3>2
  <2> QED
    BY <1>1, <2>2, <2>3, <2>4, <2>5 DEF InOrder
<1>11. GivenUp' = GivenUp
  BY <1>7, <1>8 DEF GivenUp
<1>12. \A d \in Range(pending'), e \in GivenUp' : Earlier(requested', e, d)
  BY <1>1, <1>7, <1>8, <1>11 DEF Earlier
<1> QED
  BY <1>1, <1>5, <1>6, <1>7, <1>8, <1>9, <1>10, <1>12 DEF CallsKnown

\* A message takes a call out of the map: it is skipped, or its payload is new.
LEMMA MessageKeeps ==
    ASSUME TapInv, NEW c \in Call, TappedSend(c)
    PROVE  /\ TapInv'
           /\ \/ Everything' = Everything
              \/ /\ Witnessed(c) \notin Everything
                 /\ Everything' = Everything \cup {Witnessed(c)}
           /\ UNCHANGED <<outcome, stored>>
<1>0. UNCHANGED <<requested, handled, link, succeeded, erred, disturbed, outcome, stored>>
  BY DEF TappedSend, receipts
<1>1. /\ c \in Range(pending)
      /\ pending' = Picked(pending, {i \in DOMAIN pending : pending[i] # c})
      /\ witnessed' = witnessed \cup {c} /\ Enqueue(c)
  BY DEF TappedSend
<1>2. CallsKnown'
  BY <1>0, <1>1, ObservedKnown
<1>3. /\ c \notin witnessed /\ c \notin skipped
      /\ \A i \in Everything : c \notin i.calls
  BY <1>1 DEF TapInv, CallsKnown, CallsTold
<1>4. Settled' = Settled
  BY <1>0 DEF Settled
<1>5. CASE skipped' = skipped \cup {c} /\ UNCHANGED <<buffer, sending>>
  <2>1. UNCHANGED <<buffer, flushing, current, eligible, retryQueue>>
    BY <1>5 DEF sending
  <2>2. Sending'
    BY <2>1 DEF TapInv, Sending, SendTyped, SendApart, FlushShape
  <2>3. OnItsWay' = OnItsWay
    BY <2>1 DEF OnItsWay
  <2>4. Everything' = Everything
    BY <1>4, <2>1, <2>3 DEF Everything
  <2>5. PlacesApart'
    BY <1>0, <1>4, <2>1, <2>3 DEF TapInv, PlacesApart
  <2>6. ReceiptsFollow'
    BY <1>0, <2>1, <2>4 DEF TapInv, ReceiptsFollow
  <2>7. CallsTold'
    BY <1>1, <1>3, <1>5, <2>4 DEF TapInv, CallsTold
  <2> QED
    BY <1>0, <1>2, <2>2, <2>4, <2>5, <2>6, <2>7 DEF TapInv
<1>6. CASE /\ buffer' = Append(buffer, Witnessed(c)) /\ UNCHANGED skipped
           /\ IF Len(buffer') >= BatchSize THEN StartFlush ELSE UNCHANGED sending
  <2> DEFINE item == Witnessed(c)
  <2>1. item \in Item /\ item.calls = {c}
    BY DEF Witnessed, Item
  <2>2. item \notin Everything
    BY <1>3, <2>1
  <2> HIDE DEF item
  <2>3. /\ Sending' /\ OnItsWay' = OnItsWay
        /\ flushing' = "reading" => flushing = "reading" /\ current' = current
    <3>1. CASE StartFlush
      BY <3>1, StartFlushKeeps DEF TapInv
    <3>2. CASE UNCHANGED sending
      <4>1. UNCHANGED <<flushing, current, eligible, retryQueue>>
        BY <3>2 DEF sending
      <4> QED
        BY <4>1 DEF TapInv, Sending, SendTyped, SendApart, FlushShape, OnItsWay
    <3> QED
      BY <1>6, <3>1, <3>2
  <2>4. /\ buffer' \in Seq(Item) /\ Range(buffer') = Range(buffer) \cup {item}
        /\ IsInjective(buffer')
    <3>1. /\ buffer \in Seq(Item) /\ IsInjective(buffer) /\ item \notin Range(buffer)
          /\ buffer' = Append(buffer, item)
      BY <1>6, <2>2 DEF TapInv, PlacesApart, Everything, item
    <3> QED
      BY <2>1, <3>1, AppendOnce
  <2>5. Everything' = Everything \cup {item}
    BY <1>4, <2>3, <2>4 DEF Everything
  <2>6. PlacesApart'
    BY <1>0, <1>4, <2>2, <2>3, <2>4 DEF TapInv, PlacesApart, Everything
  <2>7. ReceiptsFollow'
    BY <1>0, <2>3, <2>5 DEF TapInv, ReceiptsFollow
  <2>8. CallsTold'
    <3>1. /\ witnessed' = skipped' \cup UNION {i.calls : i \in Everything'}
      BY <1>1, <1>6, <2>1, <2>5 DEF TapInv, CallsTold
    <3>2. \A i \in Everything' : i.calls \cap skipped' = {}
      BY <1>3, <1>6, <2>1, <2>5 DEF TapInv, CallsTold
    <3>3. \A i, j \in Everything' : i # j => i.calls \cap j.calls = {}
      <4> SUFFICES ASSUME NEW i \in Everything', NEW j \in Everything', i # j
                   PROVE  i.calls \cap j.calls = {}
        OBVIOUS
      <4>1. CASE i = item
        BY <1>3, <2>1, <2>5, <4>1
      <4>2. CASE j = item
        BY <1>3, <2>1, <2>5, <4>2
      <4>3. CASE i # item /\ j # item
        BY <2>5, <4>3 DEF TapInv, CallsTold
      <4> QED
        BY <4>1, <4>2, <4>3
    <3> QED
      BY <3>1, <3>2, <3>3 DEF CallsTold
  <2> QED
    BY <1>0, <1>2, <2>2, <2>3, <2>5, <2>6, <2>7, <2>8 DEF TapInv, item
<1> QED
  BY <1>1, <1>5, <1>6 DEF Enqueue

\* The summary of the calls skipped, if any.
Summed == IF skipped = {} THEN {} ELSE {Summary(skipped)}

LEMMA PostBufferKeeps ==
    ASSUME TapInv, PostBuffer
    PROVE  TapInv' /\ Everything' = Everything \cup Summed
<1> DEFINE items == IF skipped = {} THEN buffer ELSE <<Summary(skipped)>> \o buffer
           item == Summary(skipped)
<1>1. /\ flushing = "between" /\ eligible = <<>> /\ flushing' = "posted"
      /\ current' = [items |-> items, attempts |-> 0]
      /\ buffer' = <<>> /\ skipped' = {}
      /\ UNCHANGED <<pending, requested, handled, witnessed, eligible, retryQueue,
                     link, succeeded, erred, disturbed, outcome, stored>>
  BY DEF PostBuffer, calls, receipts
<1>2. item \in Item /\ item.calls = skipped
  BY CallsTyped DEF Summary, Item
<1>3. skipped # {} => item \notin Everything
  BY <1>2 DEF TapInv, CallsTold
<1>4. buffer \in Seq(Item) /\ IsInjective(buffer) /\ Range(buffer) \subseteq Everything
  BY DEF TapInv, PlacesApart, Everything
<1>5. /\ items \in Seq(Item) /\ IsInjective(items)
      /\ Range(items) = Range(buffer) \cup Summed
  <2>1. CASE skipped = {}
    BY <1>4, <2>1 DEF Summed
  <2>2. CASE skipped # {}
    <3> DEFINE one == <<item>>
    <3>1. one \in Seq(Item) /\ Range(one) = {item} /\ IsInjective(one)
      BY <1>2 DEF Range, IsInjective
    <3>2. items = one \o buffer
      BY <2>2
    <3>3. Summed = {item}
      BY <2>2 DEF Summed
    <3> HIDE DEF one, items, item
    <3>4. /\ one \o buffer \in Seq(Item)
          /\ Range(one \o buffer) = Range(one) \cup Range(buffer)
          /\ (/\ IsInjective(one) /\ IsInjective(buffer)
              /\ Range(one) \cap Range(buffer) = {}) => IsInjective(one \o buffer)
      BY <1>4, <3>1, ConcatOnce
    <3>5. Range(one) \cap Range(buffer) = {}
      BY <1>3, <1>4, <2>2, <3>1
    <3> QED
      BY <1>4, <3>1, <3>2, <3>3, <3>4, <3>5
  <2> QED
    BY <2>1, <2>2
<1>6. Summed \cap Everything = {}
  BY <1>3 DEF Summed
<1> HIDE DEF items
<1>7. current'.items = items /\ current'.attempts = 0 /\ current' \in Batch
  BY <1>1, <1>5 DEF Batch
<1>8. /\ current = Nothing /\ Range(current.items) = {} /\ Carried(eligible) = {}
      /\ Tried(retryQueue)
  BY <1>1, NothingSent, EmptyQueue DEF TapInv, Sending, FlushShape
<1>9. Settled' = Settled
  BY <1>1 DEF Settled
<1>10. OnItsWay' = OnItsWay \cup Range(buffer) \cup Summed
  BY <1>1, <1>5, <1>7, <1>8 DEF OnItsWay
<1>11. Range(buffer') = {} /\ buffer' \in Seq(Item) /\ IsInjective(buffer')
  BY <1>1, EmptyOnce
<1>12. Everything' = Everything \cup Summed
  BY <1>9, <1>10, <1>11 DEF Everything
<1>13. SendTyped'
  BY <1>1, <1>7 DEF TapInv, Sending, SendTyped, Stages
<1>14. SendApart'
  <2>1. Range(items) \cap Carried(retryQueue) = {}
    BY <1>5, <1>6 DEF TapInv, PlacesApart, Everything, OnItsWay
  <2> QED
    BY <1>1, <1>5, <1>7, <1>8, <2>1 DEF TapInv, Sending, SendApart
<1>15. FlushShape'
  BY <1>1, <1>8, EmptyQueue DEF FlushShape
<1>16. PlacesApart'
  <2>1. Summed \cap Settled = {}
    BY <1>6 DEF Everything
  <2> QED
    BY <1>1, <1>9, <1>10, <1>11, <2>1 DEF TapInv, PlacesApart
<1>17. ReceiptsFollow'
  BY <1>1, <1>12 DEF TapInv, ReceiptsFollow
<1>18. CallsKnown'
  BY <1>1 DEF TapInv, CallsKnown, GivenUp, InOrder, Earlier
<1>19. CallsTold'
  <2>1. CASE skipped = {}
    BY <1>1, <1>12, <2>1 DEF TapInv, CallsTold, Summed
  <2>2. CASE skipped # {}
    <3>1. Everything' = Everything \cup {item}
      BY <1>12, <2>2 DEF Summed
    <3> HIDE DEF item
    <3>2. witnessed' = skipped' \cup UNION {i.calls : i \in Everything'}
      BY <1>1, <1>2, <3>1 DEF TapInv, CallsTold
    <3>3. \A i \in Everything' : i.calls \cap skipped' = {}
      BY <1>1
    <3>4. \A i, j \in Everything' : i # j => i.calls \cap j.calls = {}
      <4> SUFFICES ASSUME NEW i \in Everything', NEW j \in Everything', i # j
                   PROVE  i.calls \cap j.calls = {}
        OBVIOUS
      <4>1. CASE i = item
        BY <1>2, <3>1, <4>1 DEF TapInv, CallsTold
      <4>2. CASE j = item
        BY <1>2, <3>1, <4>2 DEF TapInv, CallsTold
      <4>3. CASE i # item /\ j # item
        BY <3>1, <4>3 DEF TapInv, CallsTold
      <4> QED
        BY <4>1, <4>2, <4>3
    <3> QED
      BY <3>2, <3>3, <3>4 DEF CallsTold
  <2> QED
    BY <2>1, <2>2
<1> QED
  BY <1>1, <1>12, <1>13, <1>14, <1>15, <1>16, <1>17, <1>18, <1>19 DEF TapInv, Sending

-----------------------------------------------------------------------------
(* The invariant holds always *)

LEMMA InitKeeps == Init => TapInv
<1> SUFFICES ASSUME Init PROVE TapInv
  OBVIOUS
<1>1. /\ pending = <<>> /\ requested = <<>> /\ buffer = <<>>
      /\ flushing = "idle" /\ current = Nothing /\ eligible = <<>> /\ retryQueue = <<>>
      /\ link = "open" /\ outcome = [o \in Outcomes |-> {}]
      /\ handled = {} /\ witnessed = {} /\ skipped = {}
      /\ succeeded = {} /\ erred = {} /\ disturbed = {} /\ stored = {}
  BY DEF Init
<1>2. Carried(eligible) = {} /\ Carried(retryQueue) = {} /\ Range(current.items) = {}
  BY <1>1, EmptyQueue, NothingSent
<1>3. /\ OnItsWay = {} /\ Range(buffer) = {} /\ Range(pending) = {}
  BY <1>1, <1>2, EmptyOnce DEF OnItsWay
<1>4. Settled = {}
  BY <1>1 DEF Settled
<1>5. Everything = {}
  BY <1>3, <1>4 DEF Everything
<1>6. MaxBuffer \in Nat /\ MaxRetryBuffer \in Nat
  BY TransportTapAssumption
<1>7. CallsKnown
  <2>1. /\ pending \in Seq(Call) /\ requested \in Seq(Call) /\ Len(pending) = 0
        /\ IsInjective(pending) /\ IsInjective(requested) /\ DOMAIN pending = {}
    BY <1>1, EmptyOnce
  <2> QED
    BY <1>1, <1>3, <1>6, <2>1 DEF CallsKnown, InOrder
<1>8. SendTyped /\ SendApart
  BY <1>1, <1>2, <1>6, EmptyQueue, NothingSent DEF SendTyped, SendApart, Stages
<1>9. FlushShape
  BY <1>1, EmptyQueue DEF FlushShape
<1>10. PlacesApart
  BY <1>1, <1>3, <1>4, EmptyOnce DEF PlacesApart, OutcomesApart
<1>11. CallsTold
  BY <1>1, <1>5 DEF CallsTold
<1>12. ReceiptsFollow
  BY <1>1 DEF ReceiptsFollow, Outcomes
<1> QED
  BY <1>1, <1>7, <1>8, <1>9, <1>10, <1>11, <1>12 DEF TapInv, Sending, Links

\* The steps of which QuietKeeps speaks.
Quiet ==
    \/ TimerFires \/ Flush \/ Close \/ \E i \in DOMAIN retryQueue : Elapse(i)
    \/ Accept \/ PostRetry \/ FindEmpty
    \/ Succeed \/ Refuse \/ Fail \/ FailThrows \/ ReceiptThrows

LEMMA QuietGoesOn ==
    ASSUME TapInv, Quiet
    PROVE  GoesOn /\ UNCHANGED <<calls, skipped>>
<1>1. CASE TimerFires \/ Flush
  <2>1. /\ Begin /\ flushing = "idle" /\ link' = link
        /\ UNCHANGED <<calls, buffer, skipped, receipts, outcome, stored>>
    BY <1>1 DEF TimerFires, Flush
  <2>2. link' \in Links
    BY <2>1 DEF TapInv
  <2> QED
    BY <2>1, <2>2, BeginGoesOn
<1>2. CASE Close
  BY <1>2, CloseGoesOn DEF Close
<1>3. CASE \E i \in DOMAIN retryQueue : Elapse(i)
  BY <1>3, ElapseGoesOn DEF Elapse
<1>4. CASE Accept
  BY <1>4, AcceptGoesOn DEF Accept
<1>5. CASE PostRetry
  BY <1>5, PostRetryGoesOn DEF PostRetry
<1>6. CASE FindEmpty
  BY <1>6, FindEmptyGoesOn DEF FindEmpty
<1>7. CASE Succeed
  BY <1>7, SucceedGoesOn DEF Succeed
<1>8. CASE Refuse
  BY <1>8, RefuseGoesOn DEF Refuse
<1>9. CASE Fail
  BY <1>9, FailGoesOn DEF Fail
<1>10. CASE FailThrows
  BY <1>10, FailThrowsGoesOn DEF FailThrows
<1>11. CASE ReceiptThrows
  BY <1>11, ReceiptThrowsGoesOn DEF ReceiptThrows
<1> QED
  BY <1>1, <1>2, <1>3, <1>4, <1>5, <1>6, <1>7, <1>8, <1>9, <1>10, <1>11 DEF Quiet

\* The kinds of steps.
LEMMA StepKinds ==
    ASSUME Next
    PROVE  \/ \E c \in Call : Request(c) \/ RequestThrows(c)
           \/ \E c \in Call : TappedSend(c)
           \/ PostBuffer
           \/ Quiet
BY DEF Next, Step, Quiet

LEMMA NextKeeps == TapInv /\ [Next]_vars => TapInv'
<1> SUFFICES ASSUME TapInv, [Next]_vars PROVE TapInv'
  OBVIOUS
<1>1. CASE \E c \in Call : Request(c) \/ RequestThrows(c)
  BY <1>1, RequestKeeps, RequestThrowsKeeps
<1>2. CASE \E c \in Call : TappedSend(c)
  BY <1>2, MessageKeeps
<1>3. CASE PostBuffer
  BY <1>3, PostBufferKeeps
<1>4. CASE Quiet
  BY <1>4, QuietGoesOn, QuietKeeps
<1>5. CASE UNCHANGED vars
  <2>1. /\ UNCHANGED <<pending, requested, handled, witnessed>>
        /\ UNCHANGED <<witnessed, buffer, skipped, sending, link, receipts, outcome, stored>>
    BY <1>5 DEF vars, calls
  <2>2. CallsKnown'
    BY <2>1 DEF TapInv, CallsKnown, GivenUp, InOrder, Earlier
  <2> QED
    BY <2>1, <2>2, CallsAlone
<1> QED
  BY <1>1, <1>2, <1>3, <1>4, <1>5, StepKinds

THEOREM TapInvAlways == Spec => []TapInv
<1>1. Spec => Init /\ [][Next]_vars
  BY DEF Spec
<1> QED
  BY <1>1, InitKeeps, NextKeeps, PTL

\* The payloads in memory, one after the other.
LEMMA ItemsAre ==
    ASSUME TapInv
    PROVE  /\ IsInjective(Held) /\ Range(Held) \cap Settled = {}
           /\ Range(Held) \subseteq Item
           /\ Items = Everything
<1> DEFINE b == buffer
           c == current.items
           e == Payloads(eligible)
           r == Payloads(retryQueue)
<1>1. /\ e \in Seq(Item) /\ Range(e) = Carried(eligible) /\ IsInjective(e)
      /\ r \in Seq(Item) /\ Range(r) = Carried(retryQueue) /\ IsInjective(r)
  BY PayloadsOnce DEF TapInv, Sending, SendTyped, SendApart
<1>2. /\ c \in Seq(Item) /\ IsInjective(c)
      /\ b \in Seq(Item) /\ IsInjective(b)
  BY BatchTyped DEF TapInv, Sending, SendTyped, SendApart, PlacesApart
<1>3. /\ Range(c) \cap Range(e) = {} /\ Range(c) \cap Range(r) = {}
      /\ Range(e) \cap Range(r) = {}
  BY <1>1 DEF TapInv, Sending, SendApart
<1>4. OnItsWay = Range(c) \cup Range(e) \cup Range(r)
  BY <1>1 DEF OnItsWay
<1>5. Range(b) \cap OnItsWay = {} /\ Range(b) \cap Settled = {} /\ OnItsWay \cap Settled = {}
  BY DEF TapInv, PlacesApart
<1> DEFINE bc == b \o c
           bce == bc \o e
<1>6. Held = bce \o r
  BY DEF Held
<1> HIDE DEF b, c, e, r
<1>7. bc \in Seq(Item) /\ Range(bc) = Range(b) \cup Range(c) /\ IsInjective(bc)
  BY <1>2, <1>4, <1>5, ConcatOnce
<1> HIDE DEF bc
<1>8. bce \in Seq(Item) /\ Range(bce) = Range(bc) \cup Range(e) /\ IsInjective(bce)
  <2>1. Range(bc) \cap Range(e) = {}
    BY <1>3, <1>4, <1>5, <1>7
  <2> QED
    BY <1>1, <1>7, <2>1, ConcatOnce
<1> HIDE DEF bce
<1>9. /\ Held \in Seq(Item) /\ Range(Held) = Range(bce) \cup Range(r) /\ IsInjective(Held)
  <2>1. Range(bce) \cap Range(r) = {}
    BY <1>3, <1>4, <1>5, <1>7, <1>8
  <2>2. /\ bce \o r \in Seq(Item) /\ Range(bce \o r) = Range(bce) \cup Range(r)
        /\ IsInjective(bce \o r)
    BY <1>1, <1>8, <2>1, ConcatOnce
  <2> QED
    BY <1>6, <2>2
<1>10. Range(Held) = Range(buffer) \cup OnItsWay
  BY <1>4, <1>7, <1>8, <1>9 DEF b
<1>11. Range(Held) \subseteq Item
  BY <1>9, RangeOfSeqTyped
<1>12. Range(Held) \cap Settled = {}
  BY <1>5, <1>10 DEF b
<1>13. Items = Everything
  BY <1>10 DEF Items, Everything
<1> QED
  BY <1>9, <1>11, <1>12, <1>13

LEMMA TypesHold == TapInv => TypeOK
<1> SUFFICES ASSUME TapInv PROVE TypeOK
  OBVIOUS
<1>1. {skipped, handled, witnessed} \subseteq SUBSET Call
  BY CallsTyped
<1>2. /\ pending \in Seq(Call) /\ requested \in Seq(Call) /\ Len(pending) <= MaxBuffer
  BY DEF TapInv, CallsKnown
<1>3. /\ flushing \in Stages /\ current \in Batch /\ link \in Links
      /\ eligible \in Seq(Entry) /\ retryQueue \in Seq(Entry)
      /\ Len(Payloads(retryQueue)) <= MaxRetryBuffer
  BY DEF TapInv, Sending, SendTyped
<1>4. buffer \in Seq(Item) /\ outcome \in [Outcomes -> SUBSET Item]
  BY DEF TapInv, PlacesApart
<1>5. {succeeded, erred, disturbed} \subseteq SUBSET Item
  BY DEF TapInv, ReceiptsFollow
<1>6. stored \subseteq Item
  <2>1. Settled \subseteq Item
    BY <1>4 DEF Settled
  <2>2. Range(Held) \subseteq Item
    BY ItemsAre
  <2> QED
    BY <2>1, <2>2, ItemsAre DEF TapInv, ReceiptsFollow, Items
<1> QED
  BY <1>1, <1>2, <1>3, <1>4, <1>5, <1>6 DEF TypeOK

LEMMA CallsAccounted == TapInv => Accounted
<1> SUFFICES ASSUME TapInv PROVE Accounted
  OBVIOUS
<1>1. ASSUME NEW i \in DOMAIN requested, NEW j \in DOMAIN requested,
             requested[i] \in Range(pending), requested[j] \in GivenUp
      PROVE  j < i
  BY <1>1 DEF TapInv, CallsKnown, Earlier
<1>2. /\ witnessed = skipped \cup UNION {i.calls : i \in Items}
      /\ \A i \in Items : i.calls \cap skipped = {}
      /\ \A i, j \in Items : i # j => i.calls \cap j.calls = {}
  BY ItemsAre DEF TapInv, CallsTold
<1>3. \A o, p \in Outcomes : o # p => outcome[o] \cap outcome[p] = {}
  BY DEF TapInv, PlacesApart, OutcomesApart
<1> QED
  BY <1>1, <1>2, <1>3, ItemsAre DEF Accounted

LEMMA ReceiptsHold == TapInv => ReceiptsTrue
<1> SUFFICES ASSUME TapInv PROVE ReceiptsTrue
  OBVIOUS
<1>1. OutcomesApart(outcome)
  BY DEF TapInv, PlacesApart
<1>2. /\ succeeded \subseteq stored
      /\ succeeded \subseteq outcome["delivered"] \cup disturbed
      /\ erred \subseteq outcome["refused"] \cup outcome["exhausted"] \cup disturbed
  BY DEF TapInv, ReceiptsFollow
<1>3. /\ {"delivered", "refused", "exhausted"} \subseteq Outcomes
      /\ "delivered" # "refused" /\ "delivered" # "exhausted"
  BY DEF Outcomes
<1>4. /\ outcome["delivered"] \cap outcome["refused"] = {}
      /\ outcome["delivered"] \cap outcome["exhausted"] = {}
  BY <1>1, <1>3 DEF OutcomesApart
<1>5. succeeded \cap erred \subseteq disturbed
  BY <1>2, <1>4
<1> QED
  BY <1>2, <1>5 DEF ReceiptsTrue

\* What the tap tracks, buffers, sends and queues is within its bounds and well formed.
THEOREM TapTypeCorrect == Spec => []TypeOK
<1>1. TapInv => TypeOK
  BY TypesHold
<1> QED
  BY <1>1, TapInvAlways, PTL

\* However flushes, retries, evictions and throwing callbacks follow each other, every
\* call the server was given is accounted for once (enqueueWitness, flush, enqueueRetry).
THEOREM AccountedAlways == Spec => []Accounted
<1>1. TapInv => Accounted
  BY CallsAccounted
<1> QED
  BY <1>1, TapInvAlways, PTL

\* A receipt without an error is true, and is contradicted only for an application whose
\* onWitness threw (sendBatch, enqueueRetry).
THEOREM ReceiptsTrueAlways == Spec => []ReceiptsTrue
<1>1. TapInv => ReceiptsTrue
  BY ReceiptsHold
<1> QED
  BY <1>1, TapInvAlways, PTL

-----------------------------------------------------------------------------
(* The tap keeps the delivery promise *)

Dropped == Settled \ outcome["delivered"]

LEMMA CallsOfParts ==
    /\ \A S, T : CallsOf(S \cup T) = CallsOf(S) \cup CallsOf(T)
    /\ \A S, T : S \subseteq T => CallsOf(S) \subseteq CallsOf(T)
    /\ \A S, T : S \cap T = {} => CallsOf(S) \cap CallsOf(T) = {}
    /\ \A S : CallsOf(S) \in SUBSET Call
    /\ CallsOf({}) = {}
BY DEF CallsOf

LEMMA CallsOfItems ==
    /\ \A c \in Call : CallsOf({Witnessed(c)}) = {c}
    /\ CallsOf(Summed) = {}
<1>1. ASSUME NEW c \in Call, NEW d \in Call, Witnessed(c) = Witnessed(d)
      PROVE  c = d
  <2>1. Witnessed(c).calls = {c} /\ Witnessed(d).calls = {d}
    BY DEF Witnessed
  <2> QED
    BY <1>1, <2>1
<1>2. \A c \in Call : Witnessed(c) # Summary(skipped)
  <2> SUFFICES ASSUME NEW c \in Call, Witnessed(c) = Summary(skipped) PROVE FALSE
    OBVIOUS
  <2>1. Witnessed(c).summary = FALSE /\ Summary(skipped).summary = TRUE
    BY DEF Witnessed, Summary
  <2> QED
    BY <2>1
<1> QED
  BY <1>1, <1>2 DEF CallsOf, Summed

LEMMA DeliveryHeld ==
    ASSUME TapInv, Items = Everything
    PROVE  Delivery!Held = CallsOf(Everything) \ CallsOf(Settled)
<1>1. Settled = outcome["delivered"] \cup Dropped
  BY DEF Settled, Dropped, Outcomes
<1>2. CallsOf(Settled) = CallsOf(outcome["delivered"]) \cup CallsOf(Dropped)
  BY <1>1, CallsOfParts
<1> QED
  BY <1>2 DEF Delivery!Held, Dropped

\* What gets an outcome in a step other than delivered is discarded.
LEMMA DiscardStep ==
    ASSUME TapInv, TapInv', Items = Everything, Items' = Everything', GoesOn,
           outcome'["delivered"] = outcome["delivered"], stored' = stored
    PROVE  Delivery!Next
<1> DEFINE del == outcome["delivered"]
           gone == Settled' \ Settled
           S == CallsOf(gone)
<1>1. Everything' = Everything /\ Settled \subseteq Settled' /\ Settled' \subseteq Everything'
  BY DEF GoesOn, Everything
<1>2. del \subseteq Settled
  BY DEF Settled, Outcomes
<1>3. /\ gone \subseteq Everything /\ gone \cap Settled = {}
      /\ Settled' \ outcome'["delivered"] = (Settled \ del) \cup gone
  BY <1>1, <1>2
<1> HIDE DEF gone, del
<1>4. S \subseteq Delivery!Held
  BY <1>3, DeliveryHeld, CallsOfParts
<1>5. CallsOf(Settled' \ outcome'["delivered"]) = CallsOf(Settled \ del) \cup S
  BY <1>3, CallsOfParts
<1>6. Delivery!Decide({}, S)
  BY <1>1, <1>4, <1>5 DEF Delivery!Decide, del
<1>7. S \in SUBSET Call /\ {} \in SUBSET Call
  BY CallsOfParts
<1> QED
  BY <1>6, <1>7 DEF Delivery!Next

\* A step that neither settles nor stores.
LEMMA SameStep ==
    ASSUME Items = Everything, Items' = Everything', UNCHANGED <<outcome, stored>>,
           CallsOf(Everything') = CallsOf(Everything)
    PROVE  UNCHANGED Delivery!vars
<1>1. Settled' = Settled
  BY DEF Settled
<1> QED
  BY <1>1 DEF Delivery!vars

LEMMA AcceptStores ==
    ASSUME TapInv, Items = Everything, Items' = Everything', Accept
    PROVE  Delivery!Next
<1> DEFINE carried == Range(current.items)
           S == CallsOf(carried)
<1>1. stored' = stored \cup carried /\ outcome' = outcome
  BY DEF Accept
<1>2. Everything' = Everything /\ Settled' = Settled
  BY <1>1, AcceptGoesOn DEF GoesOn, Settled
<1>3. carried \subseteq Everything
  BY DEF Everything, OnItsWay
<1> HIDE DEF carried
<1>4. S \subseteq CallsOf(Everything) /\ S \in SUBSET Call
  BY <1>3, CallsOfParts
<1>5. CallsOf(stored') = CallsOf(stored) \cup S
  BY <1>1, CallsOfParts
<1>6. Delivery!Store(S)
  BY <1>1, <1>2, <1>4, <1>5 DEF Delivery!Store
<1> QED
  BY <1>4, <1>6 DEF Delivery!Next

LEMMA SucceedDelivers ==
    ASSUME TapInv, Items = Everything, Items' = Everything', Succeed
    PROVE  Delivery!Next
<1> DEFINE carried == Range(current.items)
           del == outcome["delivered"]
           S == CallsOf(carried)
<1>1. /\ flushing = "reading" /\ Settle("delivered", carried) /\ Conclude
      /\ UNCHANGED <<buffer, eligible, retryQueue, stored>> /\ "delivered" \in Outcomes
  BY DEF Succeed, Outcomes
<1>2. /\ Settles(carried) /\ outcome'["delivered"] = del \cup carried
  BY <1>1, AnsweredSettles
<1>3. Settled' = Settled \cup carried
  BY <1>2 DEF Settles, Settled, Gone
<1>4. /\ carried \subseteq Everything /\ carried \cap Settled = {} /\ carried \subseteq stored
      /\ del \subseteq Settled
  BY <1>1 DEF TapInv, PlacesApart, ReceiptsFollow, Everything, OnItsWay, Settled, Outcomes
<1>5. Everything' = Everything
  BY SucceedGoesOn DEF GoesOn
<1>6. Settled' \ outcome'["delivered"] = Settled \ del
  BY <1>2, <1>3, <1>4
<1> HIDE DEF carried
<1>7. S \subseteq Delivery!Held /\ S \subseteq CallsOf(stored) /\ S \in SUBSET Call
  BY <1>4, DeliveryHeld, CallsOfParts
<1>8. CallsOf(outcome'["delivered"]) = CallsOf(del) \cup S
  BY <1>2, CallsOfParts
<1>9. Delivery!Decide(S, {})
  BY <1>1, <1>5, <1>6, <1>7, <1>8 DEF Delivery!Decide
<1>10. {} \in SUBSET Call
  OBVIOUS
<1> QED
  BY <1>7, <1>9, <1>10 DEF Delivery!Next

LEMMA MessageAccepts ==
    ASSUME TapInv, Items = Everything, Items' = Everything',
           NEW c \in Call, TappedSend(c)
    PROVE  Delivery!Next \/ UNCHANGED Delivery!vars
<1>1. /\ UNCHANGED <<outcome, stored>>
      /\ \/ Everything' = Everything
         \/ /\ Witnessed(c) \notin Everything
            /\ Everything' = Everything \cup {Witnessed(c)}
  BY MessageKeeps
<1>2. CASE Everything' = Everything
  BY <1>1, <1>2, SameStep
<1>3. CASE /\ Witnessed(c) \notin Everything
           /\ Everything' = Everything \cup {Witnessed(c)}
  <2>1. Settled' = Settled
    BY <1>1 DEF Settled
  <2>2. CallsOf(Everything') = CallsOf(Everything) \cup {c}
    <3>1. CallsOf(Everything \cup {Witnessed(c)})
            = CallsOf(Everything) \cup CallsOf({Witnessed(c)})
      BY CallsOfParts
    <3>2. CallsOf({Witnessed(c)}) = {c}
      BY CallsOfItems
    <3> QED
      BY <1>3, <3>1, <3>2
  <2>3. c \notin CallsOf(Everything)
    BY <1>3 DEF CallsOf
  <2>4. Delivery!Accept(c, {})
    BY <1>1, <2>1, <2>2, <2>3 DEF Delivery!Accept
  <2>5. {} \in SUBSET Call
    OBVIOUS
  <2> QED
    BY <2>4, <2>5 DEF Delivery!Next
<1> QED
  BY <1>1, <1>2, <1>3

LEMMA DeliveryStep ==
    TapInv /\ TapInv' /\ Items = Everything /\ Items' = Everything' /\ [Next]_vars
      => [Delivery!Next]_Delivery!vars
<1> SUFFICES ASSUME TapInv, TapInv', Items = Everything, Items' = Everything', [Next]_vars
             PROVE  Delivery!Next \/ UNCHANGED Delivery!vars
  OBVIOUS
<1>1. CASE \E c \in Call : Request(c) \/ RequestThrows(c)
  <2>1. Everything' = Everything
    BY <1>1, RequestKeeps, RequestThrowsKeeps
  <2>2. UNCHANGED <<outcome, stored>>
    BY <1>1 DEF Request, RequestThrows
  <2> QED
    BY <2>1, <2>2, SameStep
<1>2. CASE \E c \in Call : TappedSend(c)
  BY <1>2, MessageAccepts
<1>3. CASE PostBuffer
  <2>1. Everything' = Everything \cup Summed
    BY <1>3, PostBufferKeeps
  <2>2. UNCHANGED <<outcome, stored>>
    BY <1>3 DEF PostBuffer
  <2>3. CallsOf(Everything') = CallsOf(Everything)
    <3>1. CallsOf(Everything \cup Summed) = CallsOf(Everything) \cup CallsOf(Summed)
      BY CallsOfParts
    <3>2. CallsOf(Summed) = {}
      BY CallsOfItems
    <3> QED
      BY <2>1, <3>1, <3>2
  <2> QED
    BY <2>2, <2>3, SameStep
<1>4. CASE Quiet
  <2>1. GoesOn
    BY <1>4, QuietGoesOn
  <2>2. CASE TimerFires \/ Flush \/ Close \/ PostRetry \/ FindEmpty
             \/ \E i \in DOMAIN retryQueue : Elapse(i)
    <3>1. UNCHANGED <<outcome, stored>>
      BY <2>2 DEF TimerFires, Flush, Close, PostRetry, FindEmpty, Elapse
    <3> QED
      BY <2>1, <3>1, SameStep DEF GoesOn
  <2>3. CASE Accept
    BY <2>3, AcceptStores
  <2>4. CASE Succeed
    BY <2>4, SucceedDelivers
  <2>5. CASE Refuse \/ Fail \/ FailThrows \/ ReceiptThrows
    <3>1. outcome'["delivered"] = outcome["delivered"]
      BY <2>5, RefuseGoesOn, FailGoesOn, FailThrowsGoesOn, ReceiptThrowsGoesOn
    <3>2. stored' = stored
      BY <2>5 DEF Refuse, Fail, FailThrows, ReceiptThrows
    <3> QED
      BY <2>1, <3>1, <3>2, DiscardStep
  <2> QED
    BY <1>4, <2>2, <2>3, <2>4, <2>5 DEF Quiet
<1>5. CASE UNCHANGED vars
  <2>1. UNCHANGED <<buffer, flushing, current, eligible, retryQueue, outcome, stored>>
    BY <1>5 DEF vars, sending
  <2>2. Everything' = Everything
    BY <2>1 DEF Everything, OnItsWay, Settled
  <2> QED
    BY <2>1, <2>2, SameStep
<1> QED
  BY <1>1, <1>2, <1>3, <1>4, <1>5, StepKinds

LEMMA DeliveryInit == Init => Delivery!Init
<1> SUFFICES ASSUME Init PROVE Delivery!Init
  OBVIOUS
<1>1. outcome = [o \in Outcomes |-> {}] /\ stored = {} /\ buffer = <<>>
      /\ eligible = <<>> /\ retryQueue = <<>> /\ current = Nothing
  BY DEF Init
<1>2. Settled = {} /\ outcome["delivered"] = {}
  BY <1>1 DEF Settled, Outcomes
<1>3. Everything = {}
  BY <1>1, <1>2, EmptyQueue, EmptyOnce, NothingSent DEF Everything, OnItsWay
<1>4. Items = {}
  BY <1>3, InitKeeps, ItemsAre
<1>5. Settled \ outcome["delivered"] = {}
  BY <1>2
<1> QED
  BY <1>1, <1>2, <1>4, <1>5, CallsOfParts DEF Delivery!Init

\* The payload of a call is delivered or discarded once, and delivered only if the
\* endpoint has it (middleware.ts: enqueueWitness, flush, sendBatch, enqueueRetry).
THEOREM TapImplementsDelivery == Spec => DeliverySpec
<1>1. TapInv => Items = Everything
  BY ItemsAre
<1>2. TapInv /\ TapInv' /\ Items = Everything /\ (Items = Everything)' /\ [Next]_vars
        => [Delivery!Next]_Delivery!vars
  BY DeliveryStep
<1> QED
  BY <1>1, <1>2, DeliveryInit, TapInvAlways, PTL DEF Spec, DeliverySpec, Delivery!Spec

-----------------------------------------------------------------------------
(* The loops over a batch and over the entries that are too old *)

\* The greatest of some numbers.
LEMMA GreatestIs ==
    ASSUME NEW T, T \subseteq Nat, NEW x \in T, \A y \in T : y <= x
    PROVE  Max(T) = x
<1> DEFINE Great(z) == \A y \in T : z >= y
<1>1. Great(x)
  OBVIOUS
<1>2. \A z \in T : Great(z) => z = x
  OBVIOUS
<1> QED
  BY <1>1, <1>2 DEF Max

\* The last of the first n numbers, and what is left without it.
LEMMA LastOfFirst ==
    ASSUME NEW n \in Nat \ {0}
    PROVE  /\ Max(1..n) = n
           /\ (1..n) \ {n} = 1..(n - 1)
<1>1. 1..n \subseteq Nat /\ n \in 1..n /\ \A y \in 1..n : y <= n
  OBVIOUS
<1>2. Max(1..n) = n
  BY <1>1, GreatestIs
<1> QED
  BY <1>2

\* IndexAll: the index after each message of the batch.
IndexSteps(F, base, good, n) ==
    /\ F[0] = base /\ F[n] = IndexAll(base, good)
    /\ \A m \in 1..n : F[m] = IndexEntry(F[m - 1], good[m])

\* Indexing the messages of a reply one by one: there is a function that says what has
\* been indexed after each of them.
LEMMA IndexedOneByOne ==
    ASSUME NEW base, NEW n \in Nat, NEW good, DOMAIN good = 1..n
    PROVE  \E F : IndexSteps(F, base, good, n)
<1> DEFINE Turn(f, T) == IF T = {} THEN base
                         ELSE IndexEntry(f[T \ {Max(T)}], good[Max(T)])
           Over(m, f) == f = [T \in SUBSET (1..m) |-> Turn(f, T)]
           G == {m \in Nat : \E f : Over(m, f)}
<1>1. IndexAll(base, good) = (CHOOSE f : Over(n, f))[1..n]
  <2>1. DOMAIN good = 1..n
    OBVIOUS
  <2> QED
    BY <2>1 DEF IndexAll, FoldLeft, MapThenFoldSet
<1>2. 0 \in G
  <2>1. Over(0, [T \in SUBSET (1..0) |-> base])
    OBVIOUS
  <2> QED
    BY <2>1
<1>3. ASSUME NEW m \in Nat, m \in G PROVE m + 1 \in G
  <2>1. PICK f : Over(m, f)
    BY <1>3
  <2> DEFINE g == [T \in SUBSET (1..(m + 1)) |->
                      IF m + 1 \in T THEN Turn(f, T) ELSE f[T]]
  <2>2. ASSUME NEW T \in SUBSET (1..(m + 1)), m + 1 \notin T
        PROVE  T \in SUBSET (1..m) /\ g[T] = Turn(g, T)
    <3>1. T \in SUBSET (1..m)
      BY <2>2
    <3>2. g[T] = Turn(f, T)
      <4>1. g[T] = f[T]
        BY <2>2
      <4> HIDE DEF Turn, g
      <4> QED
        BY <2>1, <3>1, <4>1
    <3>3. CASE T = {}
      <4> HIDE DEF g
      <4> QED
        BY <3>1, <3>2, <3>3
    <3>4. CASE T # {}
      <4> DEFINE R == T \ {Max(T)}
      <4>1. R \in SUBSET (1..m) /\ R \in SUBSET (1..(m + 1)) /\ m + 1 \notin R
        BY <2>2, <3>1
      <4>2. g[R] = f[R]
        BY <4>1
      <4> HIDE DEF g
      <4> QED
        BY <3>1, <3>2, <3>4, <4>2
    <3> QED
      BY <3>1, <3>3, <3>4
  <2>3. ASSUME NEW T \in SUBSET (1..(m + 1)), m + 1 \in T
        PROVE  g[T] = Turn(g, T)
    <3> DEFINE R == T \ {Max(T)}
    <3>1. Max(T) = m + 1
      <4>1. T \subseteq Nat /\ m + 1 \in T /\ \A y \in T : y <= m + 1
        BY <2>3
      <4> QED
        BY <4>1, GreatestIs
    <3>2. R \in SUBSET (1..m) /\ R \in SUBSET (1..(m + 1)) /\ m + 1 \notin R
      BY <3>1
    <3>3. g[R] = f[R] /\ g[T] = Turn(f, T) /\ T # {}
      BY <2>3, <3>2
    <3> HIDE DEF g
    <3> QED
      BY <3>3
  <2>4. Over(m + 1, g)
    <3>1. \A T \in SUBSET (1..(m + 1)) : g[T] = Turn(g, T)
      BY <2>2, <2>3
    <3>2. g = [T \in SUBSET (1..(m + 1)) |-> g[T]]
      OBVIOUS
    <3> HIDE DEF g, Turn
    <3> QED
      BY <3>1, <3>2
  <2> HIDE DEF Over, g
  <2>5. m + 1 \in Nat /\ \E h : Over(m + 1, h)
    BY <2>4
  <2> QED
    BY <2>5
<1>4. n \in G
  <2> HIDE DEF G
  <2> QED
    BY <1>2, <1>3, SetInduction
<1>5. PICK f : Over(n, f) /\ f = CHOOSE h : Over(n, h)
  BY <1>4
<1> DEFINE F == [m \in 0..n |-> f[1..m]]
<1>6. F[0] = base /\ F[n] = f[1..n]
  <2>1. 1..0 = {} /\ {} \in SUBSET (1..n)
    OBVIOUS
  <2>2. f[{}] = base
    BY <1>5, <2>1
  <2> QED
    BY <2>1, <2>2
<1>7. ASSUME NEW m \in 1..n PROVE F[m] = IndexEntry(F[m - 1], good[m])
  <2>1. m \in Nat \ {0} /\ m - 1 \in 0..n /\ m \in 0..n
    OBVIOUS
  <2>4. Max(1..m) = m /\ (1..m) \ {m} = 1..(m - 1)
    BY <2>1, LastOfFirst
  <2>6. m \in 1..m /\ \A i \in 1..m : i \in 1..n
    BY <2>1
  <2>5. 1..m \in SUBSET (1..n) /\ 1..m # {}
    BY <2>6
  <2>2. Max(1..m) = m /\ (1..m) \ {m} = 1..(m - 1) /\ 1..m \in SUBSET (1..n)
        /\ 1..m # {}
    BY <2>4, <2>5
  <2>3. f[1..m] = Turn(f, 1..m)
    <3> HIDE DEF Turn
    <3> QED
      BY <1>5, <2>2
  <2> QED
    BY <2>1, <2>2, <2>3
<1>8. IndexSteps(F, base, good, n)
  BY <1>1, <1>5, <1>6, <1>7 DEF IndexSteps
<1> QED
  BY <1>8

\* RemoveAll: the index after each entry is removed.
RemoveSteps(F, base, n) ==
    /\ F[0] = base /\ F[n] = RemoveAll(base, n)
    /\ \A m \in 1..n : F[m] = RemoveOldest(F[m - 1])

\* Evicting oldest entries one by one, likewise.
LEMMA RemovedOneByOne ==
    ASSUME NEW base, NEW n \in Nat
    PROVE  \E F : RemoveSteps(F, base, n)
<1> DEFINE Turn(f, T) == IF T = {} THEN base
                         ELSE RemoveOldest(f[T \ {Max(T)}])
           Over(m, f) == f = [T \in SUBSET (1..m) |-> Turn(f, T)]
           G == {m \in Nat : \E f : Over(m, f)}
<1>1. RemoveAll(base, n) = (CHOOSE f : Over(n, f))[1..n]
  <2>1. DOMAIN [i \in 1..n |-> i] = 1..n
    OBVIOUS
  <2> QED
    BY <2>1 DEF RemoveAll, FoldLeft, MapThenFoldSet
<1>2. 0 \in G
  <2>1. Over(0, [T \in SUBSET (1..0) |-> base])
    OBVIOUS
  <2> QED
    BY <2>1
<1>3. ASSUME NEW m \in Nat, m \in G PROVE m + 1 \in G
  <2>1. PICK f : Over(m, f)
    BY <1>3
  <2> DEFINE g == [T \in SUBSET (1..(m + 1)) |->
                      IF m + 1 \in T THEN Turn(f, T) ELSE f[T]]
  <2>2. ASSUME NEW T \in SUBSET (1..(m + 1)), m + 1 \notin T
        PROVE  T \in SUBSET (1..m) /\ g[T] = Turn(g, T)
    <3>1. T \in SUBSET (1..m)
      BY <2>2
    <3>2. g[T] = Turn(f, T)
      <4>1. g[T] = f[T]
        BY <2>2
      <4> HIDE DEF Turn, g
      <4> QED
        BY <2>1, <3>1, <4>1
    <3>3. CASE T = {}
      <4> HIDE DEF g
      <4> QED
        BY <3>1, <3>2, <3>3
    <3>4. CASE T # {}
      <4> DEFINE R == T \ {Max(T)}
      <4>1. R \in SUBSET (1..m) /\ R \in SUBSET (1..(m + 1)) /\ m + 1 \notin R
        BY <2>2, <3>1
      <4>2. g[R] = f[R]
        BY <4>1
      <4> HIDE DEF g
      <4> QED
        BY <3>1, <3>2, <3>4, <4>2
    <3> QED
      BY <3>1, <3>3, <3>4
  <2>3. ASSUME NEW T \in SUBSET (1..(m + 1)), m + 1 \in T
        PROVE  g[T] = Turn(g, T)
    <3> DEFINE R == T \ {Max(T)}
    <3>1. Max(T) = m + 1
      <4>1. T \subseteq Nat /\ m + 1 \in T /\ \A y \in T : y <= m + 1
        BY <2>3
      <4> QED
        BY <4>1, GreatestIs
    <3>2. R \in SUBSET (1..m) /\ R \in SUBSET (1..(m + 1)) /\ m + 1 \notin R
      BY <3>1
    <3>3. g[R] = f[R] /\ g[T] = Turn(f, T) /\ T # {}
      BY <2>3, <3>2
    <3> HIDE DEF g
    <3> QED
      BY <3>3
  <2>4. Over(m + 1, g)
    <3>1. \A T \in SUBSET (1..(m + 1)) : g[T] = Turn(g, T)
      BY <2>2, <2>3
    <3>2. g = [T \in SUBSET (1..(m + 1)) |-> g[T]]
      OBVIOUS
    <3> HIDE DEF g, Turn
    <3> QED
      BY <3>1, <3>2
  <2> HIDE DEF Over, g
  <2>5. m + 1 \in Nat /\ \E h : Over(m + 1, h)
    BY <2>4
  <2> QED
    BY <2>5
<1>4. n \in G
  <2> HIDE DEF G
  <2> QED
    BY <1>2, <1>3, SetInduction
<1>5. PICK f : Over(n, f) /\ f = CHOOSE h : Over(n, h)
  BY <1>4
<1> DEFINE F == [m \in 0..n |-> f[1..m]]
<1>6. F[0] = base /\ F[n] = f[1..n]
  <2>1. 1..0 = {} /\ {} \in SUBSET (1..n)
    OBVIOUS
  <2>2. f[{}] = base
    BY <1>5, <2>1
  <2> QED
    BY <2>1, <2>2
<1>7. ASSUME NEW m \in 1..n PROVE F[m] = RemoveOldest(F[m - 1])
  <2>1. m \in Nat \ {0} /\ m - 1 \in 0..n /\ m \in 0..n
    OBVIOUS
  <2>4. Max(1..m) = m /\ (1..m) \ {m} = 1..(m - 1)
    BY <2>1, LastOfFirst
  <2>6. m \in 1..m /\ \A i \in 1..m : i \in 1..n
    BY <2>1
  <2>5. 1..m \in SUBSET (1..n) /\ 1..m # {}
    BY <2>6
  <2>2. Max(1..m) = m /\ (1..m) \ {m} = 1..(m - 1) /\ 1..m \in SUBSET (1..n)
        /\ 1..m # {}
    BY <2>4, <2>5
  <2>3. f[1..m] = Turn(f, 1..m)
    <3> HIDE DEF Turn
    <3> QED
      BY <1>5, <2>2
  <2> QED
    BY <2>1, <2>2, <2>3
<1>8. RemoveSteps(F, base, n)
  BY <1>1, <1>5, <1>6, <1>7 DEF RemoveSteps
<1> QED
  BY <1>8

-----------------------------------------------------------------------------
(* What a list picks of the entries, when an entry comes and when one goes *)

\* f lists the numbers of keep in their order.
Enumerates(f, m, keep) ==
    /\ f \in [1..m -> keep]
    /\ \A i, j \in 1..m : i < j => f[i] < f[j]
    /\ \A p \in keep : \E i \in 1..m : f[i] = p

\* Picked by a listing of the positions.
LEMMA PickedIs ==
    ASSUME NEW S, NEW s \in Seq(S), NEW keep, keep \subseteq DOMAIN s,
           NEW m \in Nat, NEW f, Enumerates(f, m, keep)
    PROVE  /\ Picked(s, keep) \in Seq(S) /\ Len(Picked(s, keep)) = m
           /\ \A k \in 1..m : Picked(s, keep)[k] = s[f[k]]
<1>0. \A p \in keep : p \in Nat
  BY LenProperties
<1>1. /\ f \in [1..m -> keep] /\ \A i \in 1..m : f[i] \in keep /\ f[i] \in Nat
      /\ \A i, j \in 1..m : i < j => f[i] < f[j]
      /\ \A p \in keep : \E i \in 1..m : f[i] = p
  BY <1>0 DEF Enumerates
<1>2. \A i, j \in 1..m : f[i] <= f[j] <=> i <= j
  <2> SUFFICES ASSUME NEW i \in 1..m, NEW j \in 1..m PROVE f[i] <= f[j] <=> i <= j
    OBVIOUS
  <2>1. (i < j => f[i] < f[j]) /\ (j < i => f[j] < f[i]) /\ f[i] \in Nat /\ f[j] \in Nat
    BY <1>1
  <2>2. i \in Nat /\ j \in Nat
    OBVIOUS
  <2>3. i = j => f[i] = f[j]
    OBVIOUS
  <2> QED
    BY <2>1, <2>2, <2>3
<1>3. ASSUME NEW k \in 1..m PROVE Rank(keep, f[k]) = k
  <2> DEFINE T == {p \in keep : p <= f[k]}
             g == [i \in 1..k |-> f[i]]
  <2>1. k \in Nat /\ 1..k \subseteq 1..m
    OBVIOUS
  <2>2. g \in Bijection(1..k, T)
    <3>1. g \in [1..k -> T]
      BY <1>1, <1>2, <2>1
    <3>2. ASSUME NEW i \in 1..k, NEW j \in 1..k, g[i] = g[j] PROVE i = j
      <4>1. i \in 1..m /\ j \in 1..m /\ f[i] = f[j] /\ f[i] \in Nat
        BY <1>1, <2>1, <3>2
      <4>2. i <= j /\ j <= i
        BY <1>2, <4>1
      <4> QED
        BY <4>2
    <3>3. ASSUME NEW p \in T PROVE \E i \in 1..k : g[i] = p
      <4>1. PICK i \in 1..m : f[i] = p
        BY <1>1
      <4>2. i <= k
        BY <1>2, <4>1
      <4> QED
        BY <4>1, <4>2
    <3> HIDE DEF g, T
    <3> QED
      BY <3>1, <3>2, <3>3 DEF Bijection, Injection, Surjection, IsInjective
  <2>3. IsFiniteSet(1..k) /\ Cardinality(1..k) = k
    BY <2>1, FS_Interval
  <2> HIDE DEF g
  <2>4. Cardinality(T) = k
    BY <2>2, <2>3, FS_Bijection DEF ExistsBijection
  <2> QED
    BY <2>4 DEF Rank
<1>4. Cardinality(keep) = m
  <2>1. f \in Bijection(1..m, keep)
    <3>1. ASSUME NEW i \in 1..m, NEW j \in 1..m, f[i] = f[j] PROVE i = j
      <4>1. i <= j /\ j <= i
        BY <1>1, <1>2, <3>1
      <4> QED
        BY <4>1
    <3> QED
      BY <1>1, <3>1 DEF Bijection, Injection, Surjection, IsInjective
  <2>2. IsFiniteSet(1..m) /\ Cardinality(1..m) = m
    BY FS_Interval
  <2> QED
    BY <2>1, <2>2, FS_Bijection DEF ExistsBijection
<1>5. ASSUME NEW k \in 1..m PROVE (CHOOSE i \in keep : Rank(keep, i) = k) = f[k]
  <2>1. ASSUME NEW p \in keep, Rank(keep, p) = k PROVE p = f[k]
    <3>1. PICK i \in 1..m : f[i] = p
      BY <1>1
    <3>2. i = k
      BY <1>3, <2>1, <3>1
    <3> QED
      BY <3>1, <3>2
  <2> QED
    BY <1>1, <1>3, <2>1
<1>6. Picked(s, keep) = [k \in 1..m |-> s[CHOOSE i \in keep : Rank(keep, i) = k]]
  BY <1>4 DEF Picked
<1>7. \A k \in 1..m : Picked(s, keep)[k] = s[f[k]]
  BY <1>5, <1>6
<1>8. Picked(s, keep) \in Seq(S) /\ Len(Picked(s, keep)) = m
  BY <1>4, PickedElements
<1> QED
  BY <1>7, <1>8

\* Every set of positions has a listing.
LEMMA ListingExists ==
    ASSUME NEW n \in Nat, NEW keep \in SUBSET (1..n)
    PROVE  \E m \in Nat : \E f : Enumerates(f, m, keep)
<1> DEFINE m == Cardinality(keep)
           f == [k \in 1..m |-> CHOOSE i \in keep : Rank(keep, i) = k]
<1>1. /\ m \in Nat /\ \A i \in keep : Rank(keep, i) \in 1..m
      /\ \A i, j \in keep : i < j => Rank(keep, i) < Rank(keep, j)
  BY RankGrows
<1>0. \A p \in keep : p \in Nat
  OBVIOUS
<1>2. \A k \in 1..m : \E i \in keep : Rank(keep, i) = k
  BY RankReached
<1>3. \A k \in 1..m : f[k] \in keep /\ Rank(keep, f[k]) = k
  BY <1>2
<1>4. f \in [1..m -> keep]
  BY <1>3
<1> HIDE DEF f
<1>5. ASSUME NEW i \in 1..m, NEW j \in 1..m, i < j PROVE f[i] < f[j]
  <2>1. f[i] \in Nat /\ f[j] \in Nat /\ f[i] # f[j] /\ ~(f[j] < f[i])
    <3>1. f[i] \in keep /\ f[j] \in keep /\ Rank(keep, f[i]) = i /\ Rank(keep, f[j]) = j
      BY <1>3
    <3>2. i \in Int /\ j \in Int /\ ~(j < i) /\ i # j
      BY <1>1, <1>5
    <3> QED
      BY <1>0, <1>1, <3>1, <3>2
  <2> QED
    BY <2>1
<1>6. ASSUME NEW p \in keep PROVE \E i \in 1..m : f[i] = p
  <2> DEFINE i == Rank(keep, p)
  <2>1. i \in 1..m /\ f[i] \in keep /\ Rank(keep, f[i]) = i
    BY <1>1, <1>3
  <2>2. f[i] = p
    <3>1. f[i] \in Nat /\ p \in Nat /\ ~(Rank(keep, p) < Rank(keep, p))
      <4>1. i \in Int
        BY <2>1
      <4>2. ~(i < i)
        BY <4>1
      <4>3. f[i] \in Nat /\ p \in Nat
        BY <1>0, <2>1
      <4> QED
        BY <4>2, <4>3
    <3>2. ~(f[i] < p) /\ ~(p < f[i])
      BY <1>1, <2>1, <3>1
    <3> QED
      BY <3>1, <3>2
  <2> QED
    BY <2>1, <2>2
<1> QED
  BY <1>1, <1>4, <1>5, <1>6 DEF Enumerates

\* Without the first position.
LEMMA PickedFirstGone ==
    ASSUME NEW S, NEW s \in Seq(S), s # <<>>, NEW keep, keep \subseteq DOMAIN s
    PROVE  Picked(Tail(s), {i \in 1..(Len(s) - 1) : i + 1 \in keep})
              = IF 1 \in keep THEN Tail(Picked(s, keep)) ELSE Picked(s, keep)
<1> DEFINE n == Len(s)
           left == {i \in 1..(n - 1) : i + 1 \in keep}
<1>1. /\ n \in Nat \ {0} /\ keep \in SUBSET (1..n) /\ left \in SUBSET (1..(n - 1))
      /\ n - 1 \in Nat /\ \A i \in 1..(n - 1) : Tail(s)[i] = s[i + 1]
  BY LenProperties, HeadTailProperties
<1>0. PICK m \in Nat : \E f : Enumerates(f, m, keep)
  BY <1>1, ListingExists
<1>2. PICK f : Enumerates(f, m, keep)
  BY <1>0
<1>3. /\ f \in [1..m -> keep] /\ \A i \in 1..m : f[i] \in keep
      /\ \A i, j \in 1..m : i < j => f[i] < f[j]
      /\ \A p \in keep : \E i \in 1..m : f[i] = p
  BY <1>2 DEF Enumerates
<1>4. \A p \in keep : p \in 1..n
  BY <1>1
<1> DEFINE r == Picked(s, keep)
           q == Picked(Tail(s), left)
<1>5. r \in Seq(S) /\ Len(r) = m /\ \A k \in 1..m : r[k] = s[f[k]]
  BY <1>2, PickedIs
<1>6. Tail(s) \in Seq(S) /\ left \subseteq DOMAIN Tail(s)
  BY <1>1, LenProperties, HeadTailProperties
<1> HIDE DEF n, left, r, q
<1>7. CASE 1 \in keep
  <2>1. m >= 1 /\ f[1] = 1
    <3>1. PICK i \in 1..m : f[i] = 1
      BY <1>3, <1>7
    <3>2. i \in Nat /\ 1 \in 1..m /\ i >= 1 /\ m >= 1
      OBVIOUS
    <3>3. f[1] \in 1..n /\ (1 < i => f[1] < f[i])
      BY <1>3, <1>4, <3>2
    <3>4. ~(1 < i)
      BY <3>1, <3>3
    <3> QED
      BY <3>1, <3>2, <3>4
  <2> DEFINE g == [k \in 1..(m - 1) |-> f[k + 1] - 1]
  <2>2. \A k \in 1..(m - 1) : /\ k + 1 \in 1..m /\ f[k + 1] \in keep
                              /\ f[k + 1] \in 2..n /\ g[k] = f[k + 1] - 1 /\ g[k] \in left
    <3> TAKE k \in 1..(m - 1)
    <3>1. k + 1 \in 1..m /\ 1 \in 1..m /\ 1 < k + 1
      BY <2>1
    <3>2. f[k + 1] \in keep /\ f[k + 1] \in 1..n /\ 1 < f[k + 1]
      BY <1>3, <1>4, <2>1, <3>1
    <3>3. f[k + 1] - 1 \in 1..(n - 1) /\ (f[k + 1] - 1) + 1 = f[k + 1] /\ f[k + 1] \in 2..n
      BY <1>1, <3>2
    <3> QED
      BY <3>1, <3>2, <3>3 DEF left
  <2>3. Enumerates(g, m - 1, left)
    <3>1. g \in [1..(m - 1) -> left]
      BY <2>2
    <3> HIDE DEF g
    <3>2. ASSUME NEW i \in 1..(m - 1), NEW j \in 1..(m - 1), i < j PROVE g[i] < g[j]
      <4>1. f[i + 1] < f[j + 1] /\ f[i + 1] \in 2..n /\ f[j + 1] \in 2..n
        <5>1. i + 1 \in 1..m /\ j + 1 \in 1..m /\ i + 1 < j + 1
          BY <2>2, <3>2
        <5> QED
          BY <1>3, <2>2, <5>1
      <4> QED
        BY <2>2, <4>1
    <3>3. ASSUME NEW p \in left PROVE \E i \in 1..(m - 1) : g[i] = p
      <4>1. p + 1 \in keep /\ p \in Nat /\ p >= 1
        BY <1>1 DEF left
      <4>2. PICK i \in 1..m : f[i] = p + 1
        BY <1>3, <4>1
      <4>3. i # 1
        BY <2>1, <4>1, <4>2
      <4>4. i - 1 \in 1..(m - 1) /\ (i - 1) + 1 = i
        BY <4>3
      <4>5. g[i - 1] = f[(i - 1) + 1] - 1
        BY <2>2, <4>4
      <4>6. g[i - 1] = p
        BY <4>1, <4>2, <4>4, <4>5
      <4> QED
        BY <4>4, <4>6
    <3> QED
      BY <3>1, <3>2, <3>3 DEF Enumerates
  <2> HIDE DEF g
  <2>4. q \in Seq(S) /\ Len(q) = m - 1 /\ \A k \in 1..(m - 1) : q[k] = Tail(s)[g[k]]
    <3> DEFINE t == Tail(s)
               l == m - 1
    <3>1. t \in Seq(S) /\ left \subseteq DOMAIN t /\ l \in Nat /\ Enumerates(g, l, left)
      BY <1>6, <2>1, <2>3
    <3> HIDE DEF t, l
    <3>2. /\ Picked(t, left) \in Seq(S) /\ Len(Picked(t, left)) = l
          /\ \A k \in 1..l : Picked(t, left)[k] = t[g[k]]
      BY <3>1, PickedIs
    <3> QED
      BY <3>2 DEF q, t, l
  <2>5. ASSUME NEW k \in 1..(m - 1) PROVE q[k] = r[k + 1]
    <3>1. g[k] \in 1..(n - 1) /\ g[k] + 1 = f[k + 1] /\ k + 1 \in 1..m
      BY <2>2 DEF left
    <3>2. Tail(s)[g[k]] = s[f[k + 1]]
      BY <1>1, <3>1
    <3>3. r[k + 1] = s[f[k + 1]]
      BY <1>5, <3>1
    <3>4. q[k] = Tail(s)[g[k]]
      BY <2>4
    <3> QED
      BY <3>2, <3>3, <3>4
  <2>6. /\ Tail(r) \in Seq(S) /\ Len(Tail(r)) = m - 1
        /\ \A k \in 1..(m - 1) : Tail(r)[k] = r[k + 1]
    <3>1. r # <<>>
      BY <1>5, <2>1
    <3> QED
      BY <1>5, <3>1, HeadTailProperties
  <2>7. q = Tail(r)
    BY <2>4, <2>5, <2>6, SeqEqual
  <2> QED
    BY <1>7, <2>7 DEF r, q, left, n
<1>8. CASE 1 \notin keep
  <2> DEFINE g == [k \in 1..m |-> f[k] - 1]
  <2>1. \A k \in 1..m : f[k] \in 2..n /\ g[k] = f[k] - 1 /\ g[k] \in left
    <3> TAKE k \in 1..m
    <3>1. f[k] \in keep /\ f[k] \in 1..n /\ f[k] # 1
      BY <1>3, <1>4, <1>8
    <3>2. f[k] - 1 \in 1..(n - 1) /\ (f[k] - 1) + 1 = f[k] /\ f[k] \in 2..n
      BY <1>1, <3>1
    <3> QED
      BY <3>1, <3>2 DEF left
  <2>2. Enumerates(g, m, left)
    <3>1. g \in [1..m -> left]
      BY <2>1
    <3> HIDE DEF g
    <3>2. ASSUME NEW i \in 1..m, NEW j \in 1..m, i < j PROVE g[i] < g[j]
      <4>1. f[i] < f[j] /\ f[i] \in 2..n /\ f[j] \in 2..n
        BY <1>3, <2>1, <3>2
      <4> QED
        BY <2>1, <4>1
    <3>3. ASSUME NEW p \in left PROVE \E i \in 1..m : g[i] = p
      <4>1. p + 1 \in keep /\ p \in Nat
        BY <1>1 DEF left
      <4>2. PICK i \in 1..m : f[i] = p + 1
        BY <1>3, <4>1
      <4> QED
        BY <2>1, <4>1, <4>2
    <3> QED
      BY <3>1, <3>2, <3>3 DEF Enumerates
  <2> HIDE DEF g
  <2>3. q \in Seq(S) /\ Len(q) = m /\ \A k \in 1..m : q[k] = Tail(s)[g[k]]
    <3> DEFINE t == Tail(s)
    <3>1. t \in Seq(S) /\ left \subseteq DOMAIN t /\ m \in Nat /\ Enumerates(g, m, left)
      BY <1>2, <1>6, <2>2
    <3> HIDE DEF t
    <3>2. /\ Picked(t, left) \in Seq(S) /\ Len(Picked(t, left)) = m
          /\ \A k \in 1..m : Picked(t, left)[k] = t[g[k]]
      BY <3>1, PickedIs
    <3> QED
      BY <3>2 DEF q, t
  <2>4. ASSUME NEW k \in 1..m PROVE q[k] = r[k]
    <3>1. g[k] \in 1..(n - 1) /\ g[k] + 1 = f[k]
      BY <2>1 DEF left
    <3> QED
      BY <1>1, <1>5, <2>3, <3>1
  <2>5. q = r
    BY <1>5, <2>3, <2>4, SeqEqual
  <2> QED
    BY <1>8, <2>5 DEF r, q, left, n
<1> QED
  BY <1>7, <1>8

\* With one more position, which is picked or not.
LEMMA PickedOneMore ==
    ASSUME NEW S, NEW s \in Seq(S), NEW e \in S, NEW keep, keep \subseteq DOMAIN s
    PROVE  /\ Picked(Append(s, e), keep) = Picked(s, keep)
           /\ Picked(Append(s, e), keep \cup {Len(s) + 1}) = Append(Picked(s, keep), e)
<1> DEFINE n == Len(s)
           t == Append(s, e)
<1>1. /\ n \in Nat /\ keep \in SUBSET (1..n) /\ Len(t) = n + 1
      /\ t[n + 1] = e /\ \A i \in 1..n : t[i] = s[i]
  BY LenProperties, AppendProperties
<1>20. PICK m \in Nat : \E f : Enumerates(f, m, keep)
  BY <1>1, ListingExists
<1>2. PICK f : Enumerates(f, m, keep)
  BY <1>20
<1>3. /\ f \in [1..m -> keep] /\ \A i \in 1..m : f[i] \in keep /\ f[i] \in 1..n
      /\ \A i, j \in 1..m : i < j => f[i] < f[j]
      /\ \A p \in keep : \E i \in 1..m : f[i] = p
  <2>1. \A p \in keep : p \in 1..n
    BY <1>1
  <2> QED
    BY <1>2, <2>1 DEF Enumerates
<1> DEFINE r == Picked(s, keep)
           q == Picked(t, keep)
<1>4. r \in Seq(S) /\ Len(r) = m /\ \A k \in 1..m : r[k] = s[f[k]]
  BY <1>2, PickedIs
<1>0. t \in Seq(S) /\ DOMAIN t = 1..(n + 1) /\ keep \subseteq DOMAIN t
  BY <1>1, AppendProperties, LenProperties
<1> HIDE DEF n, t, r
<1>5. q = r
  <2>1. q \in Seq(S) /\ Len(q) = m /\ \A k \in 1..m : q[k] = t[f[k]]
    <3>1. t \in Seq(S) /\ keep \subseteq DOMAIN t /\ m \in Nat /\ Enumerates(f, m, keep)
      BY <1>0, <1>2
    <3> HIDE DEF t
    <3> QED
      BY <3>1, PickedIs
  <2> HIDE DEF q
  <2>2. \A k \in 1..m : q[k] = r[k]
    BY <1>1, <1>3, <1>4, <2>1
  <2> QED
    BY <1>4, <2>1, <2>2, SeqEqual
<1> DEFINE more == keep \cup {n + 1}
           g == [k \in 1..(m + 1) |-> IF k = m + 1 THEN n + 1 ELSE f[k]]
<1>6. /\ \A k \in 1..m : k \in 1..(m + 1) /\ g[k] = f[k]
      /\ m + 1 \in 1..(m + 1) /\ g[m + 1] = n + 1
  OBVIOUS
<1>7. Enumerates(g, m + 1, more)
  <2>1. g \in [1..(m + 1) -> more]
    <3>1. \A k \in 1..(m + 1) : k # m + 1 => k \in 1..m
      OBVIOUS
    <3> QED
      BY <1>3, <3>1
  <2> HIDE DEF g
  <2>2. ASSUME NEW i \in 1..(m + 1), NEW j \in 1..(m + 1), i < j PROVE g[i] < g[j]
    <3>1. i \in 1..m
      BY <2>2
    <3>2. CASE j \in 1..m
      BY <1>3, <1>6, <2>2, <3>1, <3>2
    <3>3. CASE j = m + 1
      BY <1>1, <1>3, <1>6, <3>1, <3>3
    <3> QED
      BY <3>2, <3>3
  <2>3. ASSUME NEW p \in more PROVE \E i \in 1..(m + 1) : g[i] = p
    <3>1. CASE p = n + 1
      BY <1>6, <3>1
    <3>2. CASE p \in keep
      <4>1. PICK i \in 1..m : f[i] = p
        BY <1>3, <3>2
      <4> QED
        BY <1>6, <4>1
    <3> QED
      BY <3>1, <3>2
  <2> QED
    BY <2>1, <2>2, <2>3 DEF Enumerates
<1> HIDE DEF g
<1> DEFINE z == Picked(t, more)
           u == Append(r, e)
<1>8. z \in Seq(S) /\ Len(z) = m + 1 /\ \A k \in 1..(m + 1) : z[k] = t[g[k]]
  <2>1. t \in Seq(S) /\ more \subseteq DOMAIN t /\ m + 1 \in Nat /\ Enumerates(g, m + 1, more)
    BY <1>1, <1>0, <1>7
  <2> HIDE DEF more
  <2> QED
    BY <2>1, PickedIs
<1>9. /\ u \in Seq(S) /\ Len(u) = m + 1 /\ u[m + 1] = e
      /\ \A k \in 1..m : u[k] = r[k]
  BY <1>4, AppendProperties
<1> HIDE DEF z, u
<1>10. ASSUME NEW k \in 1..(m + 1) PROVE z[k] = u[k]
  <2>1. CASE k = m + 1
    BY <1>1, <1>6, <1>8, <1>9, <2>1
  <2>2. CASE k \in 1..m
    <3>1. u[k] = s[f[k]]
      BY <1>4, <1>9, <2>2
    <3>2. z[k] = t[f[k]]
      BY <1>6, <1>8, <2>2
    <3>3. t[f[k]] = s[f[k]]
      BY <1>1, <1>3, <2>2
    <3> QED
      BY <3>1, <3>2, <3>3
  <2> QED
    BY <2>1, <2>2
<1>11. z = u
  BY <1>8, <1>9, <1>10, SeqEqual
<1> QED
  BY <1>5, <1>11 DEF n, t, r, q, u, z

\* The first element of a list is the one that is removed when it is looked for.
LEMMA RemoveTheFirst ==
    ASSUME NEW S, NEW l \in Seq(S), l # <<>>
    PROVE  RemoveFirst(l, l[1]) = Tail(l)
<1>1. Len(l) \in Nat \ {0} /\ 1 \in 1..Len(l)
  BY LenProperties, EmptySeq
<1> DEFINE I == {i \in 1..Len(l) : l[i] = l[1]}
<1>2. Min(I) = 1
  <2>1. 1 \in I /\ \A i \in I : 1 <= i /\ i \in Nat
    BY <1>1
  <2> HIDE DEF I
  <2>2. \A z \in I : (\A y \in I : z <= y) => z = 1
    BY <2>1
  <2> QED
    BY <2>1, <2>2 DEF Min
<1>3. SelectInSeq(l, LAMBDA v : v = l[1]) = 1
  <2>1. I # {}
    BY <1>1
  <2> QED
    BY <1>2, <2>1 DEF SelectInSeq
<1>4. RemoveFirst(l, l[1]) = RemoveAt(l, 1)
  BY <1>1, <1>3 DEF RemoveFirst
<1>5. SubSeq(l, 1, 1 - 1) = <<>> /\ SubSeq(l, 1 + 1, Len(l)) = Tail(l)
  BY <1>1
<1>6. Tail(l) \in Seq(S)
  BY HeadTailProperties
<1> QED
  BY <1>4, <1>5, <1>6 DEF RemoveAt

\* If the first position is picked, its element comes first.
LEMMA PickedFirst ==
    ASSUME NEW S, NEW s \in Seq(S), NEW keep, keep \subseteq DOMAIN s, 1 \in keep
    PROVE  /\ Picked(s, keep) \in Seq(S) /\ Picked(s, keep) # <<>>
           /\ Picked(s, keep)[1] = s[1]
<1> DEFINE r == Picked(s, keep)
<1>1. /\ r \in Seq(S)
      /\ Rank(keep, 1) \in 1..Len(r) /\ r[Rank(keep, 1)] = s[1]
  BY PickedElements
<1>2. Rank(keep, 1) = 1
  <2>1. \A j \in keep : j \in Nat /\ j >= 1
    BY LenProperties
  <2>2. {j \in keep : j <= 1} = {1}
    BY <2>1
  <2> QED
    BY <2>2, FS_Singleton DEF Rank
<1> HIDE DEF r
<1>3. r # <<>>
  BY <1>1, <1>2
<1> QED
  BY <1>1, <1>2, <1>3 DEF r

\* One list of the index, of the entries at keep, without the first entry.
LEMMA ListWithoutFirst ==
    ASSUME NEW S, NEW s \in Seq(S), s # <<>>, NEW keep, keep \subseteq DOMAIN s
    PROVE  Picked(Tail(s), {i \in 1..(Len(s) - 1) : i + 1 \in keep})
              = IF 1 \in keep THEN RemoveFirst(Picked(s, keep), s[1]) ELSE Picked(s, keep)
<1>1. ASSUME 1 \in keep PROVE Tail(Picked(s, keep)) = RemoveFirst(Picked(s, keep), s[1])
  <2>1. /\ Picked(s, keep) \in Seq(S) /\ Picked(s, keep) # <<>>
        /\ Picked(s, keep)[1] = s[1]
    BY <1>1, PickedFirst
  <2> QED
    BY <2>1, RemoveTheFirst
<1> QED
  BY <1>1, PickedFirstGone

-----------------------------------------------------------------------------
(* The three lists of an index *)

\* An entry of an index, the names the lists are kept under, and the index of a server.
Given == [id : Nat, at : Nat]
AgentNames == Agents \cup {NoOne}
CycleNames == Cycles \cup {NoOne}
Index == [entries : Seq(Given), byAgent : [AgentNames -> Seq(Nat)],
          byCycle : [CycleNames -> Seq(Nat)]]

\* The messages of some entries, and where those of an agent or of a cycle are.
Ids(es) == [i \in DOMAIN es |-> es[i].id]
OfAgent(es, a) == {i \in DOMAIN es : stream[es[i].id].agent = a}
OfCycle(es, c) == {i \in DOMAIN es : stream[es[i].id].cycle = c}

\* What the messages say, as far as an index uses it.
StreamNamed ==
    \A id \in DOMAIN stream :
        id \in Nat /\ stream[id].agent \in AgentNames /\ stream[id].cycle \in CycleNames

\* The lists agree: what IndexWhole says of them, and that no entry is there twice.
Agree(ix) ==
    /\ ix \in Index
    /\ \A i \in DOMAIN ix.entries : ix.entries[i].id \in DOMAIN stream
    /\ IsInjective(Ids(ix.entries))
    /\ \A a \in Agents \ {NoOne} :
        ix.byAgent[a] = Picked(Ids(ix.entries), OfAgent(ix.entries, a))
    /\ \A c \in Cycles \ {NoOne} :
        ix.byCycle[c] = Picked(Ids(ix.entries), OfCycle(ix.entries, c))
    /\ ix.byAgent[NoOne] = <<>> /\ ix.byCycle[NoOne] = <<>>

\* The sequence of the ids, and that of all entries but the first.
LEMMA IdsOfEntries ==
    ASSUME NEW es \in Seq(Given)
    PROVE  /\ Ids(es) \in Seq(Nat) /\ Len(Ids(es)) = Len(es) /\ Len(es) \in Nat
           /\ DOMAIN es = 1..Len(es) /\ DOMAIN Ids(es) = 1..Len(es)
           /\ \A i \in 1..Len(es) : /\ Ids(es)[i] = es[i].id
                                    /\ es[i] \in Given /\ es[i].id \in Nat /\ es[i].at \in Nat
<1>1. Len(es) \in Nat /\ DOMAIN es = 1..Len(es) /\ \A i \in 1..Len(es) : es[i] \in Given
  BY LenProperties, ElementOfSeq
<1>2. \A i \in 1..Len(es) : es[i].id \in Nat /\ es[i].at \in Nat
  BY <1>1 DEF Given
<1> QED
  BY <1>1, <1>2 DEF Ids

\* The messages of the entries that stay when the oldest one goes.
LEMMA IdsOfTail ==
    ASSUME NEW es \in Seq(Given), es # <<>>
    PROVE  /\ Tail(es) \in Seq(Given) /\ Len(Tail(es)) = Len(es) - 1 /\ Len(es) \in Nat \ {0}
           /\ \A i \in 1..(Len(es) - 1) : Tail(es)[i] = es[i + 1]
           /\ Ids(Tail(es)) = Tail(Ids(es)) /\ Ids(es) # <<>>
           /\ \A a : OfAgent(Tail(es), a) = {i \in 1..(Len(es) - 1) : i + 1 \in OfAgent(es, a)}
           /\ \A c : OfCycle(Tail(es), c) = {i \in 1..(Len(es) - 1) : i + 1 \in OfCycle(es, c)}
<1> DEFINE t == Tail(es)
<1>1. /\ t \in Seq(Given) /\ Len(t) = Len(es) - 1 /\ Len(es) \in Nat \ {0}
      /\ \A i \in 1..(Len(es) - 1) : t[i] = es[i + 1]
  BY HeadTailProperties, LenProperties, EmptySeq
<1> HIDE DEF t
<1>2. DOMAIN t = 1..(Len(es) - 1) /\ DOMAIN es = 1..Len(es)
  BY <1>1, LenProperties
<1>3. \A i \in 1..(Len(es) - 1) : i + 1 \in 1..Len(es)
  BY <1>1
<1>4. \A a : OfAgent(t, a) = {i \in 1..(Len(es) - 1) : i + 1 \in OfAgent(es, a)}
  BY <1>1, <1>2, <1>3 DEF OfAgent
<1>5. \A c : OfCycle(t, c) = {i \in 1..(Len(es) - 1) : i + 1 \in OfCycle(es, c)}
  BY <1>1, <1>2, <1>3 DEF OfCycle
<1>6. Ids(es) # <<>> /\ Tail(Ids(es)) \in Seq(Nat) /\ Len(Tail(Ids(es))) = Len(es) - 1
      /\ \A i \in 1..(Len(es) - 1) : Tail(Ids(es))[i] = Ids(es)[i + 1]
  <2> DEFINE d == Ids(es)
  <2>1. d \in Seq(Nat) /\ Len(d) = Len(es)
    BY IdsOfEntries
  <2> HIDE DEF d
  <2>2. d # <<>>
    BY <1>1, <2>1, EmptySeq
  <2>3. Tail(d) \in Seq(Nat) /\ Len(Tail(d)) = Len(es) - 1
        /\ \A i \in 1..(Len(es) - 1) : Tail(d)[i] = d[i + 1]
    BY <2>1, <2>2, HeadTailProperties
  <2> QED
    BY <2>2, <2>3 DEF d
<1>7. Ids(t) = Tail(Ids(es))
  <2>1. Ids(t) \in Seq(Nat) /\ Len(Ids(t)) = Len(es) - 1
    BY <1>1, IdsOfEntries
  <2>2. \A i \in 1..(Len(es) - 1) : Ids(t)[i] = es[i + 1].id
    BY <1>1, IdsOfEntries
  <2>3. \A i \in 1..(Len(es) - 1) : Ids(es)[i + 1] = es[i + 1].id
    BY <1>3, IdsOfEntries
  <2>4. \A i \in 1..(Len(es) - 1) : Ids(t)[i] = Tail(Ids(es))[i]
    BY <1>6, <2>2, <2>3
  <2> QED
    BY <1>6, <2>1, <2>4, SeqEqual
<1> QED
  BY <1>1, <1>4, <1>5, <1>6, <1>7 DEF t

\* RemoveOldest takes the oldest entry out of all three lists.
LEMMA RemoveOldestAgrees ==
    ASSUME StreamNamed, NEW ix, Agree(ix), ix.entries # <<>>
    PROVE  /\ Agree(RemoveOldest(ix))
           /\ RemoveOldest(ix).entries = Tail(ix.entries)
<1> DEFINE es == ix.entries
           id == es[1].id
           m == stream[id]
           out == [entries |-> Tail(es),
                   byAgent |-> [ix.byAgent EXCEPT ![m.agent] = RemoveFirst(@, id)],
                   byCycle |-> [ix.byCycle EXCEPT ![m.cycle] = RemoveFirst(@, id)]]
<1>1. /\ ix = [entries |-> es, byAgent |-> ix.byAgent, byCycle |-> ix.byCycle]
      /\ es \in Seq(Given) /\ es # <<>> /\ ix.byAgent \in [AgentNames -> Seq(Nat)]
      /\ ix.byCycle \in [CycleNames -> Seq(Nat)]
  BY DEF Agree, Index
<1>2. RemoveOldest(ix) = out
  <2>1. Head(es) = es[1]
    BY <1>1, HeadTailProperties
  <2> QED
    BY <2>1 DEF RemoveOldest
<1>3. /\ Tail(es) \in Seq(Given) /\ Len(Tail(es)) = Len(es) - 1 /\ Len(es) \in Nat \ {0}
      /\ \A i \in 1..(Len(es) - 1) : Tail(es)[i] = es[i + 1]
      /\ Ids(Tail(es)) = Tail(Ids(es)) /\ Ids(es) # <<>>
      /\ \A a : OfAgent(Tail(es), a) = {i \in 1..(Len(es) - 1) : i + 1 \in OfAgent(es, a)}
      /\ \A c : OfCycle(Tail(es), c) = {i \in 1..(Len(es) - 1) : i + 1 \in OfCycle(es, c)}
  BY <1>1, IdsOfTail
<1>4. /\ Ids(es) \in Seq(Nat) /\ Len(Ids(es)) = Len(es) /\ DOMAIN es = 1..Len(es)
      /\ DOMAIN Ids(es) = 1..Len(es) /\ \A i \in 1..Len(es) : Ids(es)[i] = es[i].id
  BY <1>1, IdsOfEntries
<1>5. Ids(es)[1] = id /\ id \in DOMAIN stream /\ m.agent \in AgentNames /\ m.cycle \in CycleNames
  <2>1. 1 \in 1..Len(es)
    BY <1>3
  <2>2. \A i \in DOMAIN es : es[i].id \in DOMAIN stream
    BY DEF Agree
  <2>3. id \in DOMAIN stream /\ Ids(es)[1] = id
    BY <1>4, <2>1, <2>2
  <2> QED
    BY <2>3 DEF StreamNamed
<1>6. /\ \A a : (1 \in OfAgent(es, a)) <=> (m.agent = a)
      /\ \A c : (1 \in OfCycle(es, c)) <=> (m.cycle = c)
      /\ \A a : OfAgent(es, a) \subseteq DOMAIN Ids(es)
      /\ \A c : OfCycle(es, c) \subseteq DOMAIN Ids(es)
  BY <1>3, <1>4 DEF OfAgent, OfCycle
<1>7. ix.byAgent[NoOne] = <<>> /\ ix.byCycle[NoOne] = <<>>
  BY DEF Agree
<1>8. RemoveFirst(<<>>, id) = <<>>
  BY DEF RemoveFirst
<1>9. /\ \A a \in Agents \ {NoOne} : ix.byAgent[a] = Picked(Ids(es), OfAgent(es, a))
      /\ \A c \in Cycles \ {NoOne} : ix.byCycle[c] = Picked(Ids(es), OfCycle(es, c))
  BY DEF Agree
<1> HIDE DEF es, id, m
<1>10. ASSUME NEW a \in Agents \ {NoOne}
       PROVE  out.byAgent[a] = Picked(Ids(Tail(es)), OfAgent(Tail(es), a))
  <2>1. a \in AgentNames
    BY DEF AgentNames
  <2>2. out.byAgent[a] = IF m.agent = a THEN RemoveFirst(ix.byAgent[a], id) ELSE ix.byAgent[a]
    BY <1>1, <2>1
  <2> DEFINE d == Ids(es)
             keep == OfAgent(es, a)
  <2>3. Picked(Tail(d), {i \in 1..(Len(d) - 1) : i + 1 \in keep})
          = IF 1 \in keep THEN RemoveFirst(Picked(d, keep), d[1]) ELSE Picked(d, keep)
    <3>1. d \in Seq(Nat) /\ d # <<>> /\ keep \subseteq DOMAIN d
      BY <1>3, <1>4, <1>6
    <3> HIDE DEF d, keep
    <3> QED
      BY <3>1, ListWithoutFirst
  <2> QED
    BY <1>3, <1>4, <1>5, <1>6, <1>9, <2>2, <2>3
<1>11. ASSUME NEW c \in Cycles \ {NoOne}
       PROVE  out.byCycle[c] = Picked(Ids(Tail(es)), OfCycle(Tail(es), c))
  <2>1. c \in CycleNames
    BY DEF CycleNames
  <2>2. out.byCycle[c] = IF m.cycle = c THEN RemoveFirst(ix.byCycle[c], id) ELSE ix.byCycle[c]
    BY <1>1, <2>1
  <2> DEFINE d == Ids(es)
             keep == OfCycle(es, c)
  <2>3. Picked(Tail(d), {i \in 1..(Len(d) - 1) : i + 1 \in keep})
          = IF 1 \in keep THEN RemoveFirst(Picked(d, keep), d[1]) ELSE Picked(d, keep)
    <3>1. d \in Seq(Nat) /\ d # <<>> /\ keep \subseteq DOMAIN d
      BY <1>3, <1>4, <1>6
    <3> HIDE DEF d, keep
    <3> QED
      BY <3>1, ListWithoutFirst
  <2> QED
    BY <1>3, <1>4, <1>5, <1>6, <1>9, <2>2, <2>3
<1>12. out.byAgent[NoOne] = <<>> /\ out.byCycle[NoOne] = <<>>
  <2>1. NoOne \in AgentNames /\ NoOne \in CycleNames
    BY DEF AgentNames, CycleNames
  <2>2. /\ out.byAgent[NoOne] = IF m.agent = NoOne THEN RemoveFirst(ix.byAgent[NoOne], id)
                                ELSE ix.byAgent[NoOne]
        /\ out.byCycle[NoOne] = IF m.cycle = NoOne THEN RemoveFirst(ix.byCycle[NoOne], id)
                                ELSE ix.byCycle[NoOne]
    BY <1>1, <2>1
  <2> QED
    BY <1>7, <1>8, <2>2
<1>13. \A keep : keep \subseteq 1..(Len(es) - 1) => Picked(Ids(Tail(es)), keep) \in Seq(Nat)
  <2> TAKE keep
  <2> HAVE keep \subseteq 1..(Len(es) - 1)
  <2> DEFINE d == Ids(Tail(es))
  <2>1. d \in Seq(Nat) /\ DOMAIN d = 1..(Len(es) - 1)
    BY <1>3, IdsOfEntries
  <2> HIDE DEF d
  <2>2. Picked(d, keep) \in Seq(Nat)
    BY <2>1, PickedElements
  <2> QED
    BY <2>2 DEF d
<1>14. out \in Index
  <2>1. out.byAgent \in [AgentNames -> Seq(Nat)]
    <3>1. ASSUME NEW a \in AgentNames PROVE out.byAgent[a] \in Seq(Nat)
      <4>1. CASE a = NoOne
        BY <1>12, <4>1, EmptySeq
      <4>2. CASE a \in Agents \ {NoOne}
        <5>1. OfAgent(Tail(es), a) \subseteq 1..(Len(es) - 1)
          BY <1>3
        <5> QED
          BY <1>10, <1>13, <4>2, <5>1
      <4> QED
        BY <4>1, <4>2 DEF AgentNames
    <3>2. DOMAIN out.byAgent = AgentNames /\ out.byAgent = [a \in AgentNames |-> out.byAgent[a]]
      BY <1>1
    <3> HIDE DEF out
    <3> QED
      BY <3>1, <3>2
  <2>2. out.byCycle \in [CycleNames -> Seq(Nat)]
    <3>1. ASSUME NEW c \in CycleNames PROVE out.byCycle[c] \in Seq(Nat)
      <4>1. CASE c = NoOne
        BY <1>12, <4>1, EmptySeq
      <4>2. CASE c \in Cycles \ {NoOne}
        <5>1. OfCycle(Tail(es), c) \subseteq 1..(Len(es) - 1)
          BY <1>3
        <5> QED
          BY <1>11, <1>13, <4>2, <5>1
      <4> QED
        BY <4>1, <4>2 DEF CycleNames
    <3>2. DOMAIN out.byCycle = CycleNames /\ out.byCycle = [c \in CycleNames |-> out.byCycle[c]]
      BY <1>1
    <3> HIDE DEF out
    <3> QED
      BY <3>1, <3>2
  <2> QED
    BY <1>3, <2>1, <2>2 DEF Index
<1>15. out.entries = Tail(es) /\ DOMAIN Tail(es) = 1..(Len(es) - 1)
  BY <1>3, LenProperties
<1>16. \A i \in DOMAIN Tail(es) : Tail(es)[i].id \in DOMAIN stream
  <2>1. \A i \in DOMAIN es : es[i].id \in DOMAIN stream
    BY DEF Agree, es
  <2>2. \A i \in 1..(Len(es) - 1) : i + 1 \in 1..Len(es)
    BY <1>3
  <2> QED
    BY <1>3, <1>4, <1>15, <2>1, <2>2
<1>17. IsInjective(Ids(Tail(es)))
  <2>1. /\ \A i \in 1..(Len(es) - 1) : /\ i + 1 \in 1..Len(es) /\ i \in Nat
                                       /\ Ids(Tail(es))[i] = Ids(es)[i + 1]
        /\ DOMAIN Ids(Tail(es)) = 1..(Len(es) - 1)
    <3>1. /\ \A i \in 1..(Len(es) - 1) : Ids(Tail(es))[i] = Tail(es)[i].id
          /\ DOMAIN Ids(Tail(es)) = 1..(Len(es) - 1)
      BY <1>3, IdsOfEntries
    <3>2. \A i \in 1..(Len(es) - 1) : i + 1 \in 1..Len(es) /\ i \in Nat
      BY <1>3
    <3> QED
      BY <1>3, <1>4, <3>1, <3>2
  <2>2. IsInjective(Ids(es))
    BY DEF Agree, es
  <2> SUFFICES ASSUME NEW i \in 1..(Len(es) - 1), NEW j \in 1..(Len(es) - 1),
                      Ids(Tail(es))[i] = Ids(Tail(es))[j]
               PROVE  i = j
    BY <2>1 DEF IsInjective
  <2>3. i + 1 = j + 1
    <3>1. /\ i + 1 \in DOMAIN Ids(es) /\ j + 1 \in DOMAIN Ids(es)
          /\ Ids(es)[i + 1] = Ids(es)[j + 1]
      BY <1>4, <2>1
    <3> QED
      BY <2>2, <3>1 DEF IsInjective
  <2> QED
    BY <2>1, <2>3
<1> HIDE DEF out
<1>18. Agree(out)
  BY <1>10, <1>11, <1>12, <1>14, <1>15, <1>16, <1>17 DEF Agree
<1> QED
  BY <1>2, <1>15, <1>18 DEF es

\* The sequence of the ids with one more entry, and who names it.
LEMMA IdsOfAppend ==
    ASSUME NEW es \in Seq(Given), NEW e \in Given
    PROVE  /\ Append(es, e) \in Seq(Given) /\ Len(Append(es, e)) = Len(es) + 1
           /\ Len(es) \in Nat /\ Append(es, e)[Len(es) + 1] = e
           /\ \A i \in 1..Len(es) : Append(es, e)[i] = es[i]
           /\ Ids(Append(es, e)) = Append(Ids(es), e.id)
           /\ \A a : OfAgent(Append(es, e), a) =
                        IF stream[e.id].agent = a THEN OfAgent(es, a) \cup {Len(es) + 1}
                        ELSE OfAgent(es, a)
           /\ \A c : OfCycle(Append(es, e), c) =
                        IF stream[e.id].cycle = c THEN OfCycle(es, c) \cup {Len(es) + 1}
                        ELSE OfCycle(es, c)
<1> DEFINE t == Append(es, e)
<1>1. /\ t \in Seq(Given) /\ Len(t) = Len(es) + 1 /\ Len(es) \in Nat
      /\ t[Len(es) + 1] = e /\ \A i \in 1..Len(es) : t[i] = es[i]
  BY AppendProperties, LenProperties
<1> HIDE DEF t
<1>2. DOMAIN t = 1..(Len(es) + 1) /\ DOMAIN es = 1..Len(es)
      /\ \A i : i \in 1..(Len(es) + 1) <=> i \in 1..Len(es) \/ i = Len(es) + 1
  BY <1>1, LenProperties
<1>3. \A a : OfAgent(t, a) = IF stream[e.id].agent = a THEN OfAgent(es, a) \cup {Len(es) + 1}
                             ELSE OfAgent(es, a)
  BY <1>1, <1>2 DEF OfAgent
<1>4. \A c : OfCycle(t, c) = IF stream[e.id].cycle = c THEN OfCycle(es, c) \cup {Len(es) + 1}
                             ELSE OfCycle(es, c)
  BY <1>1, <1>2 DEF OfCycle
<1>5. Ids(t) = Append(Ids(es), e.id)
  <2> DEFINE d == Ids(es)
             u == Append(d, e.id)
  <2>1. d \in Seq(Nat) /\ Len(d) = Len(es) /\ \A i \in 1..Len(es) : d[i] = es[i].id
    BY IdsOfEntries
  <2>2. e.id \in Nat
    BY DEF Given
  <2> HIDE DEF d
  <2>3. /\ u \in Seq(Nat) /\ Len(u) = Len(es) + 1 /\ u[Len(es) + 1] = e.id
        /\ \A i \in 1..Len(es) : u[i] = d[i]
    BY <2>1, <2>2, AppendProperties
  <2> HIDE DEF u
  <2>4. Ids(t) \in Seq(Nat) /\ Len(Ids(t)) = Len(es) + 1
        /\ \A i \in 1..(Len(es) + 1) : Ids(t)[i] = t[i].id
    BY <1>1, IdsOfEntries
  <2>5. \A i \in 1..(Len(es) + 1) : Ids(t)[i] = u[i]
    BY <1>1, <1>2, <2>1, <2>3, <2>4
  <2>6. Ids(t) = u
    BY <2>3, <2>4, <2>5, SeqEqual
  <2> QED
    BY <2>6 DEF u, d
<1> QED
  BY <1>1, <1>3, <1>4, <1>5 DEF t

\* What is picked of the messages when one is appended.
LEMMA PickedOfAppend ==
    ASSUME NEW d \in Seq(Nat), NEW id \in Nat
    PROVE  \A keep : keep \subseteq DOMAIN d =>
            /\ Picked(Append(d, id), keep) = Picked(d, keep)
            /\ Picked(Append(d, id), keep \cup {Len(d) + 1}) = Append(Picked(d, keep), id)
BY PickedOneMore

\* Push puts an entry that is not there at the end of the lists it belongs to.
LEMMA PushAgrees ==
    ASSUME StreamNamed, clock \in Nat, NEW ix, Agree(ix), NEW id \in DOMAIN stream,
           id \notin Range(Ids(ix.entries))
    PROVE  /\ Agree(Push(ix, id))
           /\ Push(ix, id).entries = Append(ix.entries, [id |-> id, at |-> clock])
<1> DEFINE es == ix.entries
           m == stream[id]
           e == [id |-> id, at |-> clock]
           t == Append(es, e)
           out == Push(ix, id)
<1>1. /\ es \in Seq(Given) /\ ix.byAgent \in [AgentNames -> Seq(Nat)]
      /\ ix.byCycle \in [CycleNames -> Seq(Nat)]
  BY DEF Agree, Index
<1>2. /\ out.entries = t
      /\ out = [entries |-> t, byAgent |-> out.byAgent, byCycle |-> out.byCycle]
      /\ out.byAgent = IF m.agent = NoOne THEN ix.byAgent
                       ELSE [ix.byAgent EXCEPT ![m.agent] = Append(@, id)]
      /\ out.byCycle = IF m.cycle = NoOne THEN ix.byCycle
                       ELSE [ix.byCycle EXCEPT ![m.cycle] = Append(@, id)]
  BY DEF Push
<1>3. id \in Nat /\ m.agent \in AgentNames /\ m.cycle \in CycleNames /\ e \in Given /\ e.id = id
  BY DEF StreamNamed, Given
<1> HIDE DEF out, e
<1>4. /\ t \in Seq(Given) /\ Len(t) = Len(es) + 1
      /\ Len(es) \in Nat /\ t[Len(es) + 1] = e
      /\ \A i \in 1..Len(es) : t[i] = es[i]
      /\ Ids(t) = Append(Ids(es), id)
      /\ \A a : OfAgent(t, a) = IF m.agent = a THEN OfAgent(es, a) \cup {Len(es) + 1}
                                ELSE OfAgent(es, a)
      /\ \A c : OfCycle(t, c) = IF m.cycle = c THEN OfCycle(es, c) \cup {Len(es) + 1}
                                ELSE OfCycle(es, c)
  <2> HIDE DEF t, m, es
  <2>1. /\ t = Append(es, e) /\ stream[e.id] = m /\ es \in Seq(Given) /\ e \in Given
    BY <1>1, <1>3 DEF t, m
  <2> QED
    BY <1>3, <2>1, IdsOfAppend
<1>5. /\ Ids(es) \in Seq(Nat) /\ Len(Ids(es)) = Len(es) /\ DOMAIN es = 1..Len(es)
      /\ DOMAIN Ids(es) = 1..Len(es) /\ \A i \in 1..Len(es) : Ids(es)[i] = es[i].id
  BY <1>1, IdsOfEntries
<1>6. /\ \A a : OfAgent(es, a) \subseteq DOMAIN Ids(es)
      /\ \A c : OfCycle(es, c) \subseteq DOMAIN Ids(es)
  BY <1>5 DEF OfAgent, OfCycle
<1>7. /\ \A a \in Agents \ {NoOne} : ix.byAgent[a] = Picked(Ids(es), OfAgent(es, a))
      /\ \A c \in Cycles \ {NoOne} : ix.byCycle[c] = Picked(Ids(es), OfCycle(es, c))
      /\ ix.byAgent[NoOne] = <<>> /\ ix.byCycle[NoOne] = <<>>
      /\ \A i \in DOMAIN es : es[i].id \in DOMAIN stream
      /\ IsInjective(Ids(es))
  BY DEF Agree
<1>8. id \notin Range(Ids(es))
  OBVIOUS
<1> HIDE DEF es, t, m
<1>9. \A keep : keep \subseteq DOMAIN Ids(es) =>
        /\ Picked(Append(Ids(es), id), keep) = Picked(Ids(es), keep)
        /\ Picked(Append(Ids(es), id), keep \cup {Len(es) + 1}) = Append(Picked(Ids(es), keep), id)
  <2> DEFINE d == Ids(es)
  <2>1. d \in Seq(Nat) /\ Len(d) = Len(es)
    BY <1>5
  <2> HIDE DEF d
  <2>2. \A keep : keep \subseteq DOMAIN d =>
        /\ Picked(Append(d, id), keep) = Picked(d, keep)
        /\ Picked(Append(d, id), keep \cup {Len(d) + 1}) = Append(Picked(d, keep), id)
    BY <1>3, <2>1, PickedOfAppend
  <2> QED
    BY <2>1, <2>2 DEF d
<1>10. ASSUME NEW a \in Agents \ {NoOne} PROVE out.byAgent[a] = Picked(Ids(t), OfAgent(t, a))
  <2>1. a \in AgentNames /\ a # NoOne
    BY DEF AgentNames
  <2>2. out.byAgent[a] = IF m.agent = a THEN Append(ix.byAgent[a], id) ELSE ix.byAgent[a]
    BY <1>1, <1>2, <2>1
  <2>3. CASE m.agent = a
    <3>1. OfAgent(t, a) = OfAgent(es, a) \cup {Len(es) + 1}
      BY <1>4, <2>3
    <3>2. Picked(Append(Ids(es), id), OfAgent(es, a) \cup {Len(es) + 1})
            = Append(Picked(Ids(es), OfAgent(es, a)), id)
      BY <1>6, <1>9
    <3> QED
      BY <1>4, <1>7, <2>2, <2>3, <3>1, <3>2
  <2>4. CASE m.agent # a
    <3>1. OfAgent(t, a) = OfAgent(es, a)
      BY <1>4, <2>4
    <3> QED
      BY <1>4, <1>6, <1>7, <1>9, <2>2, <2>4, <3>1
  <2> QED
    BY <2>3, <2>4
<1>11. ASSUME NEW c \in Cycles \ {NoOne} PROVE out.byCycle[c] = Picked(Ids(t), OfCycle(t, c))
  <2>1. c \in CycleNames /\ c # NoOne
    BY DEF CycleNames
  <2>2. out.byCycle[c] = IF m.cycle = c THEN Append(ix.byCycle[c], id) ELSE ix.byCycle[c]
    BY <1>1, <1>2, <2>1
  <2>3. CASE m.cycle = c
    <3>1. OfCycle(t, c) = OfCycle(es, c) \cup {Len(es) + 1}
      BY <1>4, <2>3
    <3>2. Picked(Append(Ids(es), id), OfCycle(es, c) \cup {Len(es) + 1})
            = Append(Picked(Ids(es), OfCycle(es, c)), id)
      BY <1>6, <1>9
    <3> QED
      BY <1>4, <1>7, <2>2, <2>3, <3>1, <3>2
  <2>4. CASE m.cycle # c
    <3>1. OfCycle(t, c) = OfCycle(es, c)
      BY <1>4, <2>4
    <3> QED
      BY <1>4, <1>6, <1>7, <1>9, <2>2, <2>4, <3>1
  <2> QED
    BY <2>3, <2>4
<1>12. out.byAgent[NoOne] = <<>> /\ out.byCycle[NoOne] = <<>>
  <2>1. NoOne \in AgentNames /\ NoOne \in CycleNames
    BY DEF AgentNames, CycleNames
  <2> QED
    BY <1>1, <1>2, <1>7, <2>1
<1>13. out \in Index
  <2>1. \A l \in Seq(Nat) : Append(l, id) \in Seq(Nat)
    BY <1>3, AppendProperties
  <2>2. out.byAgent \in [AgentNames -> Seq(Nat)]
    BY <1>1, <1>2, <1>3, <2>1
  <2>3. out.byCycle \in [CycleNames -> Seq(Nat)]
    BY <1>1, <1>2, <1>3, <2>1
  <2> QED
    BY <1>2, <1>4, <2>2, <2>3 DEF Index
<1>14. DOMAIN t = 1..(Len(es) + 1)
  BY <1>4, LenProperties
<1>15. \A i \in DOMAIN t : t[i].id \in DOMAIN stream
  <2>1. \A i \in 1..(Len(es) + 1) : i \in 1..Len(es) \/ i = Len(es) + 1
    BY <1>4
  <2> QED
    BY <1>3, <1>4, <1>5, <1>7, <1>14, <2>1
<1>16. IsInjective(Ids(t))
  <2>1. Ids(es) \in Seq(Nat) /\ IsInjective(Ids(es)) /\ id \in Nat
    BY <1>3, <1>5, <1>7
  <2>2. IsInjective(Append(Ids(es), id))
    <3> DEFINE d == Ids(es)
    <3>1. d \in Seq(Nat) /\ IsInjective(d) /\ id \notin Range(d)
      BY <1>8, <2>1
    <3> HIDE DEF d
    <3>2. IsInjective(Append(d, id))
      BY <1>3, <3>1, AppendOnce
    <3> QED
      BY <3>2 DEF d
  <2> QED
    BY <1>4, <2>2
<1>17. Agree(out)
  BY <1>2, <1>10, <1>11, <1>12, <1>13, <1>15, <1>16 DEF Agree
<1> QED
  BY <1>2, <1>17 DEF out, t, es, e

-----------------------------------------------------------------------------
(* An index and all the entries it was ever given *)

\* The entries are the last of those given, and nobody else's are missing than
\* those that are too old or have MaxEntries younger ones after them.
Newest(es, sn) ==
    /\ Len(es) <= Len(sn)
    /\ \A i \in 1..Len(es) : es[i] = sn[Len(sn) - Len(es) + i]
\* An entry that was indexed and is gone was one too many, or too old.
NoneMissing(es, sn) ==
    \A i \in 1..(Len(sn) - Len(es)) : Len(sn) - i >= MaxEntries \/ clock - sn[i].at > TTL

\* What eviction keeps of an index: its entries are the newest, and none is missing.
Holds(ix, sn) ==
    /\ Agree(ix)
    /\ Len(ix.entries) <= MaxEntries
    /\ Newest(ix.entries, sn)
    /\ NoneMissing(ix.entries, sn)

\* Without the oldest entry, what is left is still the newest.
LEMMA NewestTail ==
    ASSUME NEW sn \in Seq(Given), NEW es \in Seq(Given), es # <<>>, Newest(es, sn)
    PROVE  Newest(Tail(es), sn)
<1> DEFINE t == Tail(es)
<1>1. /\ Len(t) = Len(es) - 1 /\ Len(es) \in Nat \ {0}
      /\ \A i \in 1..(Len(es) - 1) : t[i] = es[i + 1]
  BY IdsOfTail
<1>2. Len(sn) \in Nat
  BY LenProperties
<1>3. /\ Len(es) <= Len(sn) /\ \A i \in 1..Len(es) : es[i] = sn[Len(sn) - Len(es) + i]
  BY DEF Newest
<1> HIDE DEF t
<1>4. ASSUME NEW i \in 1..Len(t) PROVE t[i] = sn[Len(sn) - Len(t) + i]
  <2>1. i + 1 \in 1..Len(es) /\ i \in 1..(Len(es) - 1)
    BY <1>1
  <2>2. t[i] = sn[Len(sn) - Len(es) + (i + 1)]
    BY <1>1, <1>3, <2>1
  <2>3. Len(sn) - Len(es) + (i + 1) = Len(sn) - Len(t) + i
    BY <1>1, <1>2
  <2> QED
    BY <2>2, <2>3
<1>5. Len(t) <= Len(sn)
  BY <1>1, <1>2, <1>3
<1>6. Newest(t, sn)
  BY <1>4, <1>5 DEF Newest
<1> QED
  BY <1>6 DEF t

\* Without its oldest entry, one that is too old.
LEMMA RemoveStaleHeld ==
    ASSUME StreamNamed, clock \in Nat, NEW ix, NEW sn \in Seq(Given), Holds(ix, sn),
           ix.entries # <<>>, Stale(ix.entries[1])
    PROVE  /\ Holds(RemoveOldest(ix), sn)
           /\ RemoveOldest(ix).entries = Tail(ix.entries)
<1> DEFINE es == ix.entries
           t == Tail(es)
           out == RemoveOldest(ix)
<1>1. Agree(ix) /\ Len(es) <= MaxEntries /\ Newest(es, sn) /\ NoneMissing(es, sn)
  BY DEF Holds
<1>2. Agree(out) /\ out.entries = t
  BY <1>1, RemoveOldestAgrees
<1>3. es \in Seq(Given) /\ es # <<>>
  BY <1>1 DEF Agree, Index
<1>4. Stale(es[1])
  OBVIOUS
<1> HIDE DEF es
<1>5. /\ Len(t) = Len(es) - 1 /\ Len(es) \in Nat \ {0}
      /\ \A i \in 1..(Len(es) - 1) : t[i] = es[i + 1]
  BY <1>3, IdsOfTail
<1>6. Len(sn) \in Nat /\ \A i \in 1..Len(sn) : sn[i].at \in Nat
  BY IdsOfEntries
<1> HIDE DEF t, out
<1>7. /\ Len(es) <= Len(sn) /\ \A i \in 1..Len(es) : es[i] = sn[Len(sn) - Len(es) + i]
  BY <1>1 DEF Newest
<1>8. MaxEntries \in Nat /\ TTL \in Nat
  BY BoundsAssumption
<1>9. Len(t) <= MaxEntries
  BY <1>1, <1>5, <1>8
<1>10. Newest(t, sn)
  BY <1>1, <1>3, NewestTail DEF t
<1>11. NoneMissing(t, sn)
  <2> SUFFICES ASSUME NEW i \in 1..(Len(sn) - Len(t))
               PROVE  Len(sn) - i >= MaxEntries \/ clock - sn[i].at > TTL
    BY DEF NoneMissing
  <2>1. CASE i \in 1..(Len(sn) - Len(es))
    BY <1>1, <2>1 DEF NoneMissing
  <2>2. CASE i \notin 1..(Len(sn) - Len(es))
    <3> DEFINE a == Len(sn)
               b == Len(es)
    <3>0. /\ a \in Nat /\ b \in Nat /\ b # 0 /\ b <= a /\ Len(t) = b - 1
          /\ i \in 1..(a - Len(t)) /\ i \notin 1..(a - b)
      BY <1>5, <1>6, <1>7, <2>2
    <3> HIDE DEF a, b
    <3>4. i \in Int /\ 1 <= i /\ i <= a - b + 1
      BY <3>0
    <3>5. i > a - b
      BY <3>0, <3>4
    <3>6. i = a - b + 1 /\ 1 \in 1..b /\ i \in 1..a
      BY <3>0, <3>4, <3>5
    <3>1. i = Len(sn) - Len(es) + 1 /\ 1 \in 1..Len(es) /\ i \in 1..Len(sn)
      BY <3>6 DEF a, b
    <3>2. es[1] = sn[i]
      BY <1>7, <3>1
    <3>3. sn[i].at < clock - TTL /\ sn[i].at \in Nat
      BY <1>4, <1>6, <3>1, <3>2 DEF Stale
    <3> QED
      BY <1>8, <3>3
  <2> QED
    BY <2>1, <2>2
<1>12. Holds(out, sn)
  BY <1>2, <1>9, <1>10, <1>11 DEF Holds
<1> QED
  BY <1>2, <1>12 DEF out, t, es

\* A new entry, with room for it: one more is younger than those that are missing.
LEMMA PushHeld ==
    ASSUME StreamNamed, clock \in Nat, NEW ix, NEW sn \in Seq(Given), Agree(ix),
           Len(ix.entries) < MaxEntries, Newest(ix.entries, sn),
           \A i \in 1..(Len(sn) - Len(ix.entries)) :
                Len(sn) + 1 - i >= MaxEntries \/ clock - sn[i].at > TTL,
           NEW id \in DOMAIN stream, \A i \in 1..Len(sn) : sn[i].id # id
    PROVE  Holds(Push(ix, id), Append(sn, [id |-> id, at |-> clock]))
<1> DEFINE r == ix.entries
           e == [id |-> id, at |-> clock]
           sm == Append(sn, e)
           t == Append(r, e)
           out == Push(ix, id)
<1>1. r \in Seq(Given) /\ e \in Given /\ e.id = id
  BY DEF Agree, Index, StreamNamed, Given
<1>2. MaxEntries \in Nat \ {0} /\ TTL \in Nat
  BY BoundsAssumption
<1>3. /\ Len(sn) \in Nat /\ Len(r) \in Nat
      /\ \A i \in 1..Len(r) : Ids(r)[i] = r[i].id
      /\ DOMAIN Ids(r) = 1..Len(r)
  BY <1>1, IdsOfEntries
<1>4. /\ Len(r) <= Len(sn) /\ \A i \in 1..Len(r) : r[i] = sn[Len(sn) - Len(r) + i]
      /\ Len(r) < MaxEntries
      /\ \A i \in 1..(Len(sn) - Len(r)) : Len(sn) + 1 - i >= MaxEntries \/ clock - sn[i].at > TTL
  BY DEF Newest
<1>5. \A i \in 1..Len(sn) : sn[i].id # id
  OBVIOUS
<1>6. Agree(ix)
  OBVIOUS
<1> HIDE DEF r
<1>7. id \notin Range(Ids(r))
  <2> SUFFICES ASSUME NEW i \in 1..Len(r), r[i].id = id PROVE FALSE
    BY <1>3 DEF Range
  <2>1. Len(sn) - Len(r) + i \in 1..Len(sn)
    BY <1>3, <1>4
  <2> QED
    BY <1>4, <1>5, <2>1
<1>8. Agree(out) /\ out.entries = t
  BY <1>6, <1>7, PushAgrees DEF r
<1> HIDE DEF e
<1>9. /\ Len(t) = Len(r) + 1 /\ t[Len(r) + 1] = e /\ \A i \in 1..Len(r) : t[i] = r[i]
  BY <1>1, <1>3, AppendProperties
<1>10. /\ Len(sm) = Len(sn) + 1 /\ sm[Len(sn) + 1] = e /\ \A i \in 1..Len(sn) : sm[i] = sn[i]
  BY <1>1, <1>3, AppendProperties
<1> HIDE DEF t, sm, out
<1>11. Len(t) <= MaxEntries
  BY <1>2, <1>3, <1>4, <1>9
<1>12. Newest(t, sm)
  <2>1. ASSUME NEW i \in 1..Len(t) PROVE t[i] = sm[Len(sm) - Len(t) + i]
    <3>1. Len(sm) - Len(t) + i = Len(sn) - Len(r) + i
      BY <1>3, <1>9, <1>10
    <3>2. CASE i \in 1..Len(r)
      <4>1. Len(sn) - Len(r) + i \in 1..Len(sn)
        BY <1>3, <1>4, <3>2
      <4> QED
        BY <1>4, <1>9, <1>10, <3>1, <3>2, <4>1
    <3>3. CASE i = Len(r) + 1
      <4>1. Len(sn) - Len(r) + i = Len(sn) + 1
        BY <1>3, <3>3
      <4> QED
        BY <1>9, <1>10, <3>1, <3>3, <4>1
    <3>4. i \in 1..Len(r) \/ i = Len(r) + 1
      BY <1>3, <1>9
    <3> QED
      BY <3>2, <3>3, <3>4
  <2>2. Len(t) <= Len(sm)
    BY <1>3, <1>4, <1>9, <1>10
  <2> QED
    BY <2>1, <2>2 DEF Newest
<1>13. NoneMissing(t, sm)
  <2>1. Len(sm) - Len(t) = Len(sn) - Len(r)
    BY <1>3, <1>9, <1>10
  <2> SUFFICES ASSUME NEW i \in 1..(Len(sm) - Len(t))
               PROVE  Len(sm) - i >= MaxEntries \/ clock - sm[i].at > TTL
    BY DEF NoneMissing
  <2>2. i \in 1..(Len(sn) - Len(r))
    BY <2>1
  <2>3. i \in 1..Len(sn)
    BY <1>3, <2>2
  <2>4. sm[i] = sn[i] /\ Len(sm) - i = Len(sn) + 1 - i
    BY <1>3, <1>10, <2>3
  <2>5. Len(sn) + 1 - i >= MaxEntries \/ clock - sn[i].at > TTL
    BY <1>4, <2>2
  <2> QED
    BY <2>4, <2>5
<1>14. Holds(out, sm)
  BY <1>8, <1>11, <1>12, <1>13 DEF Holds
<1> QED
  BY <1>14 DEF out, sm, e

\* indexEntry: room is made first if there is none.
LEMMA IndexEntryHeld ==
    ASSUME StreamNamed, clock \in Nat, NEW ix, NEW sn \in Seq(Given), Holds(ix, sn),
           NEW id \in DOMAIN stream, \A i \in 1..Len(sn) : sn[i].id # id
    PROVE  Holds(IndexEntry(ix, id), Append(sn, [id |-> id, at |-> clock]))
<1> DEFINE es == ix.entries
<1>1. Agree(ix) /\ Len(es) <= MaxEntries /\ Newest(es, sn) /\ NoneMissing(es, sn)
  BY DEF Holds
<1>2. es \in Seq(Given) /\ Len(es) \in Nat /\ Len(sn) \in Nat
  <2>1. es \in Seq(Given)
    BY <1>1 DEF Agree, Index
  <2> HIDE DEF es
  <2> QED
    BY <2>1, LenProperties
<1>3. MaxEntries \in Nat \ {0} /\ TTL \in Nat
  BY BoundsAssumption
<1>4. \A i \in 1..(Len(sn) - Len(es)) : /\ i \in Nat
                                        /\ Len(sn) - i >= MaxEntries \/ clock - sn[i].at > TTL
  BY <1>1 DEF NoneMissing
<1>5. CASE Len(es) >= MaxEntries
  <2> DEFINE room == RemoveOldest(ix)
             r == room.entries
  <2>1. es # <<>> /\ Len(es) = MaxEntries
    BY <1>1, <1>2, <1>3, <1>5, EmptySeq
  <2>2. Agree(room) /\ r = Tail(es)
    BY <1>1, <2>1, RemoveOldestAgrees
  <2>3. Len(Tail(es)) = MaxEntries - 1
    BY <1>2, <2>1, IdsOfTail
  <2>4. Newest(Tail(es), sn)
    BY <1>1, <1>2, <2>1, NewestTail
  <2> HIDE DEF room
  <2>5. ASSUME NEW i \in 1..(Len(sn) - Len(r))
        PROVE  Len(sn) + 1 - i >= MaxEntries \/ clock - sn[i].at > TTL
    <3> HIDE DEF es
    <3>1. Len(r) = MaxEntries - 1
      BY <2>2, <2>3
    <3>2. CASE i \in 1..(Len(sn) - Len(es))
      <4>1. i \in Nat /\ (Len(sn) - i >= MaxEntries \/ clock - sn[i].at > TTL)
        BY <1>4, <3>2
      <4> QED
        BY <1>2, <1>3, <4>1
    <3>3. CASE i \notin 1..(Len(sn) - Len(es))
      <4> HIDE DEF r
      <4>1. i \in Int /\ i <= Len(sn) - (MaxEntries - 1)
        BY <1>2, <1>3, <3>1
      <4> QED
        BY <1>2, <1>3, <4>1
    <3> QED
      BY <3>2, <3>3
  <2>6. Len(r) < MaxEntries
    BY <1>3, <2>2, <2>3
  <2>7. Newest(r, sn)
    BY <2>2, <2>4
  <2>8. Holds(Push(room, id), Append(sn, [id |-> id, at |-> clock]))
    BY <2>2, <2>5, <2>6, <2>7, PushHeld
  <2> QED
    BY <1>5, <2>8 DEF IndexEntry, room
<1>6. CASE ~(Len(es) >= MaxEntries)
  <2>1. Len(es) < MaxEntries
    BY <1>2, <1>3, <1>6
  <2>2. \A i \in 1..(Len(sn) - Len(es)) :
            Len(sn) + 1 - i >= MaxEntries \/ clock - sn[i].at > TTL
    <3> HIDE DEF es
    <3> TAKE i \in 1..(Len(sn) - Len(es))
    <3>1. i \in Nat /\ (Len(sn) - i >= MaxEntries \/ clock - sn[i].at > TTL)
      BY <1>4
    <3> QED
      BY <1>2, <1>3, <3>1
  <2>3. Holds(Push(ix, id), Append(sn, [id |-> id, at |-> clock]))
    BY <1>1, <2>1, <2>2, PushHeld
  <2> QED
    BY <1>6, <2>3 DEF IndexEntry
<1> QED
  BY <1>5, <1>6

-----------------------------------------------------------------------------
(* The inductive invariant *)

\* What may be written to the stream, and what is on it.
Message == Records \cup {Denial(a, c) : a \in AgentNames, c \in CycleNames}
Stamped == {Stamp(m, t) : m \in Message, t \in Nat}

\* What is on the stream, and what of it was handed out.
OnStream ==
    /\ stream \in Seq(Stamped) /\ Len(stream) <= MaxStream
    /\ \A id \in DOMAIN stream :
        /\ stream[id].agent \in AgentNames /\ stream[id].cycle \in CycleNames
        /\ stream[id].epoch \in 0..clock
    /\ group \in NoGroup..Len(stream)
    /\ acked \cup lost \subseteq Handed
    /\ clock \in 0..MaxTime

\* The loops: one that reads has a group to read for, and only it has a reply.
OfLoops ==
    /\ life \in [Servers -> Lives] /\ loop \in [Starts -> Phases]
    /\ awaited \in [Servers -> Starts \cup {NoLoop}] /\ redis \subseteq Servers
    /\ batch \in [Starts -> Seq(Nat)]
    /\ \A k \in Starts :
        /\ Range(batch[k]) \subseteq Handed /\ Len(batch[k]) <= ReadCount
        /\ (batch[k] # <<>>) = (loop[k] \in {"replied", "acking"})
        /\ loop[k] \in {"reading", "replied", "acking", "sleeping"} => group # NoGroup

\* The lists of one index, which hold what it was given.
ListsOf(s) ==
    /\ Entered(s) \subseteq Handed
    /\ Agree(IndexOf(s)) /\ Len(entries[s]) <= MaxEntries /\ Newest(entries[s], seen[s])
    /\ life[s] # "gone" => NoneMissing(entries[s], seen[s])
    /\ life[s] = "gone" => entries[s] = <<>>

\* Each server's lists are whole, and they are empty where the process is gone.
OfLists ==
    /\ entries \in [Servers -> Seq(Given)] /\ seen \in [Servers -> Seq(Given)]
    /\ byAgent \in [Servers -> [AgentNames -> Seq(Nat)]]
    /\ byCycle \in [Servers -> [CycleNames -> Seq(Nat)]]
    /\ \A s \in Servers : ListsOf(s)

\* Who has a message: a loop that is about to work on it or to confirm it, an index, nobody.
OfReaders ==
    /\ ReadByOne
    /\ acked \subseteq UNION {Entered(s) : s \in Servers}
    /\ \A k \in Starts : /\ InFlight(k) \cap lost = {}
                         /\ loop[k] = "acking" => Range(batch[k]) \subseteq Entered(Home[k])
                         /\ loop[k] = "replied" => IsInjective(batch[k])

\* The invariant: the stream and what is handed out of it, the loops, the lists, and
\* which loop reads.
GateInv == OnStream /\ OfLoops /\ OfLists /\ OfReaders

\* The entries that indexing some messages makes of them now.
EntriesOf(good) == [i \in DOMAIN good |-> [id |-> good[i], at |-> clock]]

\* A reply is worked on: its entries are given to the index one by one.
LEMMA AllIndexed ==
    ASSUME StreamNamed, clock \in Nat, NEW ix, NEW sn \in Seq(Given), Holds(ix, sn),
           NEW good \in Seq(Nat), IsInjective(good), Range(good) \subseteq DOMAIN stream,
           \A i \in 1..Len(sn) : sn[i].id \notin Range(good)
    PROVE  Holds(IndexAll(ix, good), sn \o EntriesOf(good))
<1> DEFINE n == Len(good)
           E(i) == [id |-> good[i], at |-> clock]
           new == [i \in DOMAIN good |-> E(i)]
           upTo(m) == sn \o [i \in 1..m |-> E(i)]
<1>1. /\ n \in Nat /\ DOMAIN good = 1..n /\ \A i \in 1..n : good[i] \in Nat
      /\ \A i \in 1..n : good[i] \in Range(good)
  BY LenProperties, ElementOfSeq DEF Range
<1>2. \A i \in 1..n : E(i) \in Given /\ E(i).id = good[i]
  BY <1>1 DEF Given
<1>3. Len(sn) \in Nat /\ \A i \in 1..Len(sn) : sn[i] \in Given
  BY LenProperties, ElementOfSeq
<1> HIDE DEF n
<1>4. PICK F : IndexSteps(F, ix, good, n)
  BY <1>1, IndexedOneByOne
<1>5. \A i \in 1..n : \A j \in 1..n : good[i] = good[j] => i = j
  BY <1>1 DEF IsInjective
<1>6. \A i \in 1..n : good[i] \in DOMAIN stream
  BY <1>1
<1>7. \A i \in 1..Len(sn) : \A j \in 1..n : sn[i].id # good[j]
  BY <1>1
<1> HIDE DEF E
<1>8. ASSUME NEW m \in 0..n
      PROVE  /\ [i \in 1..m |-> E(i)] \in Seq(Given) /\ Len([i \in 1..m |-> E(i)]) = m
             /\ upTo(m) \in Seq(Given) /\ Len(upTo(m)) = Len(sn) + m
             /\ \A i \in 1..Len(sn) : upTo(m)[i] = sn[i]
             /\ \A i \in 1..m : upTo(m)[Len(sn) + i] = E(i)
  <2> DEFINE w == [i \in 1..m |-> E(i)]
  <2>1. m \in Nat /\ m <= n
    BY <1>1
  <2>2. \A i \in 1..m : E(i) \in Given
    BY <1>1, <1>2, <2>1
  <2>3. w \in Seq(Given) /\ Len(w) = m /\ \A i \in 1..m : w[i] = E(i)
    BY <2>1, <2>2
  <2> HIDE DEF w
  <2>4. /\ sn \o w \in Seq(Given) /\ Len(sn \o w) = Len(sn) + Len(w)
        /\ \A i \in 1..Len(sn) + Len(w) :
              (sn \o w)[i] = IF i <= Len(sn) THEN sn[i] ELSE w[i - Len(sn)]
    BY <2>3, ConcatProperties
  <2> DEFINE u == sn \o w
  <2> HIDE DEF u
  <2>5. /\ u \in Seq(Given) /\ Len(u) = Len(sn) + m
        /\ \A i \in 1..Len(sn) + m : u[i] = IF i <= Len(sn) THEN sn[i] ELSE w[i - Len(sn)]
    BY <2>3, <2>4 DEF u
  <2>6. \A i \in 1..Len(sn) : u[i] = sn[i]
    BY <1>3, <2>1, <2>5
  <2>7. ASSUME NEW i \in 1..m PROVE u[Len(sn) + i] = E(i)
    <3>1. Len(sn) + i \in 1..Len(sn) + m /\ ~(Len(sn) + i <= Len(sn)) /\ Len(sn) + i - Len(sn) = i
      BY <1>3, <2>1
    <3> QED
      BY <2>3, <2>5, <3>1
  <2> QED
    BY <2>3, <2>5, <2>6, <2>7 DEF u, w
<1> DEFINE G == {m \in Nat : m <= n => Holds(F[m], upTo(m))}
<1>9. 0 \in G
  <2>1. [i \in 1..0 |-> E(i)] = <<>>
    OBVIOUS
  <2>2. upTo(0) = sn
    BY <2>1, ConcatEmptySeq
  <2> QED
    BY <1>4, <2>2 DEF IndexSteps
<1>10. ASSUME NEW m \in Nat, m \in G PROVE m + 1 \in G
  <2> SUFFICES ASSUME m + 1 <= n PROVE Holds(F[m + 1], upTo(m + 1))
    OBVIOUS
  <2>1. m <= n /\ m \in 0..n /\ m + 1 \in 0..n /\ m + 1 \in 1..n /\ m + 1 - 1 = m
    BY <1>1
  <2>2. Holds(F[m], upTo(m))
    BY <1>10, <2>1
  <2> DEFINE a == upTo(m)
             z == upTo(m + 1)
             k == m + 1
  <2>3. /\ a \in Seq(Given) /\ Len(a) = Len(sn) + m
        /\ \A i \in 1..Len(sn) : a[i] = sn[i]
        /\ \A i \in 1..m : a[Len(sn) + i] = E(i)
    BY <1>8, <2>1
  <2>4. /\ z \in Seq(Given) /\ Len(z) = Len(sn) + k
        /\ \A i \in 1..Len(sn) : z[i] = sn[i]
        /\ \A i \in 1..k : z[Len(sn) + i] = E(i)
    BY <1>8, <2>1
  <2> HIDE DEF a, z
  <2>5. E(k) \in Given /\ E(k).id = good[k] /\ E(k) = [id |-> good[k], at |-> clock]
    BY <1>2, <2>1 DEF E
  <2> DEFINE b == Append(a, E(k))
  <2>6. /\ b \in Seq(Given) /\ Len(b) = Len(a) + 1 /\ b[Len(a) + 1] = E(k)
        /\ \A i \in 1..Len(a) : b[i] = a[i]
    BY <2>3, <2>5, AppendProperties
  <2> HIDE DEF b
  <2>7. ASSUME NEW i \in 1..Len(b) PROVE b[i] = z[i]
    <3>1. CASE i \in 1..Len(sn)
      BY <1>3, <2>3, <2>4, <2>6, <3>1
    <3>2. CASE i = Len(sn) + k
      BY <1>3, <2>3, <2>4, <2>6, <3>2
    <3>3. CASE i \notin 1..Len(sn) /\ i # Len(sn) + k
      <4>1. i - Len(sn) \in 1..m /\ Len(sn) + (i - Len(sn)) = i /\ i \in 1..Len(a)
            /\ i - Len(sn) \in 1..k
        BY <1>3, <2>3, <2>6, <3>3
      <4>2. a[i] = E(i - Len(sn)) /\ z[i] = E(i - Len(sn))
        BY <2>3, <2>4, <4>1
      <4> QED
        BY <2>6, <4>1, <4>2
    <3> QED
      BY <3>1, <3>2, <3>3
  <2>8. Len(b) = Len(z)
    BY <1>3, <2>3, <2>4, <2>6
  <2>9. b = z
    BY <2>4, <2>6, <2>7, <2>8, SeqEqual
  <2>10. ASSUME NEW i \in 1..Len(a) PROVE a[i].id # good[k]
    <3>1. CASE i \in 1..Len(sn)
      BY <1>7, <2>1, <2>3, <3>1
    <3>2. CASE i \notin 1..Len(sn)
      <4>0. i \in Int /\ Len(sn) < i /\ i <= Len(sn) + m
        BY <1>3, <2>3, <3>2
      <4> DEFINE j == i - Len(sn)
      <4>3. j \in Int /\ 1 <= j /\ j <= m /\ Len(sn) + j = i
        BY <1>3, <4>0
      <4> HIDE DEF j
      <4>4. j \in 1..m /\ j \in 1..n /\ j # m + 1
        BY <1>1, <2>1, <4>3
      <4>1. i - Len(sn) \in 1..m /\ Len(sn) + (i - Len(sn)) = i /\ i - Len(sn) \in 1..n
            /\ i - Len(sn) # k
        BY <4>3, <4>4 DEF j
      <4>2. a[i].id = good[i - Len(sn)]
        BY <1>2, <2>3, <4>1
      <4> QED
        BY <1>5, <2>1, <4>1, <4>2
    <3> QED
      BY <3>1, <3>2
  <2>11. F[k] = IndexEntry(F[m], good[k])
    BY <1>4, <2>1 DEF IndexSteps
  <2> DEFINE ix0 == F[m]
             id == good[k]
  <2>12. Holds(ix0, a) /\ id \in DOMAIN stream /\ \A i \in 1..Len(a) : a[i].id # id
    BY <1>6, <2>1, <2>2, <2>10 DEF a
  <2> HIDE DEF ix0, id, k
  <2>13. Holds(IndexEntry(ix0, id), Append(a, [id |-> id, at |-> clock]))
    BY <2>3, <2>12, IndexEntryHeld
  <2>14. Holds(F[k], z)
    BY <2>5, <2>9, <2>11, <2>13 DEF ix0, id, b
  <2> QED
    BY <2>14 DEF z, k
<1>11. n \in G
  <2> HIDE DEF G
  <2> QED
    BY <1>1, <1>9, <1>10, SetInduction
<1>12. Holds(F[n], upTo(n))
  BY <1>1, <1>11
<1>13. new = [i \in 1..n |-> E(i)] /\ n \in 0..n
  BY <1>1
<1>14. new \in Seq(Given) /\ sn \o new \in Seq(Given) /\ Holds(F[n], sn \o new)
  BY <1>8, <1>12, <1>13
<1>15. EntriesOf(good) = new
  BY DEF EntriesOf, E
<1> QED
  BY <1>4, <1>14, <1>15 DEF IndexSteps

\* The entries that are too old are removed one by one.
LEMMA AllRemoved ==
    ASSUME StreamNamed, clock \in Nat, NEW ix, NEW sn \in Seq(Given), Holds(ix, sn),
           NEW n \in 1..Len(ix.entries), \A i \in 1..n : Stale(ix.entries[i])
    PROVE  Holds(RemoveAll(ix, n), sn)
<1> DEFINE es == ix.entries
<1>1. es \in Seq(Given)
  BY DEF Holds, Agree, Index
<1>2. n \in 1..Len(es) /\ \A i \in 1..n : Stale(es[i])
  OBVIOUS
<1> HIDE DEF es
<1>3. Len(es) \in Nat /\ n \in Nat /\ n <= Len(es)
  BY <1>1, <1>2, LenProperties
<1>4. PICK F : RemoveSteps(F, ix, n)
  BY <1>3, RemovedOneByOne
<1>5. F[0] = ix /\ F[n] = RemoveAll(ix, n) /\ \A m \in 1..n : F[m] = RemoveOldest(F[m - 1])
  BY <1>4 DEF RemoveSteps
<1> DEFINE Left(m, r) == Len(r) = Len(es) - m /\ \A i \in 1..(Len(es) - m) : r[i] = es[m + i]
           G == {m \in Nat : m <= n => Holds(F[m], sn) /\ Left(m, F[m].entries)}
<1>6. 0 \in G
  <2>1. Left(0, es)
    BY <1>3
  <2> HIDE DEF Left
  <2> QED
    BY <1>5, <2>1 DEF es
<1>7. ASSUME NEW m \in Nat, m \in G PROVE m + 1 \in G
  <2> SUFFICES ASSUME m + 1 <= n PROVE Holds(F[m + 1], sn) /\ Left(m + 1, F[m + 1].entries)
    OBVIOUS
  <2>1. m <= n /\ m + 1 \in 1..n /\ m + 1 - 1 = m
    BY <1>3
  <2> DEFINE old == F[m]
             r == old.entries
  <2>2. Holds(old, sn) /\ Left(m, r)
    BY <1>7, <2>1
  <2>3. r \in Seq(Given)
    BY <2>2 DEF Holds, Agree, Index
  <2>4. F[m + 1] = RemoveOldest(old)
    BY <1>5, <2>1
  <2>5. Len(r) = Len(es) - m /\ \A i \in 1..(Len(es) - m) : r[i] = es[m + i]
    BY <2>2
  <2> HIDE DEF old, r, Left
  <2>6. Len(r) # 0 /\ 1 \in 1..(Len(es) - m)
    BY <1>3, <2>1, <2>5
  <2>7. r # <<>> /\ r[1] = es[m + 1]
    BY <2>3, <2>5, <2>6, EmptySeq
  <2>8. Stale(r[1])
    BY <1>2, <2>1, <2>7
  <2>9. Holds(RemoveOldest(old), sn) /\ RemoveOldest(old).entries = Tail(r)
    BY <2>2, <2>7, <2>8, RemoveStaleHeld DEF r
  <2> DEFINE t == Tail(r)
  <2>10. /\ Len(t) = Len(r) - 1 /\ \A i \in 1..(Len(r) - 1) : t[i] = r[i + 1]
    BY <2>3, <2>7, IdsOfTail
  <2> HIDE DEF t
  <2>11. Left(m + 1, t)
    <3>1. Len(t) = Len(es) - (m + 1)
      BY <1>3, <2>5, <2>10
    <3>2. ASSUME NEW i \in 1..(Len(es) - (m + 1)) PROVE t[i] = es[m + 1 + i]
      <4>1. i \in 1..(Len(r) - 1) /\ i + 1 \in 1..(Len(es) - m) /\ m + (i + 1) = m + 1 + i
        BY <1>3, <2>5
      <4> QED
        BY <2>5, <2>10, <4>1
    <3> QED
      BY <3>1, <3>2 DEF Left
  <2> QED
    BY <2>4, <2>9, <2>11 DEF t
<1>8. n \in G
  <2> HIDE DEF G
  <2> QED
    BY <1>3, <1>6, <1>7, SetInduction
<1> QED
  BY <1>3, <1>5, <1>8

\* What an index has agrees with the stream also when that has grown.
LEMMA AgreeKept ==
    ASSUME NEW ix, Agree(ix), NEW s \in Servers, IndexOf(s)' = ix,
           \A id \in DOMAIN stream : id \in DOMAIN stream' /\ stream'[id] = stream[id]
    PROVE  Agree(IndexOf(s))'
<1> DEFINE es == ix.entries
<1>1. \A i \in DOMAIN es : es[i].id \in DOMAIN stream
  BY DEF Agree
<1>2. \A i \in DOMAIN es : /\ es[i].id \in DOMAIN stream'
                           /\ stream'[es[i].id] = stream[es[i].id]
  BY <1>1
<1>3. \A a : {i \in DOMAIN es : stream'[es[i].id].agent = a} = OfAgent(es, a)
  BY <1>2 DEF OfAgent
<1>4. \A c : {i \in DOMAIN es : stream'[es[i].id].cycle = c} = OfCycle(es, c)
  BY <1>2 DEF OfCycle
<1>5. \A a : OfAgent(IndexOf(s).entries, a)' = OfAgent(es, a)
  BY <1>3 DEF OfAgent
<1>6. \A c : OfCycle(IndexOf(s).entries, c)' = OfCycle(es, c)
  BY <1>4 DEF OfCycle
<1>7. Ids(IndexOf(s).entries)' = Ids(es)
  BY DEF Ids
<1>8. (IndexOf(s) \in Index)'
  BY DEF Agree, Index, AgentNames, CycleNames
<1> QED
  BY <1>2, <1>5, <1>6, <1>7, <1>8 DEF Agree

\* A message has the fields of one, and when it is stamped its epoch too.
LEMMA Stamping ==
    ASSUME NEW m \in Message, NEW t \in Nat
    PROVE  /\ Stamp(m, t) \in Stamped
           /\ m.agent \in AgentNames /\ m.cycle \in CycleNames
           /\ Stamp(m, t).agent = m.agent /\ Stamp(m, t).cycle = m.cycle
           /\ Stamp(m, t).epoch = t
           /\ DOMAIN Stamp(m, t) = Fields \cup {"epoch"}
<1>1. DOMAIN m = Fields /\ m.agent \in AgentNames /\ m.cycle \in CycleNames
  <2>1. CASE m \in Records
    BY <2>1, RecordsAssumption DEF AgentNames, CycleNames, Agents, Cycles
  <2>2. ASSUME NEW a \in AgentNames, NEW c \in CycleNames, m = Denial(a, c)
        PROVE  DOMAIN m = Fields /\ m.agent \in AgentNames /\ m.cycle \in CycleNames
    BY <2>2 DEF Denial, Fields
  <2> QED
    BY <2>1, <2>2 DEF Message
<1>2. "agent" \in Fields /\ "cycle" \in Fields /\ "epoch" \notin Fields
  BY DEF Fields
<1>3. DOMAIN Stamp(m, t) = Fields \cup {"epoch"}
  BY <1>1 DEF Stamp
<1>4. /\ Stamp(m, t).agent = m.agent /\ Stamp(m, t).cycle = m.cycle
      /\ Stamp(m, t).epoch = t
  BY <1>1, <1>2 DEF Stamp
<1> QED
  BY <1>1, <1>3, <1>4 DEF Stamped

-----------------------------------------------------------------------------
(* What most steps keep *)

\* A message of the stream stays in it as it is.
StreamKept == \A id \in DOMAIN stream : id \in DOMAIN stream' /\ stream'[id] = stream[id]

\* What the stream holds has an agent and a cycle of those there are.
LEMMA StreamIsNamed ==
    ASSUME OnStream
    PROVE  StreamNamed /\ clock \in Nat /\ Len(stream) \in Nat /\ DOMAIN stream = 1..Len(stream)
           /\ group \in Int /\ (group # NoGroup => group \in Nat)
<1>1. clock \in Nat /\ MaxTime \in Nat
  BY BoundsAssumption DEF OnStream
<1>2. Len(stream) \in Nat /\ DOMAIN stream = 1..Len(stream)
  BY LenProperties DEF OnStream
<1>3. group \in Int /\ (group # NoGroup => group \in Nat)
  BY <1>2 DEF OnStream, NoGroup
<1>4. StreamNamed
  BY <1>2 DEF OnStream, StreamNamed
<1> QED
  BY <1>1, <1>2, <1>3, <1>4

\* What was handed out stays on the stream.
LEMMA HandedKept ==
    ASSUME OnStream, StreamKept, group' \in Int, group # NoGroup => group <= group'
    PROVE  Handed \subseteq Handed'
<1> SUFFICES ASSUME NEW id \in DOMAIN stream, group # NoGroup, id <= group
             PROVE  id \in DOMAIN stream' /\ group' # NoGroup /\ id <= group'
  BY DEF Handed
<1>1. group \in Nat /\ id \in Nat
  BY StreamIsNamed
<1>2. group <= group'
  OBVIOUS
<1>3. group' # NoGroup /\ id <= group'
  BY <1>1, <1>2 DEF NoGroup
<1> QED
  BY <1>3 DEF StreamKept

\* A step that leaves the stream and the consumer group alone.
LEMMA OnStreamKept ==
    ASSUME OnStream, stream' = stream, group' \in NoGroup..Len(stream),
           group # NoGroup => group <= group', clock' \in clock..MaxTime
    PROVE  /\ Handed \subseteq Handed' /\ StreamKept
           /\ acked' \cup lost' \subseteq Handed' => OnStream'
<1>1. StreamKept
  BY DEF StreamKept
<1>2. clock \in Nat /\ MaxTime \in Nat /\ Len(stream) \in Nat
  BY StreamIsNamed, BoundsAssumption
<1>3. group' \in Int
  BY <1>2 DEF NoGroup
<1>4. Handed \subseteq Handed'
  BY <1>1, <1>3, HandedKept
<1>5. clock' \in 0..MaxTime /\ \A e \in 0..clock : e \in 0..clock'
  BY <1>2
<1>6. /\ stream \in Seq(Stamped) /\ Len(stream) <= MaxStream
      /\ \A id \in DOMAIN stream :
            /\ stream[id].agent \in AgentNames /\ stream[id].cycle \in CycleNames
            /\ stream[id].epoch \in 0..clock'
  BY <1>5 DEF OnStream
<1>7. ASSUME acked' \cup lost' \subseteq Handed' PROVE OnStream'
  BY <1>5, <1>6, <1>7 DEF OnStream, AgentNames, CycleNames, Agents, Cycles, NoOne,
  Stamped, Stamp, Message, Denial
<1> QED
  BY <1>1, <1>4, <1>7

\* The least of two numbers.
LEMMA LeastOfTwo ==
    ASSUME NEW a \in Int, NEW b \in Int
    PROVE  Min({a, b}) = IF a <= b THEN a ELSE b
<1> DEFINE T == {a, b}
           Least(z) == \A y \in T : z <= y
           m == IF a <= b THEN a ELSE b
<1>1. m \in T /\ Least(m)
  OBVIOUS
<1>2. \A z \in T : Least(z) => z = m
  OBVIOUS
<1> QED
  BY <1>1, <1>2 DEF Min

\* A message more on the stream.
LEMMA Reached ==
    ASSUME OnStream, NEW m \in Message, Reach(m), UNCHANGED <<group, acked, clock, lost>>
    PROVE  OnStream' /\ StreamKept /\ Handed \subseteq Handed'
<1>1. clock \in Nat /\ MaxTime \in Nat /\ MaxDelay \in Nat /\ MaxStream \in Nat
      /\ Len(stream) \in Nat /\ stream \in Seq(Stamped)
  BY StreamIsNamed, BoundsAssumption DEF OnStream
<1>2. PICK age \in 0..Min({clock, MaxDelay}) : stream' = Append(stream, Stamp(m, clock - age))
  BY DEF Reach
<1>3. age \in Nat /\ age <= clock
  BY <1>1, <1>2, LeastOfTwo
<1> DEFINE t == clock - age
           e == Stamp(m, t)
<1>4. t \in Nat /\ t \in 0..clock
  BY <1>1, <1>3
<1> HIDE DEF t
<1>5. e \in Stamped /\ e.agent \in AgentNames /\ e.cycle \in CycleNames /\ e.epoch = t
  BY <1>4, Stamping
<1>6. stream' = Append(stream, e)
  BY <1>2 DEF t
<1> HIDE DEF e
<1>7. /\ stream' \in Seq(Stamped) /\ Len(stream') = Len(stream) + 1
      /\ \A i \in 1..Len(stream) : stream'[i] = stream[i]
      /\ stream'[Len(stream) + 1] = e
  BY <1>1, <1>5, <1>6, AppendProperties
<1>8. DOMAIN stream = 1..Len(stream) /\ DOMAIN stream' = 1..(Len(stream) + 1)
  BY <1>7, StreamIsNamed, LenProperties
<1>9. StreamKept
  BY <1>1, <1>7, <1>8 DEF StreamKept
<1>10. Handed \subseteq Handed'
  BY <1>9, HandedKept, StreamIsNamed
<1>11. Len(stream') <= MaxStream
  BY <1>1, <1>7 DEF Reach
<1>12. ASSUME NEW id \in DOMAIN stream'
       PROVE  /\ stream'[id].agent \in AgentNames /\ stream'[id].cycle \in CycleNames
              /\ stream'[id].epoch \in 0..clock
  <2>1. CASE id \in 1..Len(stream)
    BY <1>7, <1>8, <2>1 DEF OnStream
  <2>2. CASE id = Len(stream) + 1
    BY <1>4, <1>5, <1>7, <2>2
  <2> QED
    BY <1>1, <1>8, <2>1, <2>2
<1>13. group' \in NoGroup..Len(stream')
  BY <1>1, <1>7 DEF OnStream, NoGroup
<1>14. acked' \cup lost' \subseteq Handed'
  BY <1>10 DEF OnStream
<1>15. clock' \in 0..MaxTime
  BY DEF OnStream
<1>16. OnStream'
  BY <1>7, <1>11, <1>12, <1>13, <1>14, <1>15
  DEF OnStream, AgentNames, CycleNames, Agents, Cycles, NoOne,
  Stamped, Stamp, Message, Denial
<1> QED
  BY <1>9, <1>10, <1>16

\* One server's lists, when the step does not change them.
LEMMA ListsOfKept ==
    ASSUME OfLists, NEW s \in Servers, IndexOf(s)' = IndexOf(s), seen'[s] = seen[s],
           life'[s] = "gone" <=> life[s] = "gone",
           StreamKept, Handed \subseteq Handed', clock \in Nat, clock' \in Nat, clock <= clock'
    PROVE  ListsOf(s)'
<1> DEFINE ix == IndexOf(s)
           sn == seen[s]
<1>1. /\ Entered(s) \subseteq Handed
      /\ Agree(ix) /\ Len(entries[s]) <= MaxEntries /\ Newest(entries[s], sn)
      /\ life[s] # "gone" => NoneMissing(entries[s], sn)
      /\ life[s] = "gone" => entries[s] = <<>>
  BY DEF OfLists, ListsOf
<1>2. entries'[s] = entries[s]
  BY DEF IndexOf
<1>3. Entered(s)' \subseteq Handed'
  BY <1>1 DEF Entered
<1>4. Agree(IndexOf(s))'
  <2> HIDE DEF ix
  <2>1. IndexOf(s)' = ix
    BY DEF ix
  <2> QED
    BY <1>1, <2>1, AgreeKept DEF StreamKept
<1>5. Newest(entries[s], seen[s])'
  BY <1>1, <1>2 DEF Newest
<1>6. ASSUME life[s] # "gone" PROVE NoneMissing(entries[s], seen[s])'
  <2> DEFINE es == entries[s]
  <2>1. NoneMissing(es, sn)
    BY <1>1, <1>6
  <2>2. sn \in Seq(Given) /\ es \in Seq(Given)
    BY DEF OfLists
  <2>3. TTL \in Nat
    BY BoundsAssumption
  <2> HIDE DEF sn, es
  <2>4. Len(sn) \in Nat /\ Len(es) \in Nat /\ \A i \in 1..Len(sn) : sn[i].at \in Nat
    BY <2>2, IdsOfEntries
  <2>5. ASSUME NEW i \in 1..(Len(sn) - Len(es))
        PROVE  Len(sn) - i >= MaxEntries \/ clock' - sn[i].at > TTL
    <3>1. Len(sn) - i >= MaxEntries \/ clock - sn[i].at > TTL
      BY <2>1 DEF NoneMissing
    <3>2. sn[i].at \in Nat
      BY <2>4
    <3> QED
      BY <2>3, <3>1, <3>2
  <2>6. entries'[s] = es /\ seen'[s] = sn
    BY <1>2 DEF es, sn
  <2> QED
    BY <2>5, <2>6 DEF NoneMissing
<1> QED
  BY <1>1, <1>2, <1>3, <1>4, <1>5, <1>6 DEF ListsOf

\* A step that leaves every list alone, however the loops move.
LEMMA ListsKept ==
    ASSUME OfLists, UNCHANGED listVars, \A s \in Servers : life'[s] = "gone" <=> life[s] = "gone",
           StreamKept, Handed \subseteq Handed', clock \in Nat, clock' \in Nat, clock <= clock'
    PROVE  OfLists'
<1>1. ASSUME NEW s \in Servers PROVE ListsOf(s)'
  <2>1. IndexOf(s)' = IndexOf(s) /\ seen'[s] = seen[s]
    BY DEF listVars, IndexOf
  <2> QED
    BY <2>1, ListsOfKept
<1> QED
  BY <1>1 DEF OfLists, listVars, AgentNames, CycleNames, Agents, Cycles, Given, NoOne

-----------------------------------------------------------------------------
(* Who has which message *)

\* Messages only leave the loops: to be confirmed, or lost.
LEMMA ReadersKept ==
    ASSUME OfReaders, OfLoops, seen' = seen,
           \A k \in Starts : \/ loop'[k] \notin {"replied", "acking"}
                             \/ loop'[k] = loop[k] /\ batch'[k] = batch[k],
           lost' \subseteq lost \cup UNION {InFlight(k) : k \in {r \in Starts : loop'[r] # "replied"}},
           acked' \subseteq acked \cup
               UNION {Range(batch[k]) : k \in {r \in Starts : loop[r] = "acking"}}
    PROVE  OfReaders'
<1>1. \A s \in Servers : Entered(s)' = Entered(s)
  BY DEF Entered
<1>2. ASSUME NEW k \in Starts
      PROVE  /\ InFlight(k)' \subseteq InFlight(k)
             /\ loop'[k] # "replied" => InFlight(k)' = {}
  BY DEF InFlight, Range
<1>3. \A k \in Starts : Home[k] \in Servers
  BY BoundsAssumption
<1>4. /\ \A k, r \in Starts : k # r => InFlight(k) \cap InFlight(r) = {}
      /\ \A s, t \in Servers :
            /\ s # t => Entered(s) \cap Entered(t) = {}
            /\ Entered(s) \cap (lost \cup UNION {InFlight(k) : k \in Starts}) = {}
            /\ IsInjective(seen[s])
      /\ acked \subseteq UNION {Entered(s) : s \in Servers}
      /\ \A k \in Starts : loop[k] = "acking" => Range(batch[k]) \subseteq Entered(Home[k])
      /\ \A k \in Starts : loop[k] = "replied" => IsInjective(batch[k])
      /\ \A k \in Starts : InFlight(k) \cap lost = {}
  BY DEF OfReaders, ReadByOne
<1>5. acked' \subseteq UNION {Entered(s) : s \in Servers}
  BY <1>3, <1>4
<1>6. \A x \in lost' : x \in lost \/ \E k \in Starts : x \in InFlight(k)
  OBVIOUS
<1>7. ASSUME NEW s \in Servers
      PROVE  Entered(s) \cap (lost' \cup UNION {InFlight(k)' : k \in Starts}) = {}
  <2>1. \A x \in Entered(s) : x \notin lost /\ \A k \in Starts : x \notin InFlight(k)
    BY <1>4
  <2>2. \A x \in Entered(s) : x \notin lost' /\ \A k \in Starts : x \notin InFlight(k)'
    BY <1>2, <1>6, <2>1
  <2> QED
    BY <2>2
<1>8. acked' \cap (lost' \cup UNION {InFlight(k)' : k \in Starts}) = {}
  <2> SUFFICES ASSUME NEW x \in acked'
               PROVE  x \notin lost' \cup UNION {InFlight(k)' : k \in Starts}
    OBVIOUS
  <2>1. PICK s \in Servers : x \in Entered(s)
    BY <1>5
  <2> QED
    BY <1>7, <2>1
<1>9. \A k, r \in Starts : k # r => InFlight(k)' \cap InFlight(r)' = {}
  BY <1>2, <1>4
<1>10. ReadByOne'
  BY <1>1, <1>4, <1>7, <1>8, <1>9 DEF ReadByOne
<1>11. (acked \subseteq UNION {Entered(s) : s \in Servers})'
  BY <1>1, <1>5
<1>12. ASSUME NEW k \in Starts
       PROVE  /\ loop'[k] = "acking" => Range(batch'[k]) \subseteq Entered(Home[k])'
              /\ loop'[k] = "replied" => IsInjective(batch'[k])
              /\ InFlight(k)' \cap lost' = {}
  <2>1. InFlight(k)' \cap lost' = {}
    <3>1. CASE loop'[k] # "replied"
      BY <1>2, <3>1
    <3>2. CASE loop'[k] = "replied"
      <4>1. \A x \in lost' : x \in lost \/ \E r \in Starts \ {k} : x \in InFlight(r)
        BY <3>2
      <4> QED
        BY <1>2, <1>4, <4>1
    <3> QED
      BY <3>1, <3>2
  <2> QED
    BY <1>1, <1>3, <1>4, <2>1
<1> QED
  BY <1>10, <1>11, <1>12 DEF OfReaders

\* A reply holds messages that nobody has been handed.
LEMMA ReadersRead ==
    ASSUME OfReaders, OfLoops, OfLists, acked \cup lost \subseteq Handed, NEW k \in Starts,
           seen' = seen, lost' = lost, acked' = acked,
           loop'[k] = "replied", IsInjective(batch'[k]), Range(batch'[k]) \cap Handed = {},
           \A r \in Starts \ {k} : loop'[r] = loop[r] /\ batch'[r] = batch[r]
    PROVE  OfReaders'
<1>1. \A s \in Servers : Entered(s)' = Entered(s) /\ Entered(s) \subseteq Handed
  BY DEF Entered, OfLists, ListsOf
<1>2. /\ InFlight(k)' = Range(batch'[k])
      /\ \A r \in Starts \ {k} : InFlight(r)' = InFlight(r)
  BY DEF InFlight, Range
<1>3. \A r \in Starts : InFlight(r) \subseteq Handed
  BY DEF InFlight, OfLoops
<1>4. /\ acked \cap (lost \cup UNION {InFlight(r) : r \in Starts}) = {}
      /\ \A q, r \in Starts : q # r => InFlight(q) \cap InFlight(r) = {}
      /\ \A s, t \in Servers :
            /\ s # t => Entered(s) \cap Entered(t) = {}
            /\ Entered(s) \cap (lost \cup UNION {InFlight(r) : r \in Starts}) = {}
            /\ IsInjective(seen[s])
      /\ acked \subseteq UNION {Entered(s) : s \in Servers}
      /\ \A r \in Starts : loop[r] = "acking" => Range(batch[r]) \subseteq Entered(Home[r])
      /\ \A r \in Starts : loop[r] = "replied" => IsInjective(batch[r])
      /\ \A r \in Starts : InFlight(r) \cap lost = {}
  BY DEF OfReaders, ReadByOne
<1>5. \A r \in Starts : Home[r] \in Servers
  BY BoundsAssumption
<1>6. ASSUME NEW s \in Servers
      PROVE  Entered(s) \cap (lost' \cup UNION {InFlight(r)' : r \in Starts}) = {}
  <2>1. \A x \in Entered(s) : x \notin lost /\ \A r \in Starts : x \notin InFlight(r)
    BY <1>4
  <2>2. \A x \in Entered(s) : x \notin lost' /\ \A r \in Starts : x \notin InFlight(r)'
    BY <1>1, <1>2, <2>1
  <2> QED
    BY <2>2
<1>7. acked' \cap (lost' \cup UNION {InFlight(r)' : r \in Starts}) = {}
  <2> SUFFICES ASSUME NEW x \in acked'
               PROVE  x \notin lost' \cup UNION {InFlight(r)' : r \in Starts}
    OBVIOUS
  <2>1. PICK s \in Servers : x \in Entered(s)
    BY <1>4
  <2> QED
    BY <1>6, <2>1
<1>8. \A q, r \in Starts : q # r => InFlight(q)' \cap InFlight(r)' = {}
  BY <1>2, <1>3, <1>4
<1>9. ReadByOne'
  BY <1>1, <1>4, <1>6, <1>7, <1>8 DEF ReadByOne
<1>10. (acked \subseteq UNION {Entered(s) : s \in Servers})'
  BY <1>1, <1>4
<1>11. ASSUME NEW r \in Starts
       PROVE  /\ loop'[r] = "acking" => Range(batch'[r]) \subseteq Entered(Home[r])'
              /\ loop'[r] = "replied" => IsInjective(batch'[r])
              /\ InFlight(r)' \cap lost' = {}
  <2>1. InFlight(r)' \cap lost' = {}
    BY <1>2, <1>4
  <2> QED
    BY <1>1, <1>4, <1>5, <2>1
<1> QED
  BY <1>9, <1>10, <1>11 DEF OfReaders

\* Of the messages of a reply those of good are given to the index, the others are lost.
LEMMA ReadersProcess ==
    ASSUME OfReaders, OfLoops, NEW k \in Starts, loop[k] = "replied", NEW good,
           Range(good) \subseteq Range(batch[k]), acked' = acked,
           lost' = lost \cup (Range(batch[k]) \ Range(good)),
           \A s \in Servers \ {Home[k]} : seen'[s] = seen[s],
           IsInjective(seen'[Home[k]]),
           Entered(Home[k])' = Entered(Home[k]) \cup Range(good),
           loop'[k] # "replied", loop'[k] = "acking" => batch'[k] = good,
           \A r \in Starts \ {k} : loop'[r] = loop[r] /\ batch'[r] = batch[r]
    PROVE  OfReaders'
<1> DEFINE h == Home[k]
           given == Range(good)
           reply == Range(batch[k])
<1>1. h \in Servers /\ \A r \in Starts : Home[r] \in Servers
  BY BoundsAssumption
<1>2. /\ Entered(h)' = Entered(h) \cup given
      /\ \A s \in Servers \ {h} : Entered(s)' = Entered(s)
  BY DEF Entered
<1>3. /\ InFlight(k)' = {} /\ InFlight(k) = reply
      /\ \A r \in Starts \ {k} : InFlight(r)' = InFlight(r)
  BY DEF InFlight, Range
<1>4. given \subseteq reply /\ lost' = lost \cup (reply \ given)
  OBVIOUS
<1> HIDE DEF given, reply, h
<1>5. /\ acked \cap (lost \cup UNION {InFlight(r) : r \in Starts}) = {}
      /\ \A q, r \in Starts : q # r => InFlight(q) \cap InFlight(r) = {}
      /\ \A s, t \in Servers :
            /\ s # t => Entered(s) \cap Entered(t) = {}
            /\ Entered(s) \cap (lost \cup UNION {InFlight(r) : r \in Starts}) = {}
            /\ IsInjective(seen[s])
      /\ acked \subseteq UNION {Entered(s) : s \in Servers}
      /\ \A r \in Starts : loop[r] = "acking" => Range(batch[r]) \subseteq Entered(Home[r])
      /\ \A r \in Starts : loop[r] = "replied" => IsInjective(batch[r])
      /\ \A r \in Starts : InFlight(r) \cap lost = {}
  BY DEF OfReaders, ReadByOne
<1>6. \A s \in Servers : \A x \in Entered(s) :
        x \notin lost /\ x \notin reply /\ \A r \in Starts : x \notin InFlight(r)
  BY <1>3, <1>5
<1>7. /\ acked \subseteq UNION {Entered(s) : s \in Servers}
      /\ \A x \in acked : x \notin lost /\ x \notin reply /\ \A r \in Starts : x \notin InFlight(r)
  BY <1>3, <1>5
<1>8. \A s \in Servers : Entered(s) \subseteq Entered(s)'
  BY <1>2
<1>9. \A r \in Starts \ {k} : InFlight(r) \cap reply = {}
  BY <1>3, <1>5
<1>10. acked' \cap (lost' \cup UNION {InFlight(r)' : r \in Starts}) = {}
  <2>1. \A x \in acked : x \notin lost' /\ \A r \in Starts : x \notin InFlight(r)'
    BY <1>3, <1>4, <1>7
  <2> QED
    BY <2>1
<1>11. \A q, r \in Starts : q # r => InFlight(q)' \cap InFlight(r)' = {}
  BY <1>3, <1>5
<1>12. \A s, t \in Servers : s # t => Entered(s)' \cap Entered(t)' = {}
  <2> SUFFICES ASSUME NEW s \in Servers, NEW t \in Servers, s # t
               PROVE  Entered(s)' \cap Entered(t)' = {}
    OBVIOUS
  <2>1. Entered(s) \cap Entered(t) = {} /\ given \cap Entered(s) = {} /\ given \cap Entered(t) = {}
    BY <1>4, <1>5, <1>6
  <2>2. CASE s = h
    <3>1. Entered(s)' = Entered(s) \cup given /\ Entered(t)' = Entered(t)
      BY <1>2, <2>2
    <3> QED
      BY <2>1, <3>1
  <2>3. CASE t = h
    <3>1. Entered(t)' = Entered(t) \cup given /\ Entered(s)' = Entered(s)
      BY <1>2, <2>3
    <3> QED
      BY <2>1, <3>1
  <2>4. CASE s # h /\ t # h
    <3>1. Entered(t)' = Entered(t) /\ Entered(s)' = Entered(s)
      BY <1>2, <2>4
    <3> QED
      BY <2>1, <3>1
  <2> QED
    BY <2>2, <2>3, <2>4
<1>13. ASSUME NEW s \in Servers
       PROVE  Entered(s)' \cap (lost' \cup UNION {InFlight(r)' : r \in Starts}) = {}
  <2>1. \A x \in Entered(s) : x \notin lost' /\ \A r \in Starts : x \notin InFlight(r)'
    BY <1>3, <1>4, <1>6
  <2>2. \A x \in given : x \notin lost' /\ \A r \in Starts : x \notin InFlight(r)'
    BY <1>3, <1>4, <1>5, <1>9
  <2>3. \A x \in Entered(s)' : x \in Entered(s) \/ x \in given
    BY <1>2
  <2> QED
    BY <2>1, <2>2, <2>3
<1>14. \A s \in Servers : IsInjective(seen'[s])
  BY <1>5 DEF h
<1>15. ReadByOne'
  BY <1>10, <1>11, <1>12, <1>13, <1>14 DEF ReadByOne
<1>16. (acked \subseteq UNION {Entered(s) : s \in Servers})'
  BY <1>7, <1>8
<1>17. ASSUME NEW r \in Starts
       PROVE  /\ loop'[r] = "acking" => Range(batch'[r]) \subseteq Entered(Home[r])'
              /\ loop'[r] = "replied" => IsInjective(batch'[r])
              /\ InFlight(r)' \cap lost' = {}
  <2>1. CASE r = k
    <3>1. loop'[r] = "acking" => Range(batch'[r]) \subseteq Entered(Home[r])'
      BY <1>2, <2>1 DEF given, h
    <3> QED
      BY <1>3, <2>1, <3>1
  <2>2. CASE r # k
    <3>1. InFlight(r)' \cap lost' = {}
      BY <1>3, <1>4, <1>5, <1>9, <2>2
    <3> QED
      BY <1>1, <1>5, <1>8, <2>2, <3>1
  <2> QED
    BY <2>1, <2>2
<1> QED
  BY <1>15, <1>16, <1>17 DEF OfReaders

-----------------------------------------------------------------------------
(* The index of one server changes *)

\* The index of a process that has just started.
Empty == [entries |-> <<>>, byAgent |-> [a \in AgentNames |-> <<>>],
          byCycle |-> [c \in CycleNames |-> <<>>]]

\* An index without entries is one of whatever was given.
LEMMA EmptyAgrees ==
    /\ Agree(Empty) /\ \A sn \in Seq(Given) : Newest(<<>>, sn)
    /\ Empty \in Index
<1>1. Empty \in Index
  BY EmptySeq DEF Empty, Index
<1>2. Picked(<<>>, {}) = <<>>
  <2>1. Cardinality({}) = 0
    BY FS_EmptySet
  <2> QED
    BY <2>1 DEF Picked
<1>3. /\ Ids(<<>>) = <<>> /\ \A a : OfAgent(<<>>, a) = {}
      /\ \A c : OfCycle(<<>>, c) = {}
  BY DEF Ids, OfAgent, OfCycle
<1>4. IsInjective(<<>>)
  BY EmptyOnce
<1>5. /\ Empty.entries = <<>>
      /\ \A a \in AgentNames : Empty.byAgent[a] = <<>>
      /\ \A c \in CycleNames : Empty.byCycle[c] = <<>>
  BY DEF Empty
<1>6. NoOne \in AgentNames /\ NoOne \in CycleNames /\ Agents \subseteq AgentNames
      /\ Cycles \subseteq CycleNames
  BY DEF AgentNames, CycleNames
<1>7. DOMAIN <<>> = {}
  OBVIOUS
<1>8. Agree(Empty)
  <2> DEFINE e == Empty
  <2> HIDE DEF e
  <2>1. /\ e \in Index /\ e.entries = <<>>
        /\ \A a \in AgentNames : e.byAgent[a] = <<>>
        /\ \A c \in CycleNames : e.byCycle[c] = <<>>
    BY <1>1, <1>5 DEF e
  <2>2. /\ \A i \in DOMAIN e.entries : e.entries[i].id \in DOMAIN stream
        /\ IsInjective(Ids(e.entries))
    BY <1>3, <1>4, <1>7, <2>1
  <2>3. /\ \A a \in Agents \ {NoOne} :
              e.byAgent[a] = Picked(Ids(e.entries), OfAgent(e.entries, a))
        /\ \A c \in Cycles \ {NoOne} :
              e.byCycle[c] = Picked(Ids(e.entries), OfCycle(e.entries, c))
        /\ e.byAgent[NoOne] = <<>> /\ e.byCycle[NoOne] = <<>>
    BY <1>2, <1>3, <1>6, <2>1
  <2>4. Agree(e)
    BY <2>1, <2>2, <2>3 DEF Agree
  <2> QED
    BY <2>4 DEF e
<1>9. ASSUME NEW sn \in Seq(Given) PROVE Newest(<<>>, sn)
  <2>1. Len(sn) \in Nat /\ Len(<<>>) = 0
    BY LenProperties, EmptySeq
  <2> QED
    BY <2>1 DEF Newest
<1> QED
  BY <1>1, <1>8, <1>9

\* SetIndex gives one server its lists and leaves the others'.
LEMMA IndexSet ==
    ASSUME OfLists, NEW s \in Servers, NEW ix \in Index, SetIndex(s, ix)
    PROVE  /\ IndexOf(s)' = ix /\ entries'[s] = ix.entries
           /\ \A t \in Servers \ {s} : IndexOf(t)' = IndexOf(t)
           /\ entries' \in [Servers -> Seq(Given)]
           /\ byAgent' \in [Servers -> [AgentNames -> Seq(Nat)]]
           /\ byCycle' \in [Servers -> [CycleNames -> Seq(Nat)]]
<1>1. /\ ix.entries \in Seq(Given) /\ ix.byAgent \in [AgentNames -> Seq(Nat)]
      /\ ix.byCycle \in [CycleNames -> Seq(Nat)]
      /\ ix = [entries |-> ix.entries, byAgent |-> ix.byAgent, byCycle |-> ix.byCycle]
  BY DEF Index
<1>2. /\ entries \in [Servers -> Seq(Given)]
      /\ byAgent \in [Servers -> [AgentNames -> Seq(Nat)]]
      /\ byCycle \in [Servers -> [CycleNames -> Seq(Nat)]]
  BY DEF OfLists
<1>3. /\ entries' = [entries EXCEPT ![s] = ix.entries]
      /\ byAgent' = [byAgent EXCEPT ![s] = ix.byAgent]
      /\ byCycle' = [byCycle EXCEPT ![s] = ix.byCycle]
  BY DEF SetIndex
<1>4. /\ entries' \in [Servers -> Seq(Given)]
      /\ byAgent' \in [Servers -> [AgentNames -> Seq(Nat)]]
      /\ byCycle' \in [Servers -> [CycleNames -> Seq(Nat)]]
  BY <1>1, <1>2, <1>3
<1>5. entries'[s] = ix.entries /\ byAgent'[s] = ix.byAgent /\ byCycle'[s] = ix.byCycle
  BY <1>2, <1>3
<1>6. \A t \in Servers \ {s} : /\ entries'[t] = entries[t] /\ byAgent'[t] = byAgent[t]
                               /\ byCycle'[t] = byCycle[t]
  BY <1>2, <1>3
<1>7. IndexOf(s)' = ix
  BY <1>1, <1>5 DEF IndexOf
<1>8. \A t \in Servers \ {s} : IndexOf(t)' = IndexOf(t)
  BY <1>6 DEF IndexOf
<1> QED
  BY <1>4, <1>5, <1>7, <1>8

\* What one server's lists have become, when the others' are kept.
LEMMA ListsSet ==
    ASSUME OfLists, NEW s \in Servers, NEW ix \in Index, SetIndex(s, ix),
           NEW sn \in Seq(Given), seen' = [seen EXCEPT ![s] = sn],
           StreamKept, Handed \subseteq Handed', clock \in Nat, clock' = clock,
           \A t \in Servers \ {s} : life'[t] = life[t],
           Agree(ix), Len(ix.entries) <= MaxEntries, Newest(ix.entries, sn),
           life'[s] # "gone" => NoneMissing(ix.entries, sn),
           life'[s] = "gone" => ix.entries = <<>>,
           Entered(s)' \subseteq Handed'
    PROVE  OfLists'
<1>1. /\ IndexOf(s)' = ix /\ entries'[s] = ix.entries
      /\ \A t \in Servers \ {s} : IndexOf(t)' = IndexOf(t)
      /\ entries' \in [Servers -> Seq(Given)]
      /\ byAgent' \in [Servers -> [AgentNames -> Seq(Nat)]]
      /\ byCycle' \in [Servers -> [CycleNames -> Seq(Nat)]]
  BY IndexSet
<1>2. /\ seen' \in [Servers -> Seq(Given)] /\ seen'[s] = sn
      /\ \A t \in Servers \ {s} : seen'[t] = seen[t]
  BY DEF OfLists
<1>3. Agree(IndexOf(s))'
  BY <1>1, AgreeKept DEF StreamKept
<1>4. /\ Newest(entries[s], seen[s])' /\ Len(entries'[s]) <= MaxEntries
      /\ life'[s] = "gone" => entries'[s] = <<>>
  BY <1>1, <1>2 DEF Newest
<1>5. (life[s] # "gone" => NoneMissing(entries[s], seen[s]))'
  BY <1>1, <1>2 DEF NoneMissing
<1>6. ListsOf(s)'
  BY <1>3, <1>4, <1>5 DEF ListsOf
<1>7. ASSUME NEW t \in Servers \ {s} PROVE ListsOf(t)'
  <2>1. /\ t \in Servers /\ IndexOf(t)' = IndexOf(t) /\ seen'[t] = seen[t]
        /\ life'[t] = "gone" <=> life[t] = "gone"
    BY <1>1, <1>2
  <2>2. clock' \in Nat /\ clock <= clock'
    OBVIOUS
  <2> QED
    BY <2>1, <2>2, ListsOfKept
<1>8. \A t \in Servers : ListsOf(t)'
  BY <1>6, <1>7
<1> QED
  BY <1>1, <1>2, <1>8 DEF OfLists, AgentNames, CycleNames, Agents, Cycles, Given, NoOne

\* The lists of a process at its end.
LEMMA ListsCleared ==
    ASSUME OfLists, NEW s \in Servers, ClearIndex(s), seen' = seen, life'[s] = "gone",
           StreamKept, Handed \subseteq Handed', clock \in Nat, clock' = clock,
           \A t \in Servers \ {s} : life'[t] = life[t]
    PROVE  OfLists'
<1> DEFINE sn == seen[s]
<1>1. sn \in Seq(Given) /\ seen = [seen EXCEPT ![s] = sn] /\ Entered(s) \subseteq Handed
  BY DEF OfLists, ListsOf
<1>2. Entered(s)' \subseteq Handed'
  BY <1>1 DEF Entered
<1>3. SetIndex(s, Empty)
  BY DEF ClearIndex, Empty, AgentNames, CycleNames
<1>4. seen' = [seen EXCEPT ![s] = sn]
  BY <1>1
<1> HIDE DEF sn
<1>5. /\ Empty \in Index /\ Agree(Empty) /\ Newest(<<>>, sn)
      /\ Empty.entries = <<>> /\ Len(<<>>) = 0 /\ 0 <= MaxEntries
  BY <1>1, EmptyAgrees, EmptySeq, BoundsAssumption DEF Empty
<1> QED
  BY <1>1, <1>2, <1>3, <1>4, <1>5, ListsSet

\* No process has started, and the stream is empty.
LEMMA GateInit == IndexInit => GateInv
<1> SUFFICES ASSUME IndexInit PROVE GateInv
  OBVIOUS
<1> USE DEF IndexInit
<1>1. /\ MaxStream \in Nat /\ MaxTime \in Nat /\ MaxEntries \in Nat /\ ReadCount \in Nat
      /\ \A k \in Starts : Home[k] \in Servers
  BY BoundsAssumption
<1>2. \A S : <<>> \in Seq(S)
  BY EmptyOnce
<1>3. Len(<<>>) = 0 /\ DOMAIN <<>> = {} /\ Range(<<>>) = {} /\ IsInjective(<<>>)
  BY EmptyOnce
<1>4. Handed = {}
  BY <1>3 DEF Handed
<1>5. OnStream
  BY <1>1, <1>2, <1>3, <1>4 DEF OnStream, NoGroup
<1>6. OfLoops
  BY <1>1, <1>2, <1>3, <1>4 DEF OfLoops, Lives, Phases
<1>7. \A s \in Servers : Entered(s) = {}
  BY <1>3 DEF Entered
<1>8. ASSUME NEW s \in Servers PROVE ListsOf(s)
  <2>1. IndexOf(s) = Empty
    BY DEF IndexOf, Empty, AgentNames, CycleNames
  <2>2. Agree(Empty) /\ Newest(<<>>, <<>>)
    BY <1>2, EmptyAgrees
  <2>3. entries[s] = <<>> /\ seen[s] = <<>>
    OBVIOUS
  <2>4. NoneMissing(<<>>, <<>>)
    BY <1>3 DEF NoneMissing
  <2> QED
    BY <1>1, <1>3, <1>7, <2>1, <2>2, <2>3, <2>4 DEF ListsOf
<1>9. OfLists
  <2>1. /\ entries \in [Servers -> Seq(Given)] /\ seen \in [Servers -> Seq(Given)]
        /\ byAgent \in [Servers -> [AgentNames -> Seq(Nat)]]
        /\ byCycle \in [Servers -> [CycleNames -> Seq(Nat)]]
    BY <1>2 DEF AgentNames, CycleNames
  <2> QED
    BY <1>8, <2>1 DEF OfLists
<1>10. \A k \in Starts : InFlight(k) = {} /\ loop[k] = "none"
  BY DEF InFlight
<1>11. OfReaders
  BY <1>3, <1>7, <1>10 DEF OfReaders, ReadByOne
<1> QED
  BY <1>5, <1>6, <1>9, <1>11 DEF GateInv

-----------------------------------------------------------------------------
(* The steps *)

\* A loop that does not process has no batch.
LEMMA IdleBatch ==
    ASSUME OfLoops, NEW k \in Starts, loop[k] \notin {"replied", "acking"}
    PROVE  batch[k] = <<>> /\ batch = [batch EXCEPT ![k] = <<>>]
<1>1. batch[k] = <<>> /\ batch \in [Starts -> Seq(Nat)]
  BY DEF OfLoops
<1> QED
  BY <1>1

\* One loop moves; the others stay where they are.
LEMMA LoopTurns ==
    ASSUME OfLoops, NEW k \in Starts, NEW p \in Phases, NEW b \in Seq(Nat),
           loop' = [loop EXCEPT ![k] = p], batch' = [batch EXCEPT ![k] = b],
           Range(b) \subseteq Handed', Len(b) <= ReadCount,
           (b # <<>>) = (p \in {"replied", "acking"}),
           p \in {"reading", "replied", "acking", "sleeping"} => group' # NoGroup,
           Handed \subseteq Handed', group # NoGroup => group' # NoGroup,
           life' \in [Servers -> Lives], awaited' \in [Servers -> Starts \cup {NoLoop}],
           redis' \subseteq Servers
    PROVE  /\ OfLoops' /\ loop'[k] = p /\ batch'[k] = b
           /\ \A r \in Starts \ {k} : loop'[r] = loop[r] /\ batch'[r] = batch[r]
<1>1. loop \in [Starts -> Phases] /\ batch \in [Starts -> Seq(Nat)]
  BY DEF OfLoops
<1>2. /\ loop' \in [Starts -> Phases] /\ batch' \in [Starts -> Seq(Nat)]
      /\ loop'[k] = p /\ batch'[k] = b
      /\ \A r \in Starts \ {k} : loop'[r] = loop[r] /\ batch'[r] = batch[r]
  BY <1>1
<1>3. ASSUME NEW r \in Starts
      PROVE  /\ Range(batch'[r]) \subseteq Handed' /\ Len(batch'[r]) <= ReadCount
             /\ (batch'[r] # <<>>) = (loop'[r] \in {"replied", "acking"})
             /\ loop'[r] \in {"reading", "replied", "acking", "sleeping"} => group' # NoGroup
  <2>1. CASE r = k
    BY <1>2, <2>1
  <2>2. CASE r # k
    <3>1. loop'[r] = loop[r] /\ batch'[r] = batch[r]
      BY <1>2, <2>2
    <3>2. /\ Range(batch[r]) \subseteq Handed /\ Len(batch[r]) <= ReadCount
          /\ (batch[r] # <<>>) = (loop[r] \in {"replied", "acking"})
          /\ loop[r] \in {"reading", "replied", "acking", "sleeping"} => group # NoGroup
      BY DEF OfLoops
    <3> QED
      BY <3>1, <3>2
  <2> QED
    BY <2>1, <2>2
<1>4. OfLoops'
  BY <1>2, <1>3 DEF OfLoops, Lives, Phases, NoLoop
<1> QED
  BY <1>2, <1>4

\* A loop moves, and leaves what it was handed behind.
LEMMA QuietTurn ==
    ASSUME GateInv, NEW k \in Starts, NEW p \in Phases \ {"replied", "acking"},
           loop' = [loop EXCEPT ![k] = p], batch' = [batch EXCEPT ![k] = <<>>],
           p \in {"reading", "sleeping"} => group' # NoGroup,
           stream' = stream, clock' = clock,
           group' \in NoGroup..Len(stream), group # NoGroup => group <= group',
           UNCHANGED listVars, life' \in [Servers -> Lives],
           \A s \in Servers : life'[s] = "gone" <=> life[s] = "gone",
           awaited' \in [Servers -> Starts \cup {NoLoop}], redis' \subseteq Servers,
           acked' \subseteq acked \cup (IF loop[k] = "acking" THEN Range(batch[k]) ELSE {}),
           lost' \subseteq lost \cup InFlight(k)
    PROVE  GateInv'
<1> USE DEF GateInv
<1>1. /\ clock \in Nat /\ Len(stream) \in Nat /\ clock \in 0..MaxTime /\ MaxTime \in Nat
      /\ ReadCount \in Nat
  BY StreamIsNamed, BoundsAssumption DEF OnStream
<1>2. clock' \in clock..MaxTime /\ clock' \in Nat /\ clock <= clock'
  BY <1>1
<1>3. Handed \subseteq Handed' /\ StreamKept /\ (acked' \cup lost' \subseteq Handed' => OnStream')
  BY <1>2, OnStreamKept
<1>4. Range(batch[k]) \subseteq Handed /\ InFlight(k) \subseteq Handed
  BY DEF OfLoops, InFlight
<1>5. acked' \cup lost' \subseteq Handed'
  BY <1>3, <1>4 DEF OnStream
<1>6. OnStream'
  BY <1>3, <1>5
<1>7. OfLists'
  BY <1>1, <1>2, <1>3, ListsKept
<1>8. group # NoGroup => group' # NoGroup
  BY <1>1, StreamIsNamed DEF NoGroup
<1>9. <<>> \in Seq(Nat) /\ Range(<<>>) = {} /\ Len(<<>>) = 0
  BY EmptyOnce
<1>10. /\ OfLoops' /\ loop'[k] = p
       /\ \A r \in Starts \ {k} : loop'[r] = loop[r] /\ batch'[r] = batch[r]
  <2> DEFINE b == <<>>
  <2>1. /\ b \in Seq(Nat) /\ Range(b) \subseteq Handed' /\ Len(b) <= ReadCount
        /\ (b # <<>>) = (p \in {"replied", "acking"})
        /\ batch' = [batch EXCEPT ![k] = b] /\ p \in Phases
    BY <1>1, <1>9
  <2>2. p \in {"reading", "replied", "acking", "sleeping"} => group' # NoGroup
    OBVIOUS
  <2> HIDE DEF b
  <2> QED
    BY <1>3, <1>8, <2>1, <2>2, LoopTurns
<1>11. OfReaders'
  <2>1. \A r \in Starts : \/ loop'[r] \notin {"replied", "acking"}
                          \/ loop'[r] = loop[r] /\ batch'[r] = batch[r]
    BY <1>10
  <2>2. lost' \subseteq
          lost \cup UNION {InFlight(r) : r \in {q \in Starts : loop'[q] # "replied"}}
    BY <1>10
  <2>3. acked' \subseteq
          acked \cup UNION {Range(batch[r]) : r \in {q \in Starts : loop[q] = "acking"}}
    OBVIOUS
  <2> QED
    BY <2>1, <2>2, <2>3, ReadersKept DEF listVars
<1> QED
  BY <1>6, <1>7, <1>10, <1>11

\* The loops stay where they are, and nothing is lost or confirmed.
LEMMA LoopsStay ==
    ASSUME GateInv, UNCHANGED <<loop, batch, awaited, group, acked, lost, seen>>,
           Handed \subseteq Handed',
           life' \in [Servers -> Lives], redis' \subseteq Servers
    PROVE  OfLoops' /\ OfReaders'
<1> USE DEF GateInv
<1>1. ASSUME NEW k \in Starts
      PROVE  /\ Range(batch'[k]) \subseteq Handed' /\ Len(batch'[k]) <= ReadCount
             /\ (batch'[k] # <<>>) = (loop'[k] \in {"replied", "acking"})
             /\ loop'[k] \in {"reading", "replied", "acking", "sleeping"} => group' # NoGroup
  BY DEF OfLoops
<1>2. OfLoops'
  BY <1>1 DEF OfLoops, Lives, Phases, NoLoop
<1>3. OfReaders'
  BY ReadersKept
<1> QED
  BY <1>2, <1>3

\* start: a loop is called into being.
LEMMA StepStart == ASSUME GateInv, NEW k \in Starts, Start(k) PROVE GateInv'
<1> USE DEF GateInv
<1>1. batch' = [batch EXCEPT ![k] = <<>>]
  BY IdleBatch DEF Start
<1>2. Home[k] \in Servers /\ Len(stream) \in Nat /\ group \in Int
  BY BoundsAssumption, StreamIsNamed
<1>3. /\ group' \in NoGroup..Len(stream) /\ group <= group'
      /\ life' \in [Servers -> Lives] /\ awaited' \in [Servers -> Starts \cup {NoLoop}]
      /\ redis' \subseteq Servers
  BY <1>2 DEF Start, OnStream, OfLoops
<1>4. "opening" \in Phases \ {"replied", "acking"}
  BY DEF Phases
<1> QED
  BY <1>1, <1>3, <1>4, QuietTurn DEF Start

\* The connection and the consumer group are there: the loop begins, and awaits a reply.
LEMMA StepOpened == ASSUME GateInv, NEW k \in Starts, Opened(k) PROVE GateInv'
<1> USE DEF GateInv
<1> DEFINE h == Home[k]
           p == IF h \in redis THEN "reading" ELSE "ended"
<1>1. batch' = [batch EXCEPT ![k] = <<>>]
  BY IdleBatch DEF Opened
<1>2. /\ h \in Servers /\ Len(stream) \in Nat /\ group \in Int /\ NoGroup \in Int
      /\ (group # NoGroup => group \in Nat) /\ group \in NoGroup..Len(stream)
  BY BoundsAssumption, StreamIsNamed DEF NoGroup, OnStream
<1>3. life[h] \in {"down", "up", "stopping"} /\ "up" \in Lives
  BY DEF Opened, Lives
<1>4. life \in [Servers -> Lives] /\ awaited \in [Servers -> Starts \cup {NoLoop}]
      /\ redis \subseteq Servers
  BY DEF OfLoops
<1>5. life' = [life EXCEPT ![h] = "up"] /\ awaited' = [awaited EXCEPT ![h] = k]
  BY DEF Opened
<1>6. /\ life' \in [Servers -> Lives] /\ awaited' \in [Servers -> Starts \cup {NoLoop}]
      /\ \A s \in Servers : life'[s] = "gone" <=> life[s] = "gone"
  BY <1>2, <1>3, <1>4, <1>5
<1>7. group' = IF group = NoGroup THEN Len(stream) ELSE group
  BY DEF Opened
<1>8. group' \in NoGroup..Len(stream) /\ (group # NoGroup => group <= group') /\ group' # NoGroup
  BY <1>2, <1>7 DEF NoGroup
<1>9. p \in Phases \ {"replied", "acking"} /\ loop' = [loop EXCEPT ![k] = p]
  BY DEF Phases, Opened
<1>10. stream' = stream /\ clock' = clock /\ UNCHANGED listVars /\ acked' = acked /\ lost' = lost
       /\ redis' \subseteq Servers
  BY <1>4 DEF Opened
<1> HIDE DEF p, GateInv
<1> QED
  BY <1>1, <1>6, <1>8, <1>9, <1>10, QuietTurn

\* The start that fails.
LEMMA StepOpenFails == ASSUME GateInv, NEW k \in Starts, OpenFails(k) PROVE GateInv'
<1> USE DEF GateInv
<1>1. batch' = [batch EXCEPT ![k] = <<>>]
  BY IdleBatch DEF OpenFails
<1>2. Len(stream) \in Nat /\ group \in Int
  BY StreamIsNamed
<1>3. /\ group' \in NoGroup..Len(stream) /\ group <= group'
      /\ life' \in [Servers -> Lives] /\ awaited' \in [Servers -> Starts \cup {NoLoop}]
      /\ redis' \subseteq Servers
  BY <1>2 DEF OpenFails, OnStream, OfLoops
<1>4. "ended" \in Phases \ {"replied", "acking"}
  BY DEF Phases
<1> QED
  BY <1>1, <1>3, <1>4, QuietTurn DEF OpenFails

\* A loop that goes on or sleeps, having read before.
LEMMA TurnAfterRead ==
    ASSUME GateInv, NEW k \in Starts, GoOn(k) \/ Pause(k), group # NoGroup,
           batch' = [batch EXCEPT ![k] = <<>>],
           UNCHANGED <<stream, group, clock, life, awaited, redis, listVars>>,
           acked' \subseteq acked \cup (IF loop[k] = "acking" THEN Range(batch[k]) ELSE {}),
           lost' \subseteq lost \cup InFlight(k)
    PROVE  GateInv'
<1> USE DEF GateInv
<1>1. PICK p \in {"reading", "sleeping", "ended"} : loop' = [loop EXCEPT ![k] = p]
  BY DEF GoOn, Pause
<1>2. Len(stream) \in Nat /\ group \in Int
  BY StreamIsNamed
<1>3. /\ group' \in NoGroup..Len(stream) /\ group <= group'
      /\ life' \in [Servers -> Lives] /\ awaited' \in [Servers -> Starts \cup {NoLoop}]
      /\ redis' \subseteq Servers
  BY <1>2 DEF OnStream, OfLoops
<1>4. p \in Phases \ {"replied", "acking"}
  BY DEF Phases
<1>5. \A s \in Servers : life'[s] = "gone" <=> life[s] = "gone"
  OBVIOUS
<1> QED
  BY <1>1, <1>3, <1>4, <1>5, QuietTurn

\* The confirmation of what was processed.
LEMMA StepAck == ASSUME GateInv, NEW k \in Starts, Ack(k) PROVE GateInv'
<1>1. group # NoGroup
  BY DEF Ack, GateInv, OfLoops
<1>2. /\ GoOn(k) \/ Pause(k)
      /\ acked' \subseteq acked \cup (IF loop[k] = "acking" THEN Range(batch[k]) ELSE {})
  BY DEF Ack
<1>3. batch' = [batch EXCEPT ![k] = <<>>] /\ lost' \subseteq lost \cup InFlight(k)
  BY DEF Ack, Drop
<1> QED
  BY <1>1, <1>2, <1>3, TurnAfterRead DEF Ack

\* A reply that never arrives: what it carried is handed out and lost.
LEMMA StepLoseReply == ASSUME GateInv, NEW k \in Starts, LoseReply(k) PROVE GateInv'
<1>1. group # NoGroup
  BY DEF LoseReply, GateInv, OfLoops
<1>2. Range(batch[k]) \subseteq InFlight(k)
  <2>1. CASE loop[k] = "replied"
    BY <2>1 DEF InFlight
  <2>2. CASE loop[k] = "reading"
    <3>1. batch[k] = <<>>
      BY <2>2, IdleBatch DEF GateInv
    <3> QED
      BY <3>1, EmptyOnce
  <2> QED
    BY <2>1, <2>2 DEF LoseReply
<1>3. batch' = [batch EXCEPT ![k] = <<>>] /\ lost' \subseteq lost \cup InFlight(k)
  BY <1>2 DEF LoseReply, Drop
<1> QED
  BY <1>1, <1>3, TurnAfterRead DEF LoseReply

\* The loop wakes from its pause after an error.
LEMMA StepWake == ASSUME GateInv, NEW k \in Starts, Wake(k) PROVE GateInv'
<1>1. group # NoGroup /\ loop[k] \notin {"replied", "acking"}
  BY DEF Wake, GateInv, OfLoops
<1>2. batch' = [batch EXCEPT ![k] = <<>>]
  BY <1>1, IdleBatch DEF Wake, GateInv
<1> QED
  BY <1>1, <1>2, TurnAfterRead DEF Wake

\* The group hands new messages to the loop that asks.
LEMMA StepRead == ASSUME GateInv, NEW k \in Starts, Read(k) PROVE GateInv'
<1> USE DEF GateInv
<1> DEFINE last == Min({Len(stream), group + ReadCount})
           n == last - group
           b == [i \in 1..n |-> group + i]
<1>1. /\ clock \in Nat /\ Len(stream) \in Nat /\ clock \in 0..MaxTime /\ MaxTime \in Nat
      /\ ReadCount \in Nat \ {0} /\ group # NoGroup /\ group \in Nat
      /\ DOMAIN stream = 1..Len(stream) /\ group < Len(stream)
  BY StreamIsNamed, BoundsAssumption DEF OnStream, Read, OfLoops
<1>2. last \in Nat /\ group < last /\ last <= Len(stream) /\ last <= group + ReadCount
  <2>1. group + ReadCount \in Int /\ Len(stream) \in Int
    BY <1>1
  <2>2. last = IF Len(stream) <= group + ReadCount THEN Len(stream) ELSE group + ReadCount
    BY <2>1, LeastOfTwo
  <2> HIDE DEF last
  <2> QED
    BY <1>1, <2>2
<1>3. /\ group' = last /\ batch' = [batch EXCEPT ![k] = b]
      /\ loop' = [loop EXCEPT ![k] = "replied"]
  BY DEF Read
<1>4. UNCHANGED <<stream, acked, clock, life, awaited, redis, listVars, lost>>
  BY DEF Read
<1> HIDE DEF last, GateInv
<1>5. n \in Nat /\ n # 0 /\ n <= ReadCount
  BY <1>1, <1>2
<1> HIDE DEF n
<1>6. b \in Seq(Nat) /\ Len(b) = n /\ DOMAIN b = 1..n /\ \A i \in 1..n : b[i] = group + i
  BY <1>1, <1>5
<1> HIDE DEF b
<1>7. b # <<>>
  BY <1>5, <1>6, EmptySeq
<1>8. IsInjective(b)
  <2>1. ASSUME NEW i \in 1..n, NEW j \in 1..n, b[i] = b[j] PROVE i = j
    BY <1>1, <1>6, <2>1
  <2> QED
    BY <1>6, <2>1 DEF IsInjective
<1>9. group' \in NoGroup..Len(stream) /\ group <= group' /\ group' # NoGroup
  BY <1>1, <1>2, <1>3 DEF NoGroup
<1>10. \A x \in Range(b) : x \in Nat /\ group < x /\ x <= last
  <2> SUFFICES ASSUME NEW i \in 1..n PROVE b[i] \in Nat /\ group < b[i] /\ b[i] <= last
    BY <1>6 DEF Range
  <2> QED
    BY <1>1, <1>2, <1>5, <1>6 DEF n
<1>11. clock' \in clock..MaxTime /\ clock' \in Nat /\ clock <= clock'
  BY <1>1, <1>4
<1>12. Handed \subseteq Handed' /\ StreamKept /\ (acked' \cup lost' \subseteq Handed' => OnStream')
  BY <1>4, <1>9, <1>11, OnStreamKept DEF GateInv
<1>13. OnStream'
  <2>1. acked \cup lost \subseteq Handed
    BY DEF GateInv, OnStream
  <2> QED
    BY <1>4, <1>12, <2>1
<1>14. OfLists'
  <2>1. OfLists /\ \A s \in Servers : life'[s] = "gone" <=> life[s] = "gone"
    BY <1>4 DEF GateInv
  <2> QED
    BY <1>1, <1>4, <1>11, <1>12, <2>1, ListsKept
<1>15. Range(b) \subseteq Handed' /\ Range(b) \cap Handed = {}
  <2>1. ASSUME NEW x \in Range(b) PROVE x \in Handed' /\ x \notin Handed
    <3>1. x \in 1..Len(stream) /\ x <= group' /\ ~(x <= group)
      BY <1>1, <1>2, <1>3, <1>10
    <3> QED
      BY <1>1, <1>4, <1>9, <3>1 DEF Handed
  <2> QED
    BY <2>1
<1>16. /\ OfLoops' /\ loop'[k] = "replied" /\ batch'[k] = b
       /\ \A r \in Starts \ {k} : loop'[r] = loop[r] /\ batch'[r] = batch[r]
  <2>1. /\ "replied" \in Phases /\ Len(b) <= ReadCount /\ OfLoops
        /\ (b # <<>>) = ("replied" \in {"replied", "acking"})
    BY <1>5, <1>6, <1>7 DEF Phases, GateInv
  <2>2. /\ life' \in [Servers -> Lives] /\ awaited' \in [Servers -> Starts \cup {NoLoop}]
        /\ redis' \subseteq Servers
    BY <1>4 DEF GateInv, OfLoops
  <2> QED
    BY <1>3, <1>6, <1>9, <1>12, <1>15, <2>1, <2>2, LoopTurns
<1>17. OfReaders'
  <2>1. OfReaders /\ OfLoops /\ OfLists /\ acked \cup lost \subseteq Handed
    BY DEF GateInv, OnStream
  <2> QED
    BY <1>4, <1>8, <1>15, <1>16, <2>1, ReadersRead DEF listVars
<1> QED
  BY <1>13, <1>14, <1>16, <1>17 DEF GateInv

\* The messages of a reply that are given to the index.
GoodOf(k) ==
    IF Running(Home[k])
    THEN Picked(batch[k], {i \in DOMAIN batch[k] : stream[batch[k][i]].wellFormed})
    ELSE <<>>

\* The messages of a batch that are indexed are on the stream.
LEMMA GoodMessages ==
    ASSUME GateInv, NEW k \in Starts, loop[k] = "replied"
    PROVE  /\ GoodOf(k) \in Seq(Nat) /\ Len(GoodOf(k)) <= ReadCount
           /\ Range(GoodOf(k)) \subseteq Range(batch[k]) /\ IsInjective(GoodOf(k))
<1> DEFINE b == batch[k]
           keep == {i \in DOMAIN b : stream[b[i]].wellFormed}
<1>1. b \in Seq(Nat) /\ IsInjective(b) /\ Len(b) <= ReadCount /\ ReadCount \in Nat
  BY BoundsAssumption DEF GateInv, OfLoops, OfReaders
<1>2. keep \subseteq DOMAIN b
  OBVIOUS
<1> HIDE DEF b, keep
<1> DEFINE p == Picked(b, keep)
<1>3. p \in Seq(Nat) /\ Range(p) \subseteq Range(b) /\ IsInjective(p)
  BY <1>1, <1>2, PickedRange
<1>4. Len(p) <= Len(b)
  BY <1>1, <1>3, OnceShorter
<1> HIDE DEF p
<1>5. Len(p) <= ReadCount
  <2>1. Len(p) \in Nat /\ Len(b) \in Nat
    BY <1>1, <1>3, LenProperties
  <2> QED
    BY <1>1, <1>4, <2>1
<1>6. /\ <<>> \in Seq(Nat) /\ Len(<<>>) <= ReadCount
      /\ Range(<<>>) \subseteq Range(b) /\ IsInjective(<<>>)
  BY <1>1, EmptyOnce
<1>7. GoodOf(k) = IF Running(Home[k]) THEN p ELSE <<>>
  BY DEF GoodOf, p, b, keep
<1>8. CASE Running(Home[k])
  BY <1>3, <1>5, <1>7, <1>8 DEF b
<1>9. CASE ~Running(Home[k])
  BY <1>6, <1>7, <1>9 DEF b
<1> QED
  BY <1>8, <1>9

\* The index after a reply, and the entries it was ever given.
LEMMA ProcessedLists ==
    ASSUME GateInv, NEW k \in Starts, loop[k] = "replied", NEW h, h = Home[k],
           NEW good, good = GoodOf(k), NEW sn,
           sn = seen[h] \o [i \in DOMAIN good |-> [id |-> good[i], at |-> clock]]
    PROVE  LET ix == IndexAll(IndexOf(h), good) IN
           /\ sn \in Seq(Given) /\ {e.id : e \in Range(sn)} = Entered(h) \cup Range(good)
           /\ IsInjective(sn)
           /\ Agree(ix) /\ Len(ix.entries) <= MaxEntries /\ Newest(ix.entries, sn)
           /\ life[h] # "gone" => NoneMissing(ix.entries, sn)
           /\ life[h] = "gone" => ix.entries = <<>>
<1> DEFINE old == seen[h]
           new == [i \in DOMAIN good |-> [id |-> good[i], at |-> clock]]
           ix == IndexOf(h)
           out == IndexAll(ix, good)
<1>1. /\ good \in Seq(Nat) /\ Range(good) \subseteq Range(batch[k]) /\ IsInjective(good)
      /\ h \in Servers
  BY GoodMessages, BoundsAssumption
<1>2. /\ old \in Seq(Given) /\ Agree(ix) /\ Len(ix.entries) <= MaxEntries
      /\ Newest(ix.entries, old) /\ (life[h] # "gone" => NoneMissing(ix.entries, old))
      /\ (life[h] = "gone" => ix.entries = <<>>)
  BY <1>1 DEF GateInv, OfLists, ListsOf, IndexOf
<1>3. StreamNamed /\ clock \in Nat
  BY StreamIsNamed DEF GateInv
<1>4. IsInjective(old) /\ Entered(h) \cap Range(good) = {}
  <2>1. Range(batch[k]) = InFlight(k)
    BY DEF InFlight
  <2>2. /\ IsInjective(old)
        /\ Entered(h) \cap (lost \cup UNION {InFlight(r) : r \in Starts}) = {}
    BY <1>1 DEF GateInv, OfReaders, ReadByOne
  <2>3. Entered(h) \cap InFlight(k) = {}
    BY <2>2
  <2> HIDE DEF old
  <2> QED
    BY <1>1, <2>1, <2>2, <2>3
<1>5. Range(good) \subseteq DOMAIN stream
  BY <1>1 DEF GateInv, OfLoops, Handed
<1>6. /\ Len(good) \in Nat /\ DOMAIN good = 1..Len(good)
      /\ \A i \in 1..Len(good) : good[i] \in Nat /\ good[i] \in Range(good)
  BY <1>1, LenProperties, ElementOfSeq DEF Range
<1>7. Entered(h) = {e.id : e \in Range(old)}
  BY DEF Entered
<1>8. sn = old \o new
  OBVIOUS
<1> HIDE DEF old
<1>9. /\ new \in Seq(Given) /\ Len(new) = Len(good) /\ DOMAIN new = 1..Len(good)
      /\ \A i \in 1..Len(good) : new[i] = [id |-> good[i], at |-> clock]
  BY <1>3, <1>6 DEF Given
<1> HIDE DEF new
<1>10. {e.id : e \in Range(new)} = Range(good)
  <2>1. ASSUME NEW x \in Range(good) PROVE x \in {e.id : e \in Range(new)}
    <3>1. PICK i \in 1..Len(good) : x = good[i]
      BY <1>6 DEF Range
    <3>2. new[i] \in Range(new) /\ new[i].id = x
      BY <1>9, <3>1 DEF Range
    <3> QED
      BY <3>2
  <2>2. ASSUME NEW e \in Range(new) PROVE e.id \in Range(good)
    <3>1. PICK i \in 1..Len(good) : e = new[i]
      BY <1>9 DEF Range
    <3> QED
      BY <1>6, <1>9, <3>1
  <2> QED
    BY <2>1, <2>2
<1>11. IsInjective(new)
  <2>1. ASSUME NEW i \in 1..Len(good), NEW j \in 1..Len(good), new[i] = new[j] PROVE i = j
    <3>1. good[i] = good[j]
      BY <1>9, <2>1
    <3> QED
      BY <1>1, <1>6, <3>1 DEF IsInjective
  <2> QED
    BY <1>9, <2>1 DEF IsInjective
<1>12. Range(old) \cap Range(new) = {}
  <2>1. \A e \in Range(old) : e.id \notin Range(good)
    BY <1>4, <1>7
  <2>2. \A e \in Range(new) : e.id \in Range(good)
    BY <1>10
  <2> QED
    BY <2>1, <2>2
<1>13. /\ sn \in Seq(Given) /\ IsInjective(sn) /\ Range(sn) = Range(old) \cup Range(new)
  <2>1. old \in Seq(Given) /\ IsInjective(old)
    BY <1>2, <1>4
  <2>2. /\ old \o new \in Seq(Given) /\ Range(old \o new) = Range(old) \cup Range(new)
        /\ IsInjective(old \o new)
    BY <1>9, <1>11, <1>12, <2>1, ConcatOnce
  <2> QED
    BY <1>8, <2>2
<1>14. {e.id : e \in Range(sn)} = Entered(h) \cup Range(good)
  <2>1. \A e : e \in Range(sn) <=> e \in Range(old) \/ e \in Range(new)
    BY <1>13
  <2>2. {e.id : e \in Range(sn)} = {e.id : e \in Range(old)} \cup {e.id : e \in Range(new)}
    BY <2>1
  <2> QED
    BY <1>7, <1>10, <2>2
<1> HIDE DEF ix
<1>15. CASE life[h] # "gone"
  <2>1. Holds(ix, old)
    BY <1>2, <1>15 DEF Holds
  <2>2. \A i \in 1..Len(old) : old[i].id \notin Range(good)
    <3>1. \A i \in 1..Len(old) : old[i] \in Range(old)
      BY <1>2, LenProperties DEF Range
    <3> QED
      BY <1>4, <1>7, <3>1
  <2>3. Holds(out, sn)
    <3>1. /\ old \in Seq(Given) /\ good \in Seq(Nat) /\ IsInjective(good)
      BY <1>1, <1>2
    <3>2. Holds(IndexAll(ix, good), old \o EntriesOf(good))
      BY <1>3, <1>5, <2>1, <2>2, <3>1, AllIndexed
    <3> QED
      BY <1>8, <3>2 DEF new, EntriesOf
  <2> QED
    BY <1>13, <1>14, <1>15, <2>3 DEF Holds, ix
<1>16. CASE life[h] = "gone"
  <2>1. good = <<>>
    BY <1>16 DEF GoodOf, Running
  <2>2. out = ix
    <3>1. PICK F : IndexSteps(F, ix, good, 0)
      <4>1. DOMAIN good = 1..0
        BY <2>1
      <4> QED
        BY <4>1, IndexedOneByOne
    <3> QED
      BY <3>1 DEF IndexSteps
  <2>3. Newest(ix.entries, sn)
    <3>1. Newest(<<>>, sn)
      BY <1>13, EmptyAgrees
    <3> QED
      BY <1>2, <1>16, <3>1
  <2> QED
    BY <1>2, <1>13, <1>14, <1>16, <2>2, <2>3 DEF ix
<1> QED
  BY <1>15, <1>16

\* The loop indexes its batch.
LEMMA StepProcess == ASSUME GateInv, NEW k \in Starts, Process(k) PROVE GateInv'
<1> DEFINE h == Home[k]
           good == GoodOf(k)
           ix == IndexAll(IndexOf(h), good)
           sn == seen[h] \o [i \in DOMAIN good |-> [id |-> good[i], at |-> clock]]
           b == IF good # <<>> /\ h \in redis THEN good ELSE <<>>
<1>1. loop[k] = "replied" /\ h \in Servers
  BY BoundsAssumption DEF Process
<1>2. /\ SetIndex(h, ix) /\ seen' = [seen EXCEPT ![h] = sn]
      /\ lost' = lost \cup (Range(batch[k]) \ Range(good))
      /\ UNCHANGED <<stream, group, acked, clock, life, awaited, redis>>
  BY DEF Process, GoodOf
<1>3. /\ batch' = [batch EXCEPT ![k] = b]
      /\ \/ b # <<>> /\ b = good /\ loop' = [loop EXCEPT ![k] = "acking"]
         \/ b = <<>> /\ (GoOn(k) \/ Pause(k))
  BY DEF Process, GoodOf
<1>4. PICK p \in Phases : /\ loop' = [loop EXCEPT ![k] = p]
                          /\ \/ b # <<>> /\ b = good /\ p = "acking"
                             \/ b = <<>> /\ p \in {"reading", "sleeping", "ended"}
  BY <1>3 DEF GoOn, Pause, Phases
<1>5. /\ good \in Seq(Nat) /\ Len(good) <= ReadCount
      /\ Range(good) \subseteq Range(batch[k]) /\ IsInjective(good)
  BY <1>1, GoodMessages
<1>6. /\ sn \in Seq(Given) /\ {e.id : e \in Range(sn)} = Entered(h) \cup Range(good)
      /\ IsInjective(sn)
      /\ Agree(ix) /\ Len(ix.entries) <= MaxEntries /\ Newest(ix.entries, sn)
      /\ life[h] # "gone" => NoneMissing(ix.entries, sn)
      /\ life[h] = "gone" => ix.entries = <<>>
  BY <1>1, ProcessedLists
<1> HIDE DEF good, ix, sn
<1>7. /\ OnStream /\ OfLoops /\ OfLists /\ OfReaders
  BY DEF GateInv
<1>8. /\ Handed' = Handed /\ StreamKept /\ clock \in Nat /\ ReadCount \in Nat
      /\ Range(batch[k]) \subseteq Handed /\ group # NoGroup
  BY <1>1, <1>2, <1>7, StreamIsNamed, BoundsAssumption DEF Handed, StreamKept, OfLoops
<1>9. OnStream'
  <2>1. acked' \cup lost' \subseteq Handed'
    BY <1>2, <1>7, <1>8 DEF OnStream
  <2>2. group' \in NoGroup..Len(stream) /\ clock \in 0..MaxTime /\ MaxTime \in Nat /\ group \in Int
    BY <1>2, <1>7, StreamIsNamed, BoundsAssumption DEF OnStream
  <2>3. clock' \in clock..MaxTime /\ group <= group'
    BY <1>2, <2>2
  <2> QED
    BY <1>2, <1>7, <2>1, <2>2, <2>3, OnStreamKept
<1>10. ix \in Index /\ seen'[h] = sn
  BY <1>1, <1>2, <1>6, <1>7 DEF Agree, OfLists
<1>11. Entered(h)' = Entered(h) \cup Range(good)
  BY <1>6, <1>10 DEF Entered
<1>12. OfLists'
  <2>1. Entered(h)' \subseteq Handed'
    BY <1>1, <1>5, <1>7, <1>8, <1>11 DEF OfLists, ListsOf
  <2>2. /\ \A t \in Servers \ {h} : life'[t] = life[t]
        /\ life'[h] # "gone" => NoneMissing(ix.entries, sn)
        /\ life'[h] = "gone" => ix.entries = <<>>
        /\ Handed \subseteq Handed' /\ clock' = clock
    BY <1>2, <1>6, <1>8
  <2> QED
    BY <1>1, <1>2, <1>6, <1>7, <1>8, <1>10, <2>1, <2>2, ListsSet
<1>13. /\ OfLoops' /\ loop'[k] = p /\ batch'[k] = b
       /\ \A r \in Starts \ {k} : loop'[r] = loop[r] /\ batch'[r] = batch[r]
  <2>1. /\ b \in Seq(Nat) /\ Range(b) \subseteq Handed' /\ Len(b) <= ReadCount
        /\ (b # <<>>) = (p \in {"replied", "acking"})
    <3>1. CASE b = good /\ b # <<>>
      BY <1>4, <1>5, <1>8, <3>1
    <3>2. CASE b = <<>>
      BY <1>4, <1>8, <3>2, EmptyOnce
    <3> QED
      BY <3>1, <3>2
  <2>2. /\ life' \in [Servers -> Lives] /\ awaited' \in [Servers -> Starts \cup {NoLoop}]
        /\ redis' \subseteq Servers /\ Handed \subseteq Handed' /\ group' # NoGroup
    BY <1>2, <1>7, <1>8 DEF OfLoops
  <2>3. batch' = [batch EXCEPT ![k] = b] /\ loop' = [loop EXCEPT ![k] = p]
    BY <1>3, <1>4
  <2> HIDE DEF b
  <2> QED
    BY <1>7, <2>1, <2>2, <2>3, LoopTurns
<1>14. OfReaders'
  <2>1. loop'[k] # "replied" /\ (loop'[k] = "acking" => batch'[k] = good)
    BY <1>4, <1>13
  <2>2. IsInjective(seen'[h]) /\ acked' = acked /\ \A s \in Servers \ {h} : seen'[s] = seen[s]
    BY <1>2, <1>6, <1>7, <1>10 DEF OfLists
  <2> HIDE DEF b
  <2> QED
    BY <1>1, <1>2, <1>5, <1>7, <1>11, <1>13, <2>1, <2>2, ReadersProcess
<1> QED
  BY <1>9, <1>12, <1>13, <1>14 DEF GateInv

\* stop: the loops are told to end.
LEMMA StepStop == ASSUME GateInv, NEW s \in Servers, Stop(s) PROVE GateInv'
<1>1. /\ OnStream /\ OfLoops /\ OfLists /\ clock \in Nat /\ MaxTime \in Nat /\ group \in Int
  BY StreamIsNamed, BoundsAssumption DEF GateInv
<1>2. /\ clock' \in clock..MaxTime /\ group' \in NoGroup..Len(stream) /\ group <= group'
      /\ clock' \in Nat /\ clock <= clock'
  BY <1>1 DEF OnStream, Stop
<1>3. /\ life \in [Servers -> Lives] /\ redis \subseteq Servers
  BY <1>1 DEF OfLoops
<1>4. /\ life' = [life EXCEPT ![s] = "stopping"] /\ life[s] = "up" /\ "stopping" \in Lives
  BY DEF Stop, Running, Lives
<1>5. life' \in [Servers -> Lives] /\ \A t \in Servers : life'[t] = "gone" <=> life[t] = "gone"
  BY <1>3, <1>4
<1>6. /\ stream' = stream /\ acked' = acked /\ lost' = lost /\ redis' \subseteq Servers
      /\ UNCHANGED <<loop, batch, awaited, group, acked, lost, seen>> /\ UNCHANGED listVars
  BY <1>3 DEF Stop, listVars
<1>7. Handed \subseteq Handed' /\ StreamKept /\ OnStream'
  <2>1. Handed \subseteq Handed' /\ StreamKept /\ (acked' \cup lost' \subseteq Handed' => OnStream')
    BY <1>1, <1>2, <1>6, OnStreamKept
  <2> QED
    BY <1>1, <1>6, <2>1 DEF OnStream
<1>8. OfLoops' /\ OfReaders'
  BY <1>5, <1>6, <1>7, LoopsStay
<1>9. OfLists'
  BY <1>1, <1>2, <1>5, <1>6, <1>7, ListsKept
<1> QED
  BY <1>7, <1>8, <1>9 DEF GateInv

\* Nothing happens to the stream and the group.
LEMMA SameStream ==
    ASSUME GateInv, UNCHANGED <<stream, group, clock>>
    PROVE  /\ Handed \subseteq Handed' /\ StreamKept /\ clock \in Nat
           /\ acked' \cup lost' \subseteq Handed => OnStream'
<1>1. /\ OnStream /\ clock \in Nat /\ MaxTime \in Nat /\ group \in Int
  BY StreamIsNamed, BoundsAssumption DEF GateInv
<1>2. /\ clock' \in clock..MaxTime /\ group' \in NoGroup..Len(stream) /\ group <= group'
  BY <1>1 DEF OnStream
<1>3. Handed \subseteq Handed' /\ StreamKept /\ (acked' \cup lost' \subseteq Handed' => OnStream')
  BY <1>1, <1>2, OnStreamKept
<1> QED
  BY <1>1, <1>3

\* The rest of stop, which clears the lists.
LEMMA StepClear == ASSUME GateInv, NEW s \in Servers, Clear(s) PROVE GateInv'
<1>1. /\ Handed \subseteq Handed' /\ StreamKept /\ clock \in Nat /\ OnStream'
  BY SameStream DEF Clear, GateInv, OnStream
<1>2. /\ life \in [Servers -> Lives] /\ redis \subseteq Servers /\ OfLists
  BY DEF GateInv, OfLoops
<1>3. life' = [life EXCEPT ![s] = "gone"] /\ "gone" \in Lives
  BY DEF Clear, Lives
<1>4. /\ life' \in [Servers -> Lives] /\ life'[s] = "gone"
      /\ \A t \in Servers \ {s} : life'[t] = life[t]
  BY <1>2, <1>3
<1>5. OfLists'
  BY <1>1, <1>2, <1>4, ListsCleared DEF Clear
<1>6. redis' \subseteq Servers
  BY <1>2 DEF Clear
<1>7. OfLoops' /\ OfReaders'
  BY <1>1, <1>4, <1>6, LoopsStay DEF Clear
<1> QED
  BY <1>1, <1>5, <1>7 DEF GateInv

\* The timer evicts what is too old.
LEMMA StepEvictStale == ASSUME GateInv, NEW s \in Servers, EvictStale(s) PROVE GateInv'
<1>1. /\ Handed \subseteq Handed' /\ StreamKept /\ clock \in Nat /\ OnStream'
  BY SameStream DEF EvictStale, GateInv, OnStream
<1>2. /\ life \in [Servers -> Lives] /\ redis \subseteq Servers /\ OfLists /\ StreamNamed
  BY StreamIsNamed DEF GateInv, OfLoops
<1>3. PICK n \in DOMAIN entries[s] : /\ \A i \in 1..n : Stale(entries[s][i])
                                     /\ SetIndex(s, RemoveAll(IndexOf(s), n))
  BY DEF EvictStale
<1> DEFINE ix == IndexOf(s)
           sn == seen[s]
           out == RemoveAll(ix, n)
<1>4. /\ sn \in Seq(Given) /\ Agree(ix) /\ ix.entries = entries[s]
      /\ Len(ix.entries) <= MaxEntries /\ Newest(ix.entries, sn)
      /\ (life[s] # "gone" => NoneMissing(ix.entries, sn))
      /\ (life[s] = "gone" => ix.entries = <<>>) /\ Entered(s) \subseteq Handed
  BY <1>2 DEF OfLists, ListsOf, IndexOf
<1>5. DOMAIN ix.entries = 1..Len(ix.entries)
  <2>1. ix.entries \in Seq(Given)
    BY <1>4 DEF Agree, Index
  <2> QED
    BY <2>1, LenProperties
<1>6. life[s] # "gone"
  <2> SUFFICES ASSUME life[s] = "gone" PROVE FALSE
    OBVIOUS
  <2>1. DOMAIN entries[s] = {}
    BY <1>4
  <2> QED
    BY <1>3, <2>1
<1>7. seen' = seen /\ seen = [seen EXCEPT ![s] = sn] /\ life' = life /\ clock' = clock
      /\ redis' = redis
  BY <1>2 DEF EvictStale, OfLists, processVars
<1>8. /\ n \in 1..Len(ix.entries) /\ \A i \in 1..n : Stale(ix.entries[i])
      /\ SetIndex(s, out)
  BY <1>3, <1>4, <1>5
<1> HIDE DEF ix, sn
<1>9. Holds(ix, sn)
  BY <1>4, <1>6 DEF Holds
<1>10. Holds(out, sn)
  BY <1>1, <1>2, <1>4, <1>8, <1>9, AllRemoved
<1> HIDE DEF out
<1>11. /\ out \in Index /\ Agree(out) /\ Len(out.entries) <= MaxEntries
       /\ Newest(out.entries, sn) /\ NoneMissing(out.entries, sn)
  BY <1>10 DEF Holds, Agree
<1>12. Entered(s)' \subseteq Handed'
  BY <1>1, <1>4, <1>7 DEF Entered
<1>13. /\ seen' = [seen EXCEPT ![s] = sn] /\ \A t \in Servers \ {s} : life'[t] = life[t]
       /\ life'[s] # "gone"
  BY <1>6, <1>7
<1>14. OfLists'
  BY <1>1, <1>2, <1>4, <1>7, <1>8, <1>11, <1>12, <1>13, ListsSet
<1>15. OfLoops' /\ OfReaders'
  BY <1>1, <1>2, <1>7, LoopsStay DEF EvictStale, processVars
<1> QED
  BY <1>1, <1>14, <1>15 DEF GateInv

\* The process dies, and all its lists and loops with it.
LEMMA StepCrash == ASSUME GateInv, NEW s \in Servers, Crash(s) PROVE GateInv'
<1> DEFINE mine == {r \in OfServer(s) : loop[r] = "replied"}
           gone == UNION {Range(batch[k]) : k \in mine}
<1>1. lost' = lost \cup gone /\ acked' = acked /\ seen' = seen
      /\ UNCHANGED <<stream, group, clock, awaited>>
  BY DEF Crash
<1>2. /\ life \in [Servers -> Lives] /\ redis \subseteq Servers /\ OfLists /\ OfLoops /\ OfReaders
      /\ acked \cup lost \subseteq Handed
      /\ awaited \in [Servers -> Starts \cup {NoLoop}]
      /\ loop \in [Starts -> Phases] /\ batch \in [Starts -> Seq(Nat)]
      /\ ReadCount \in Nat
  BY BoundsAssumption DEF GateInv, OfLoops, OnStream
<1>3. \A k \in mine : k \in Starts /\ Home[k] = s /\ Range(batch[k]) \subseteq Handed
                      /\ Range(batch[k]) = InFlight(k)
  BY <1>2 DEF OfLoops, InFlight, OfServer
<1>4. gone \subseteq Handed
  BY <1>3
<1>5. /\ Handed \subseteq Handed' /\ StreamKept /\ clock \in Nat /\ OnStream'
  BY <1>1, <1>2, <1>4, SameStream
<1>6. life' = [life EXCEPT ![s] = "gone"] /\ "gone" \in Lives /\ redis' \subseteq Servers
  BY <1>2 DEF Crash, Lives
<1>7. /\ life' \in [Servers -> Lives] /\ life'[s] = "gone"
      /\ \A t \in Servers \ {s} : life'[t] = life[t]
  BY <1>2, <1>6
<1>8. OfLists'
  BY <1>1, <1>2, <1>5, <1>7, ListsCleared DEF Crash
<1>9. /\ loop' = [k \in Starts |-> IF Home[k] = s THEN "ended" ELSE loop[k]]
      /\ batch' = [k \in Starts |-> IF Home[k] = s THEN <<>> ELSE batch[k]]
  BY DEF Crash
<1>10. /\ loop' \in [Starts -> Phases] /\ batch' \in [Starts -> Seq(Nat)]
       /\ \A k \in Starts : IF Home[k] = s THEN loop'[k] = "ended" /\ batch'[k] = <<>>
                            ELSE loop'[k] = loop[k] /\ batch'[k] = batch[k]
  <2>1. "ended" \in Phases /\ <<>> \in Seq(Nat)
    BY EmptyOnce DEF Phases
  <2> QED
    BY <1>2, <1>9, <2>1
<1>11. ASSUME NEW k \in Starts
       PROVE  /\ Range(batch'[k]) \subseteq Handed' /\ Len(batch'[k]) <= ReadCount
              /\ (batch'[k] # <<>>) = (loop'[k] \in {"replied", "acking"})
              /\ loop'[k] \in {"reading", "replied", "acking", "sleeping"} => group' # NoGroup
  <2>1. CASE Home[k] = s
    <3>1. loop'[k] = "ended" /\ batch'[k] = <<>>
      BY <1>10, <2>1
    <3>2. Range(<<>>) = {} /\ Len(<<>>) = 0
      BY EmptyOnce
    <3> QED
      BY <1>2, <3>1, <3>2
  <2>2. CASE Home[k] # s
    <3>1. loop'[k] = loop[k] /\ batch'[k] = batch[k]
      BY <1>10, <2>2
    <3>2. /\ Range(batch[k]) \subseteq Handed /\ Len(batch[k]) <= ReadCount
          /\ (batch[k] # <<>>) = (loop[k] \in {"replied", "acking"})
          /\ loop[k] \in {"reading", "replied", "acking", "sleeping"} => group # NoGroup
      BY <1>2 DEF OfLoops
    <3> QED
      BY <1>1, <1>5, <3>1, <3>2
  <2> QED
    BY <2>1, <2>2
<1>12. OfLoops'
  BY <1>1, <1>2, <1>6, <1>7, <1>10, <1>11 DEF OfLoops, Lives, Phases, NoLoop
<1>13. OfReaders'
  <2>1. \A k \in Starts : \/ loop'[k] \notin {"replied", "acking"}
                          \/ loop'[k] = loop[k] /\ batch'[k] = batch[k]
    BY <1>10
  <2>2. gone \subseteq UNION {InFlight(k) : k \in {r \in Starts : loop'[r] # "replied"}}
    <3>1. \A k \in mine : /\ k \in {r \in Starts : loop'[r] # "replied"}
                          /\ Range(batch[k]) = InFlight(k)
      BY <1>3, <1>10
    <3> HIDE DEF mine
    <3> QED
      BY <3>1
  <2>3. acked' \subseteq acked \cup
            UNION {Range(batch[k]) : k \in {r \in Starts : loop[r] = "acking"}}
    BY <1>1
  <2>4. lost' \subseteq lost \cup
            UNION {InFlight(k) : k \in {r \in Starts : loop'[r] # "replied"}}
    BY <1>1, <2>2
  <2> QED
    BY <1>1, <1>2, <2>1, <2>3, <2>4, ReadersKept
<1> QED
  BY <1>5, <1>8, <1>12, <1>13 DEF GateInv

\* A message reaches the stream, or not.
LEMMA StepReach ==
    ASSUME GateInv, NEW m \in Message, Reach(m), UNCHANGED <<group, acked, clock, readerVars>>
    PROVE  GateInv'
<1>1. /\ OnStream /\ OfLoops /\ OfLists /\ clock \in Nat
  BY StreamIsNamed DEF GateInv
<1>2. /\ UNCHANGED <<group, acked, clock, lost>> /\ UNCHANGED listVars
      /\ UNCHANGED <<loop, batch, awaited, life, redis, seen>>
  BY DEF readerVars, processVars, listVars
<1>3. OnStream' /\ StreamKept /\ Handed \subseteq Handed'
  BY <1>1, <1>2, Reached
<1>4. /\ life' \in [Servers -> Lives] /\ redis' \subseteq Servers
      /\ \A s \in Servers : life'[s] = "gone" <=> life[s] = "gone"
      /\ clock' \in Nat /\ clock <= clock'
  BY <1>1, <1>2 DEF OfLoops
<1>5. OfLoops' /\ OfReaders'
  BY <1>2, <1>3, <1>4, LoopsStay
<1>6. OfLists'
  BY <1>1, <1>2, <1>3, <1>4, ListsKept
<1> QED
  BY <1>3, <1>5, <1>6 DEF GateInv

\* An appender puts a message on the stream.
LEMMA StepPublish == ASSUME GateInv, Publish PROVE GateInv'
<1>1. PICK m \in Records : Reach(m)
  BY DEF Publish
<1>2. m \in Message
  BY DEF Message
<1> QED
  BY <1>1, <1>2, StepReach DEF Publish

\* Time passes: entries become older, none younger.
LEMMA StepTick == ASSUME GateInv, Tick PROVE GateInv'
<1>1. /\ OnStream /\ OfLoops /\ OfLists /\ clock \in Nat /\ MaxTime \in Nat /\ group \in Int
  BY StreamIsNamed, BoundsAssumption DEF GateInv
<1>2. /\ UNCHANGED <<group, acked, lost, stream>> /\ UNCHANGED listVars
      /\ UNCHANGED <<loop, batch, awaited, life, redis, seen, group, acked, lost>>
  BY DEF Tick, readerVars, processVars, listVars
<1>3. clock' \in Nat /\ clock <= clock' /\ clock' \in clock..MaxTime
  BY <1>1 DEF Tick
<1>4. /\ life' \in [Servers -> Lives] /\ redis' \subseteq Servers
      /\ \A s \in Servers : life'[s] = "gone" <=> life[s] = "gone"
      /\ group' \in NoGroup..Len(stream) /\ group <= group'
  BY <1>1, <1>2 DEF OfLoops, OnStream
<1>5. Handed \subseteq Handed' /\ StreamKept /\ OnStream'
  <2>1. Handed \subseteq Handed' /\ StreamKept /\ (acked' \cup lost' \subseteq Handed' => OnStream')
    BY <1>1, <1>2, <1>3, <1>4, OnStreamKept
  <2> QED
    BY <1>1, <1>2, <2>1 DEF OnStream
<1>6. OfLoops' /\ OfReaders'
  BY <1>2, <1>4, <1>5, LoopsStay
<1>7. OfLists'
  BY <1>1, <1>2, <1>3, <1>4, <1>5, ListsKept
<1> QED
  BY <1>5, <1>6, <1>7 DEF GateInv

\* Nothing changes.
LEMMA StepNone == ASSUME GateInv, UNCHANGED gateVars PROVE GateInv'
<1>1. /\ OnStream /\ OfLoops /\ OfLists /\ acked \cup lost \subseteq Handed
  BY DEF GateInv, OnStream
<1>2. /\ UNCHANGED <<stream, group, clock>> /\ UNCHANGED listVars
      /\ UNCHANGED <<loop, batch, awaited, life, redis, seen, group, acked, lost>>
  BY DEF gateVars, readerVars, processVars, listVars
<1>3. Handed \subseteq Handed' /\ StreamKept /\ clock \in Nat /\ OnStream'
  BY <1>1, <1>2, SameStream
<1>4. /\ life' \in [Servers -> Lives] /\ redis' \subseteq Servers
      /\ \A t \in Servers : life'[t] = "gone" <=> life[t] = "gone"
      /\ clock' \in Nat /\ clock <= clock'
  BY <1>1, <1>2, <1>3 DEF OfLoops
<1>5. OfLoops' /\ OfReaders'
  BY <1>2, <1>3, <1>4, LoopsStay
<1>6. OfLists'
  BY <1>1, <1>2, <1>3, <1>4, ListsKept
<1> QED
  BY <1>3, <1>5, <1>6 DEF GateInv

\* The gate judges a call and may post its denial on the stream.
LEMMA StepVerify ==
    ASSUME GateInv, NEW s \in Servers, NEW by \in Callers, NEW tokens \in TokenCounts,
           Verify(s, by.agent, by.cycle, tokens)
    PROVE  GateInv'
<1> DEFINE m == Denial(by.agent, by.cycle)
<1>1. by.agent \in AgentNames /\ by.cycle \in CycleNames
  BY PolicyAssumption DEF AgentNames, CycleNames
<1>3. m \in Message
  BY <1>1 DEF Message
<1>4. UNCHANGED <<group, acked, clock, readerVars>> /\ (stream' = stream \/ Reach(m))
  BY DEF Verify
<1>5. CASE Reach(m)
  <2> HIDE DEF m
  <2> QED
    BY <1>1, <1>3, <1>4, <1>5, StepReach
<1>6. CASE stream' = stream
  BY <1>4, <1>6, StepNone DEF gateVars
<1> QED
  BY <1>4, <1>5, <1>6

\* Every step keeps the invariant.
LEMMA GateStep == GateInv /\ [GateNext]_gateVars => GateInv'
<1> SUFFICES ASSUME GateInv, [GateNext]_gateVars PROVE GateInv'
  OBVIOUS
<1>1. ASSUME NEW k \in Starts, Start(k) PROVE GateInv'
  BY <1>1, StepStart
<1>2. ASSUME NEW k \in Starts, Opened(k) PROVE GateInv'
  BY <1>2, StepOpened
<1>3. ASSUME NEW k \in Starts, OpenFails(k) PROVE GateInv'
  BY <1>3, StepOpenFails
<1>4. ASSUME NEW k \in Starts, Read(k) PROVE GateInv'
  BY <1>4, StepRead
<1>5. ASSUME NEW k \in Starts, Process(k) PROVE GateInv'
  BY <1>5, StepProcess
<1>6. ASSUME NEW k \in Starts, Ack(k) PROVE GateInv'
  BY <1>6, StepAck
<1>7. ASSUME NEW k \in Starts, LoseReply(k) PROVE GateInv'
  BY <1>7, StepLoseReply
<1>8. ASSUME NEW k \in Starts, Wake(k) PROVE GateInv'
  BY <1>8, StepWake
<1>9. ASSUME NEW s \in Servers, Stop(s) PROVE GateInv'
  BY <1>9, StepStop
<1>10. ASSUME NEW s \in Servers, Clear(s) PROVE GateInv'
  BY <1>10, StepClear
<1>11. ASSUME NEW s \in Servers, EvictStale(s) PROVE GateInv'
  BY <1>11, StepEvictStale
<1>12. ASSUME NEW s \in Servers, Crash(s) PROVE GateInv'
  BY <1>12, StepCrash
<1>13. CASE Publish
  BY <1>13, StepPublish
<1>14. CASE Tick
  BY <1>14, StepTick
<1>15. ASSUME NEW s \in Servers, NEW by \in Callers, NEW tokens \in TokenCounts,
              Verify(s, by.agent, by.cycle, tokens)
       PROVE  GateInv'
  BY <1>15, StepVerify
<1>16. CASE UNCHANGED gateVars
  BY <1>16, StepNone
<1> QED
  BY <1>1, <1>2, <1>3, <1>4, <1>5, <1>6, <1>7, <1>8, <1>9, <1>10, <1>11, <1>12, <1>13, <1>14,
     <1>15, <1>16 DEF GateNext, IndexNext

-----------------------------------------------------------------------------
(* What the invariant says of a state *)

\* The last entries of those given are a suffix of them, as IsSuffix says it.
LEMMA NewestIsSuffix ==
    ASSUME NEW es \in Seq(Given), NEW sn \in Seq(Given), Newest(es, sn)
    PROVE  IsSuffix(es, sn)
<1> DEFINE n == Len(es)
           m == Len(sn)
           a == Reverse(es)
           b == Reverse(sn)
<1>1. n \in Nat /\ m \in Nat
  BY LenProperties
<1>2. n <= m /\ \A i \in 1..n : es[i] = sn[m - n + i]
  BY DEF Newest
<1>3. \A i \in 1..n : es[i] \in Given
  BY ElementOfSeq
<1>4. \A i \in 1..m : sn[i] \in Given
  BY ElementOfSeq
<1> HIDE DEF n, m
<1>5. a = [i \in 1..n |-> es[n - i + 1]] /\ b = [i \in 1..m |-> sn[m - i + 1]]
  BY DEF Reverse, n, m
<1> HIDE DEF a, b
<1>6. a \in Seq(Given) /\ Len(a) = n /\ \A i \in 1..n : a[i] = es[n - i + 1]
  <2>1. \A i \in 1..n : n - i + 1 \in 1..n
    BY <1>1
  <2>2. \A i \in 1..n : es[n - i + 1] \in Given
    BY <1>3, <2>1
  <2> QED
    BY <1>1, <1>5, <2>2
<1>7. b \in Seq(Given) /\ Len(b) = m /\ \A i \in 1..m : b[i] = sn[m - i + 1]
  <2>1. \A i \in 1..m : m - i + 1 \in 1..m
    BY <1>1
  <2>2. \A i \in 1..m : sn[m - i + 1] \in Given
    BY <1>4, <2>1
  <2> QED
    BY <1>1, <1>5, <2>2
<1>8. ASSUME NEW i \in 1..n PROVE a[i] = b[i]
  <2> DEFINE x == n - i + 1
  <2>1. i \in 1..m /\ x \in 1..n /\ m - n + x = m - i + 1
    BY <1>1, <1>2
  <2>2. a[i] = es[x] /\ b[i] = sn[m - i + 1]
    BY <1>6, <1>7, <2>1
  <2> HIDE DEF x
  <2>3. es[x] = sn[m - n + x]
    BY <1>2, <2>1
  <2> QED
    BY <2>1, <2>2, <2>3
<1> DEFINE c == SubSeq(a, 1, n)
           d == SubSeq(b, 1, n)
<1>9. /\ c \in Seq(Given) /\ Len(c) = n /\ \A i \in 1..n : c[i] = a[i]
  <2>1. 1 \in 1..(Len(a) + 1) /\ n \in 0..Len(a)
    BY <1>1, <1>6
  <2>2. \A i \in 1..n : a[i] \in Given
    BY <1>6, ElementOfSeq
  <2>3. c = [i \in 1..n |-> a[i]]
    BY <1>1, <1>6
  <2> HIDE DEF c
  <2> QED
    BY <1>1, <2>2, <2>3
<1>10. /\ d \in Seq(Given) /\ Len(d) = n /\ \A i \in 1..n : d[i] = b[i]
  <2>1. \A i \in 1..n : i \in 1..Len(b)
    BY <1>1, <1>2, <1>7
  <2>2. \A i \in 1..n : b[i] \in Given
    BY <1>7, <2>1, ElementOfSeq
  <2>3. d = [i \in 1..n |-> b[i]]
    BY <1>1, <1>2, <1>7
  <2> HIDE DEF d
  <2> QED
    BY <1>1, <2>2, <2>3
<1> HIDE DEF c, d
<1>11. c = d
  BY <1>8, <1>9, <1>10, SeqEqual
<1>12. IsPrefix(a, b)
  BY <1>2, <1>6, <1>7, <1>11 DEF IsPrefix, c, d
<1> QED
  BY <1>12 DEF IsSuffix, a, b

\* The types are part of the invariant.
LEMMA InvTypeOK == GateInv => IndexTypeOK
<1> SUFFICES ASSUME GateInv PROVE IndexTypeOK
  OBVIOUS
<1>1. OnStream /\ OfLoops /\ \A s \in Servers : Len(entries[s]) <= MaxEntries
  BY DEF GateInv, OfLists, ListsOf
<1> QED
  BY <1>1 DEF IndexTypeOK, OnStream, OfLoops

\* The lists of an index agree with its entries, which are the newest that were indexed.
LEMMA InvWhole == GateInv => IndexWhole
<1> SUFFICES ASSUME GateInv, NEW s \in Servers
             PROVE  LET ids == [i \in DOMAIN entries[s] |-> entries[s][i].id] IN
                    /\ \A a \in Agents \ {NoOne} :
                        byAgent[s][a] = Picked(ids, {i \in DOMAIN ids : stream[ids[i]].agent = a})
                    /\ \A c \in Cycles \ {NoOne} :
                        byCycle[s][c] = Picked(ids, {i \in DOMAIN ids : stream[ids[i]].cycle = c})
                    /\ IsSuffix(entries[s], seen[s])
                    /\ life[s] = "gone" => entries[s] = <<>>
                    /\ life[s] # "gone" => \A i \in 1..(Len(seen[s]) - Len(entries[s])) :
                        \/ Len(seen[s]) - i >= MaxEntries
                        \/ clock - seen[s][i].at > TTL
  BY DEF IndexWhole
<1> DEFINE es == entries[s]
           sn == seen[s]
           ids == [i \in DOMAIN es |-> es[i].id]
           ix == IndexOf(s)
<1>1. /\ es \in Seq(Given) /\ sn \in Seq(Given) /\ Agree(ix) /\ Newest(es, sn)
      /\ life[s] # "gone" => NoneMissing(es, sn)
      /\ life[s] = "gone" => es = <<>>
  BY DEF GateInv, OfLists, ListsOf
<1>2. ix.entries = es /\ ix.byAgent = byAgent[s] /\ ix.byCycle = byCycle[s]
  BY DEF IndexOf
<1> HIDE DEF ix
<1>3. IsSuffix(es, sn)
  <2> HIDE DEF es, sn
  <2> QED
    BY <1>1, NewestIsSuffix
<1>4. ids = Ids(es) /\ DOMAIN ids = DOMAIN es /\ \A i \in DOMAIN es : ids[i] = es[i].id
  BY DEF Ids
<1>5. ASSUME NEW a \in Agents \ {NoOne}
      PROVE  byAgent[s][a] = Picked(ids, {i \in DOMAIN ids : stream[ids[i]].agent = a})
  <2>1. {i \in DOMAIN ids : stream[ids[i]].agent = a} = OfAgent(es, a)
    BY <1>4 DEF OfAgent
  <2>2. ix.byAgent[a] = Picked(Ids(ix.entries), OfAgent(ix.entries, a))
    BY <1>1 DEF Agree
  <2> HIDE DEF ids, es
  <2> QED
    BY <1>2, <1>4, <2>1, <2>2
<1>6. ASSUME NEW c \in Cycles \ {NoOne}
      PROVE  byCycle[s][c] = Picked(ids, {i \in DOMAIN ids : stream[ids[i]].cycle = c})
  <2>1. {i \in DOMAIN ids : stream[ids[i]].cycle = c} = OfCycle(es, c)
    BY <1>4 DEF OfCycle
  <2>2. ix.byCycle[c] = Picked(Ids(ix.entries), OfCycle(ix.entries, c))
    BY <1>1 DEF Agree
  <2> HIDE DEF ids, es
  <2> QED
    BY <1>2, <1>4, <2>1, <2>2
<1> QED
  BY <1>1, <1>3, <1>5, <1>6 DEF NoneMissing

\* An entry an index holds is found by its agent, and by its cycle.
LEMMA EntryFound ==
    ASSUME GateInv, NEW s \in Servers, NEW j \in DOMAIN entries[s]
    PROVE  LET id == entries[s][j].id IN
           /\ id \in DOMAIN stream
           /\ stream[id].agent # NoOne => id \in Range(byAgent[s][stream[id].agent])
           /\ stream[id].cycle # NoOne => id \in Range(byCycle[s][stream[id].cycle])
<1> DEFINE es == entries[s]
           ix == IndexOf(s)
           id == es[j].id
           d == Ids(es)
           a == stream[id].agent
           c == stream[id].cycle
<1>1. /\ es \in Seq(Given) /\ Agree(ix) /\ ix.entries = es
      /\ ix.byAgent = byAgent[s] /\ ix.byCycle = byCycle[s]
  BY DEF GateInv, OfLists, ListsOf, IndexOf
<1>2. StreamNamed
  BY StreamIsNamed DEF GateInv
<1> HIDE DEF ix
<1>3. id \in DOMAIN stream /\ j \in DOMAIN es
  BY <1>1 DEF Agree
<1>4. a \in AgentNames /\ c \in CycleNames
  BY <1>2, <1>3 DEF StreamNamed
<1>5. j \in OfAgent(es, a) /\ j \in OfCycle(es, c)
  BY <1>3 DEF OfAgent, OfCycle
<1> HIDE DEF es
<1>6. d \in Seq(Nat) /\ DOMAIN d = DOMAIN es /\ d[j] = id
  BY <1>1, <1>3, IdsOfEntries DEF Ids
<1>7. OfAgent(es, a) \subseteq DOMAIN d /\ OfCycle(es, c) \subseteq DOMAIN d
  BY <1>6 DEF OfAgent, OfCycle
<1>8. /\ \A x \in Agents \ {NoOne} : byAgent[s][x] = Picked(d, OfAgent(es, x))
      /\ \A x \in Cycles \ {NoOne} : byCycle[s][x] = Picked(d, OfCycle(es, x))
  BY <1>1 DEF Agree
<1> HIDE DEF d, id, a, c
<1>9. ASSUME a # NoOne PROVE id \in Range(byAgent[s][a])
  <2> DEFINE keep == OfAgent(es, a)
             r == Picked(d, keep)
  <2>1. byAgent[s][a] = r
    BY <1>4, <1>8, <1>9 DEF AgentNames
  <2>2. j \in keep /\ keep \subseteq DOMAIN d
    BY <1>5, <1>7
  <2> HIDE DEF keep
  <2>3. \A e : e \in Range(r) <=> \E i \in keep : d[i] = e
    BY <1>6, <2>2, PickedRange
  <2> QED
    BY <1>6, <2>1, <2>2, <2>3
<1>10. ASSUME c # NoOne PROVE id \in Range(byCycle[s][c])
  <2> DEFINE keep == OfCycle(es, c)
             r == Picked(d, keep)
  <2>1. byCycle[s][c] = r
    BY <1>4, <1>8, <1>10 DEF CycleNames
  <2>2. j \in keep /\ keep \subseteq DOMAIN d
    BY <1>5, <1>7
  <2> HIDE DEF keep
  <2>3. \A e : e \in Range(r) <=> \E i \in keep : d[i] = e
    BY <1>6, <2>2, PickedRange
  <2> QED
    BY <1>6, <2>1, <2>2, <2>3
<1> QED
  BY <1>3, <1>9, <1>10 DEF id, a, c, es

\* What a server judges keeps what it says but for the target.
LEMMA JudgedAsSaid ==
    ASSUME GateInv, NEW id \in DOMAIN stream
    PROVE  FromStream(id).proc = stream[id].proc /\ FromStream(id).verdict = stream[id].verdict
<1>1. stream[id] \in Stamped
  <2>1. stream \in Seq(Stamped) /\ DOMAIN stream = 1..Len(stream)
    BY StreamIsNamed DEF GateInv, OnStream
  <2> QED
    BY <2>1, ElementOfSeq
<1>2. PICK m \in Message, t \in Nat : stream[id] = Stamp(m, t)
  BY <1>1 DEF Stamped
<1>3. DOMAIN stream[id] = Fields \cup {"epoch"}
  BY <1>2, Stamping
<1>4. "proc" \in DOMAIN stream[id] /\ "verdict" \in DOMAIN stream[id]
  BY <1>3 DEF Fields
<1> QED
  BY <1>4 DEF FromStream

\* A failed anchor among those that are judged.
LEMMA FailureJudged ==
    ASSUME GateInv, NEW s \in Servers, NEW agent, NEW cycle, NEW tokens,
           NEW id \in QueryAnchors(s, agent, cycle), id \in DOMAIN stream,
           stream[id].verdict = "FAIL", stream[id].proc # "AI-REV.1"
    PROVE  ~Admits(s, agent, cycle, tokens)
<1> DEFINE found == QueryAnchors(s, agent, cycle)
           given == [x \in found |-> FromStream(x)]
<1>1. id \in found
  OBVIOUS
<1> HIDE DEF found
<1>2. /\ id \in DOMAIN given /\ given[id].verdict = "FAIL" /\ given[id].proc # "AI-REV.1"
  BY <1>1, JudgedAsSaid
<1> HIDE DEF given
<1>3. ~Valid(given, tokens)
  BY <1>2 DEF Valid
<1> QED
  BY <1>3 DEF Admits, given, found

\* A failure that is recent enough is still in the index, is found by its agent, and is judged.
LEMMA InvFailure == GateInv => FailureRemembered
<1> SUFFICES ASSUME GateInv, NEW s \in Servers, NEW agent \in Agents \ {NoOne},
                    NEW cycle \in Cycles \cup {NoOne}, NEW tokens \in TokenCounts,
                    NEW i \in FreshFailures(s, agent, cycle)
             PROVE  ~Admits(s, agent, cycle, tokens)
  BY DEF FailureRemembered
<1> DEFINE es == entries[s]
           sn == seen[s]
           id == sn[i].id
           m == stream[id]
<1>1. CASE ~Running(s)
  BY <1>1 DEF Admits, QueryAnchors
<1>2. CASE Running(s)
  <2>1. /\ es \in Seq(Given) /\ sn \in Seq(Given) /\ Newest(es, sn) /\ NoneMissing(es, sn)
    BY <1>2 DEF GateInv, OfLists, ListsOf, Running
  <2>2. clock \in Nat /\ MaxEntries \in Nat /\ TTL \in Nat
    BY StreamIsNamed, BoundsAssumption DEF GateInv
  <2>3. /\ i \in DOMAIN sn /\ m.agent = agent /\ cycle \in {m.cycle, NoOne}
        /\ m.verdict = "FAIL" /\ m.proc # "AI-REV.1"
        /\ Len(sn) - i < MaxEntries /\ clock - sn[i].at <= TTL
    BY DEF FreshFailures
  <2> DEFINE j == i - (Len(sn) - Len(es))
  <2>4. j \in 1..Len(es) /\ es[j] = sn[i]
    <3> HIDE DEF es, sn, m, id
    <3>1. /\ Len(sn) \in Nat /\ Len(es) \in Nat /\ DOMAIN sn = 1..Len(sn)
          /\ \A x \in 1..Len(sn) : sn[x].at \in Nat
      BY <2>1, IdsOfEntries
    <3>2. i \in 1..Len(sn) /\ sn[i].at \in Nat
      BY <2>3, <3>1
    <3>3. Len(es) <= Len(sn) /\ \A x \in 1..Len(es) : es[x] = sn[Len(sn) - Len(es) + x]
      BY <2>1 DEF Newest
    <3>4. i \notin 1..(Len(sn) - Len(es))
      <4> SUFFICES ASSUME i \in 1..(Len(sn) - Len(es)) PROVE FALSE
        OBVIOUS
      <4>1. Len(sn) - i >= MaxEntries \/ clock - sn[i].at > TTL
        BY <2>1 DEF NoneMissing
      <4> QED
        BY <2>2, <2>3, <3>1, <3>2, <4>1
    <3>5. j \in 1..Len(es) /\ Len(sn) - Len(es) + j = i
      BY <3>1, <3>2, <3>3, <3>4
    <3> QED
      BY <3>3, <3>5
  <2> HIDE DEF j
  <2>5. j \in DOMAIN entries[s] /\ entries[s][j].id = id
    BY <2>1, <2>4, LenProperties
  <2>6. /\ id \in DOMAIN stream /\ (m.agent # NoOne => id \in Range(byAgent[s][m.agent]))
        /\ (m.cycle # NoOne => id \in Range(byCycle[s][m.cycle]))
    BY <2>5, EntryFound
  <2> HIDE DEF id
  <2>7. id \in QueryAnchors(s, agent, cycle)
    BY <1>2, <2>3, <2>6 DEF QueryAnchors
  <2> QED
    BY <2>3, <2>6, <2>7, FailureJudged
<1> QED
  BY <1>1, <1>2

-----------------------------------------------------------------------------
(* The invariant always holds, and what follows *)

\* Whatever starts overlap, fail or crash, whatever replies are lost and whatever the
\* gate posts, the invariant of the reader (redis-reader.ts) and of the gate (server.ts) holds.
THEOREM GateInvariant == GateSpec => []GateInv
<1>1. IndexInit => GateInv
  BY GateInit
<1>2. GateInv /\ [GateNext]_gateVars => GateInv'
  BY GateStep
<1> QED
  BY <1>1, <1>2, PTL DEF GateSpec

\* The state of readers, stream and loops keeps its types, and no index of
\* redis-reader.ts is ever longer than its cap, for any servers, messages and limits.
THEOREM IndexTyped == GateSpec => []IndexTypeOK
BY GateInvariant, InvTypeOK, PTL

\* The three lists of redis-reader.ts tell the same story: those by agent and by cycle
\* are the entries' own, in their order, and what is missing of what was indexed was one
\* too many or too old.
THEOREM ListsAgree == GateSpec => []IndexWhole
BY GateInvariant, InvWhole, PTL

\* However starts and loops of one process overlap and servers share a consumer group,
\* a message of the stream is handed to one loop, and is indexed by one server at most.
THEOREM OneReader == GateSpec => []ReadByOne
<1>1. GateInv => ReadByOne
  BY DEF GateInv, OfReaders
<1> QED
  BY <1>1, GateInvariant, PTL

\* As long as a failed anchor of an agent is neither too old nor pushed out by newer
\* ones, a server that indexed it does not admit that agent (chain-verifier.ts).
THEOREM FailuresRemembered == GateSpec => []FailureRemembered
BY GateInvariant, InvFailure, PTL

================================================================================
