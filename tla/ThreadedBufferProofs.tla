------------------------- MODULE ThreadedBufferProofs -------------------------
(***************************************************************************)
(* Proofs about ThreadedBuffer, for every number of threads and payloads,   *)
(* every batch size, retry count and cap of the dead letters.               *)
(*                                                                          *)
(* OnePlace is inductive together with TypeOK.  Whatever a thread does with *)
(* the queue, the dead letters and its own hand, it hands the payloads on   *)
(* among these three, or decides them: one lemma says that this keeps       *)
(* OnePlace, and every action is shown to be such a step.                   *)
(***************************************************************************)
EXTENDS ThreadedBuffer, OnceSequences

\* The payloads in the hands of the other threads.
InOthers(t) == UNION {Range(hand[u]) : u \in Thread \ {t}}

\* What thread t can reach: the two shared stores and its hand.
InReach(t) == Range(queue) \cup Range(deadLetter) \cup Range(hand[t])

\* The payloads of queue q, dead letters d, hand h and those just decided, o, are
\* four sets without common elements, each payload once.
Apart(q, d, h, o) ==
    /\ IsInjective(q) /\ IsInjective(d) /\ IsInjective(h)
    /\ Range(q) \cap Range(d) = {}
    /\ Range(q) \cap Range(h) = {}
    /\ Range(d) \cap Range(h) = {}
    /\ o \cap (Range(q) \cup Range(d) \cup Range(h)) = {}

\* A thread's hand among the hands.
LEMMA HandSplits ==
    ASSUME NEW t \in Thread
    PROVE  InHands = InOthers(t) \cup Range(hand[t])
BY DEF InHands, InOthers

LEMMA HandChanges ==
    ASSUME TypeOK, NEW t \in Thread, NEW s, Hold(t, s)
    PROVE  /\ hand'[t] = s
           /\ \A u \in Thread \ {t} : hand'[u] = hand[u]
           /\ InHands' = InOthers(t) \cup Range(s)
           /\ s \in Seq(Payload) => hand' \in [Thread -> Seq(Payload)]
<1>1. hand' = [hand EXCEPT ![t] = s] /\ hand \in [Thread -> Seq(Payload)]
  BY DEF Hold, TypeOK
<1>2. hand'[t] = s /\ \A u \in Thread \ {t} : hand'[u] = hand[u]
  BY <1>1
<1>3. InHands' = InOthers(t) \cup Range(s)
  <2>1. InHands' = UNION {Range(hand'[u]) : u \in Thread}
    BY DEF InHands
  <2>2. \A u \in Thread \ {t} : Range(hand'[u]) = Range(hand[u])
    BY <1>2
  <2>3. Range(hand'[t]) = Range(s)
    BY <1>2
  <2> QED
    BY <2>1, <2>2, <2>3 DEF InOthers
<1>4. s \in Seq(Payload) => hand' \in [Thread -> Seq(Payload)]
  BY <1>1
<1> QED
  BY <1>2, <1>3, <1>4

\* In a state where every payload has one place, what a thread can reach is apart.
LEMMA ReachApart ==
    ASSUME OnePlace, NEW t \in Thread
    PROVE  /\ Apart(queue, deadLetter, hand[t], {})
           /\ InReach(t) \cap (entering \cup InOthers(t) \cup Over) = {}
           /\ entering \cap (InOthers(t) \cup Over) = {}
           /\ InOthers(t) \cap Over = {}
           /\ accepted = entering \cup InReach(t) \cup InOthers(t) \cup Over
<1>1. InHands = InOthers(t) \cup Range(hand[t])
  BY HandSplits
<1>2. InOthers(t) \cap Range(hand[t]) = {}
  BY DEF InOthers, OnePlace
<1>3. Apart(queue, deadLetter, hand[t], {})
  BY <1>1 DEF Apart, OnePlace
<1>4. InReach(t) \cap (entering \cup InOthers(t) \cup Over) = {}
  BY <1>1, <1>2 DEF InReach, OnePlace
<1> QED
  BY <1>1, <1>3, <1>4 DEF InReach, OnePlace

\* A step of thread t that leaves the other hands alone, and hands on what t can
\* reach, keeps every payload in one place.
LEMMA HandsOn ==
    ASSUME TypeOK, OnePlace, NEW t \in Thread, NEW h, Hold(t, h), NEW o,
           UNCHANGED <<entering, accepted>>,
           Apart(queue', deadLetter', h, o),
           Range(queue') \cup Range(deadLetter') \cup Range(h) \cup o = InReach(t),
           Over' = Over \cup o
    PROVE  OnePlace'
<1> DEFINE e == entering
           q == Range(queue')
           d == Range(deadLetter')
           k == Range(h)
           others == InOthers(t)
<1>1. /\ hand'[t] = h /\ \A u \in Thread \ {t} : hand'[u] = hand[u]
      /\ InHands' = others \cup k
  BY HandChanges
<1>2. /\ InReach(t) \cap (e \cup others \cup Over) = {}
      /\ e \cap (others \cup Over) = {}
      /\ others \cap Over = {}
      /\ accepted = e \cup InReach(t) \cup others \cup Over
  BY ReachApart
<1>3. InReach(t) = q \cup d \cup k \cup o
  OBVIOUS
<1>4. \A u, v \in Thread : u # v => Range(hand'[u]) \cap Range(hand'[v]) = {}
  <2> SUFFICES ASSUME NEW u \in Thread, NEW v \in Thread, u # v
               PROVE  Range(hand'[u]) \cap Range(hand'[v]) = {}
    OBVIOUS
  <2>1. \A w \in Thread \ {t} : k \cap Range(hand[w]) = {}
    BY <1>2, <1>3 DEF InOthers
  <2>2. CASE u # t /\ v # t
    BY <1>1, <2>2 DEF OnePlace
  <2>3. CASE u = t
    <3>1. v # t /\ Range(hand'[u]) = k /\ Range(hand'[v]) = Range(hand[v])
      BY <1>1, <2>3
    <3> QED
      BY <2>1, <3>1
  <2>4. CASE v = t
    <3>1. u # t /\ Range(hand'[v]) = k /\ Range(hand'[u]) = Range(hand[u])
      BY <1>1, <2>4
    <3> QED
      BY <2>1, <3>1
  <2> QED
    BY <2>2, <2>3, <2>4
<1>5. \A u \in Thread : IsInjective(hand'[u])
  BY <1>1 DEF OnePlace, Apart
<1>6. /\ q \cap d = {} /\ q \cap k = {} /\ d \cap k = {}
      /\ o \cap (q \cup d \cup k) = {}
      /\ IsInjective(queue') /\ IsInjective(deadLetter')
  BY DEF Apart
<1>7. entering' = e /\ accepted' = e \cup q \cup d \cup k \cup o \cup others \cup Over
  BY <1>2, <1>3
<1> HIDE DEF e, q, d, k, others
<1>8. accepted' = entering' \cup q \cup d \cup InHands' \cup Over'
  BY <1>1, <1>7
<1>9. entering' \cap q = {}
  BY <1>2, <1>3, <1>7
<1>10. (entering' \cup q) \cap (d \cup InHands') = {}
  BY <1>1, <1>2, <1>3, <1>6, <1>7
<1>11. d \cap InHands' = {}
  BY <1>1, <1>2, <1>3, <1>6
<1>12. (entering' \cup q \cup d \cup InHands') \cap Over' = {}
  BY <1>1, <1>2, <1>3, <1>6, <1>7
<1> QED
  BY <1>4, <1>5, <1>6, <1>8, <1>9, <1>10, <1>11, <1>12 DEF OnePlace, q, d

\* A step that moves no payload.
LEMMA NothingMoves ==
    ASSUME OnePlace, UNCHANGED <<entering, accepted, queue, deadLetter, hand>>,
           Over' = Over
    PROVE  OnePlace'
BY DEF OnePlace, InHands

\* What a thread lets go of is decided.
LEMMA LetsGo ==
    ASSUME TypeOK, OnePlace, NEW t \in Thread, Hold(t, <<>>),
           UNCHANGED <<entering, accepted, queue, deadLetter>>,
           Over' = Over \cup Range(hand[t])
    PROVE  OnePlace'
<1> DEFINE none == <<>>
           o == Range(hand[t])
<1>1. /\ Range(none) = {} /\ IsInjective(none) /\ Hold(t, none)
      /\ none \in Seq(Payload)
  BY EmptyOnce
<1>2. Apart(queue, deadLetter, hand[t], {})
  BY ReachApart
<1> HIDE DEF none
<1>3. Apart(queue', deadLetter', none, o)
  BY <1>1, <1>2 DEF Apart
<1>4. Range(queue') \cup Range(deadLetter') \cup Range(none) \cup o = InReach(t)
  BY <1>1 DEF InReach
<1> HIDE DEF o
<1>5. Over' = Over \cup o
  BY DEF o
<1> QED
  BY <1>1, <1>3, <1>4, <1>5, HandsOn

-----------------------------------------------------------------------------
(* The batch a thread makes of the dead letters and its hand *)

\* The full deque pushed cut out of what held and batch had, and kept the rest.
CutOff(held, batch, cut) ==
    /\ dropped' = dropped \cup cut
    /\ Range(held) \cup Range(batch) = Range(deadLetter') \cup cut
    /\ (/\ IsInjective(held) /\ IsInjective(batch)
        /\ Range(held) \cap Range(batch) = {}) =>
         /\ IsInjective(deadLetter')
         /\ Range(deadLetter') \cap cut = {}

\* Giving a batch up: what the full deque pushes out is dropped.
LEMMA GiveUpCuts ==
    ASSUME NEW t \in Thread, NEW held \in Seq(Payload), NEW batch \in Seq(Payload),
           GiveUp(t, held, batch)
    PROVE  /\ Hold(t, <<>>) /\ Go(t, Home(t))
           /\ deadLetter' \in Seq(Payload)
           /\ Len(deadLetter') <= MaxRetryBuffer
           /\ \E cut \in SUBSET Payload : CutOff(held, batch, cut)
<1> DEFINE all == held \o batch
           n == IF Len(all) > MaxRetryBuffer THEN Len(all) - MaxRetryBuffer ELSE 0
           kept == SubSeq(all, n + 1, Len(all))
           lost == SubSeq(all, 1, n)
<1>1. /\ all \in Seq(Payload)
      /\ Range(all) = Range(held) \cup Range(batch)
      /\ (/\ IsInjective(held) /\ IsInjective(batch)
          /\ Range(held) \cap Range(batch) = {}) => IsInjective(all)
  BY ConcatOnce
<1>2. /\ deadLetter' = kept /\ dropped' = dropped \cup Range(lost)
      /\ Hold(t, <<>>) /\ Go(t, Home(t))
  BY DEF GiveUp
<1> HIDE DEF all
<1>3. Len(all) \in Nat /\ MaxRetryBuffer \in Nat
  BY <1>1, ThreadedBufferAssumption
<1>4. n \in 0..Len(all) /\ Len(all) - n <= MaxRetryBuffer
  BY <1>3
<1> HIDE DEF n
<1>5. /\ lost \in Seq(Payload) /\ kept \in Seq(Payload)
      /\ Len(kept) = Len(all) - n
      /\ Range(all) = Range(lost) \cup Range(kept)
      /\ IsInjective(all) => /\ IsInjective(lost) /\ IsInjective(kept)
                             /\ Range(lost) \cap Range(kept) = {}
  BY <1>1, <1>4, CutOnce
<1> HIDE DEF kept, lost
<1>6. Range(lost) \in SUBSET Payload
  BY <1>5, LenProperties, ElementOfSeq DEF Range
<1> QED
  BY <1>1, <1>2, <1>4, <1>5, <1>6 DEF CutOff

\* The dead letters and the hand of t in one batch, in either order; or only the
\* dead letters, if the hand is empty.
AllOf(t, held, batch) ==
    /\ held \in Seq(Payload) /\ batch \in Seq(Payload)
    /\ Range(held) \cup Range(batch) = Range(deadLetter) \cup Range(hand[t])
    /\ OnePlace => /\ IsInjective(held) /\ IsInjective(batch)
                   /\ Range(held) \cap Range(batch) = {}

LEMMA GiveUpKeeps ==
    ASSUME TypeOK, OnePlace, NEW t \in Thread, NEW held, NEW batch,
           AllOf(t, held, batch), GiveUp(t, held, batch),
           UNCHANGED <<queue, entering, accepted, delivered, refused, left, raised>>
    PROVE  OnePlace'
<1> DEFINE none == <<>>
<1>1. held \in Seq(Payload) /\ batch \in Seq(Payload)
  BY DEF AllOf
<1>2. PICK cut \in SUBSET Payload :
        /\ dropped' = dropped \cup cut
        /\ Range(deadLetter) \cup Range(hand[t]) = Range(deadLetter') \cup cut
        /\ IsInjective(deadLetter') /\ Range(deadLetter') \cap cut = {}
  <2>1. \E cut \in SUBSET Payload : CutOff(held, batch, cut)
    BY <1>1, GiveUpCuts
  <2> QED
    BY <2>1 DEF AllOf, CutOff
<1>3. Hold(t, none) /\ Range(none) = {} /\ IsInjective(none)
  BY <1>1, GiveUpCuts, EmptyOnce
<1> HIDE DEF none
<1>4. Apart(queue, deadLetter, hand[t], {})
  BY ReachApart
<1>5. Apart(queue', deadLetter', none, cut)
  <2>1. Range(queue) \cap (Range(deadLetter') \cup cut) = {}
    BY <1>2, <1>4 DEF Apart
  <2> QED
    BY <1>2, <1>3, <1>4, <2>1 DEF Apart
<1>6. Range(queue') \cup Range(deadLetter') \cup Range(none) \cup cut = InReach(t)
  BY <1>2, <1>3 DEF InReach
<1>7. Over' = Over \cup cut
  BY <1>2 DEF Over, Settled
<1> QED
  BY <1>3, <1>5, <1>6, <1>7, HandsOn

LEMMA SendKeeps ==
    ASSUME TypeOK, OnePlace, NEW t \in Thread, NEW batch, AllOf(t, <<>>, batch),
           Send(t, batch),
           UNCHANGED <<queue, entering, accepted, delivered, refused, left, raised>>
    PROVE  OnePlace'
<1> DEFINE none == <<>>
<1>1. /\ AllOf(t, none, batch) /\ batch \in Seq(Payload)
      /\ Range(none) = {} /\ IsInjective(none)
  BY EmptyOnce DEF AllOf
<1>2. CASE batch = <<>>
  BY <1>2, NothingMoves DEF Send, Over, Settled
<1>3. CASE batch # <<>> /\ MaxRetries = 0
  <2>1. GiveUp(t, none, batch)
    BY <1>3 DEF Send
  <2> HIDE DEF none
  <2> QED
    BY <1>1, <2>1, GiveUpKeeps
<1>4. CASE batch # <<>> /\ MaxRetries # 0
  <2>1. deadLetter' = none /\ Hold(t, batch) /\ dropped' = dropped
    BY <1>4 DEF Send
  <2> HIDE DEF none
  <2>2. Apart(queue, deadLetter, hand[t], {})
    BY ReachApart
  <2>3. /\ Range(batch) = Range(deadLetter) \cup Range(hand[t])
        /\ IsInjective(batch)
    BY <1>1 DEF AllOf
  <2>4. Apart(queue', deadLetter', batch, {})
    BY <1>1, <2>1, <2>2, <2>3 DEF Apart
  <2>5. Range(queue') \cup Range(deadLetter') \cup Range(batch) \cup {} = InReach(t)
    BY <1>1, <2>1, <2>3 DEF InReach
  <2>6. Over' = Over \cup {}
    BY <2>1 DEF Over, Settled
  <2> QED
    BY <2>1, <2>4, <2>5, <2>6, HandsOn
<1> QED
  BY <1>2, <1>3, <1>4

-----------------------------------------------------------------------------
LEMMA Batches ==
    ASSUME TypeOK, NEW t \in Thread
    PROVE  /\ AllOf(t, <<>>, deadLetter \o hand[t])
           /\ AllOf(t, deadLetter, hand[t])
           /\ hand[t] = <<>> => AllOf(t, <<>>, deadLetter)
<1> DEFINE none == <<>>
           all == deadLetter \o hand[t]
<1>1. none \in Seq(Payload) /\ Range(none) = {} /\ IsInjective(none)
  BY EmptyOnce
<1>2. deadLetter \in Seq(Payload) /\ hand[t] \in Seq(Payload)
  BY DEF TypeOK
<1>3. /\ all \in Seq(Payload) /\ Range(all) = Range(deadLetter) \cup Range(hand[t])
      /\ (/\ IsInjective(deadLetter) /\ IsInjective(hand[t])
          /\ Range(deadLetter) \cap Range(hand[t]) = {}) => IsInjective(all)
  BY <1>2, ConcatOnce
<1>4. OnePlace => /\ IsInjective(deadLetter) /\ IsInjective(hand[t])
                  /\ Range(deadLetter) \cap Range(hand[t]) = {}
  BY HandSplits DEF OnePlace
<1> HIDE DEF none, all
<1>5. AllOf(t, none, all) /\ AllOf(t, deadLetter, hand[t])
  BY <1>1, <1>2, <1>3, <1>4 DEF AllOf
<1>6. hand[t] = none => AllOf(t, none, deadLetter)
  BY <1>1, <1>2, <1>4 DEF AllOf
<1> QED
  BY <1>5, <1>6 DEF none, all

-----------------------------------------------------------------------------
(* Type correctness *)

LEMMA HandTyped ==
    ASSUME TypeOK, NEW t \in Thread
    PROVE  /\ hand[t] \in Seq(Payload) /\ Range(hand[t]) \subseteq Payload
           /\ attempt[t] \in Nat /\ at[t] \in Places
           /\ \A a \in Places : Go(t, a) => at' \in [Thread -> Places]
           /\ \A s \in Seq(Payload) : Hold(t, s) => hand' \in [Thread -> Seq(Payload)]
           /\ Home(t) \in Places
<1>1. hand[t] \in Seq(Payload)
  BY DEF TypeOK
<1>2. Range(hand[t]) \subseteq Payload
  BY <1>1, LenProperties, ElementOfSeq DEF Range
<1> QED
  BY <1>1, <1>2 DEF TypeOK, Go, Hold, Home, Places

LEMMA SendTyped ==
    ASSUME TypeOK, NEW t \in Thread, NEW batch, AllOf(t, <<>>, batch), Send(t, batch)
    PROVE  /\ deadLetter' \in Seq(Payload) /\ Len(deadLetter') <= MaxRetryBuffer
           /\ at' \in [Thread -> Places] /\ hand' \in [Thread -> Seq(Payload)]
           /\ attempt' \in [Thread -> Nat] /\ dropped' \subseteq Payload
<1> DEFINE none == <<>>
<1>1. /\ none \in Seq(Payload) /\ Len(none) = 0 /\ Len(none) <= MaxRetryBuffer
      /\ batch \in Seq(Payload)
  BY ThreadedBufferAssumption, EmptyOnce DEF AllOf
<1>2. CASE batch = <<>>
  BY <1>2, HandTyped DEF Send, TypeOK
<1>3. CASE batch # <<>> /\ MaxRetries = 0
  <2>1. GiveUp(t, none, batch) /\ attempt' = attempt
    BY <1>3 DEF Send
  <2> HIDE DEF none
  <2>2. /\ Hold(t, <<>>) /\ Go(t, Home(t)) /\ deadLetter' \in Seq(Payload)
        /\ Len(deadLetter') <= MaxRetryBuffer
        /\ \E cut \in SUBSET Payload : CutOff(none, batch, cut)
    BY <1>1, <2>1, GiveUpCuts
  <2>3. <<>> \in Seq(Payload)
    BY EmptyOnce
  <2> QED
    BY <2>1, <2>2, <2>3, HandTyped DEF TypeOK, CutOff
<1>4. CASE batch # <<>> /\ MaxRetries # 0
  <2>1. /\ deadLetter' = none /\ Hold(t, batch) /\ dropped' = dropped
        /\ Go(t, "posted") /\ attempt' = [attempt EXCEPT ![t] = 0]
    BY <1>4 DEF Send
  <2> HIDE DEF none
  <2>2. "posted" \in Places
    BY DEF Places
  <2> QED
    BY <1>1, <2>1, <2>2, HandTyped DEF TypeOK
<1> QED
  BY <1>2, <1>3, <1>4

LEMMA FailTyped ==
    ASSUME TypeOK, NEW t \in Thread, Fail(t)
    PROVE  TypeOK'
<1>1. CASE attempt[t] + 1 < MaxRetries
  <2>1. /\ attempt' = [attempt EXCEPT ![t] = @ + 1] /\ Go(t, "backoff")
        /\ UNCHANGED <<hand, deadLetter, dropped>>
    BY <1>1 DEF Fail
  <2>2. "backoff" \in Places
    BY DEF Places
  <2> QED
    BY <2>1, <2>2, HandTyped DEF Fail, TypeOK
<1>2. CASE ~(attempt[t] + 1 < MaxRetries)
  <2>1. GiveUp(t, deadLetter, hand[t]) /\ UNCHANGED attempt
    BY <1>2 DEF Fail
  <2>2. /\ Hold(t, <<>>) /\ Go(t, Home(t)) /\ deadLetter' \in Seq(Payload)
        /\ Len(deadLetter') <= MaxRetryBuffer
        /\ \E cut \in SUBSET Payload : CutOff(deadLetter, hand[t], cut)
    BY <2>1, GiveUpCuts DEF TypeOK
  <2>3. <<>> \in Seq(Payload)
    BY EmptyOnce
  <2> QED
    <3>1. dropped' \subseteq Payload
      BY <2>2 DEF TypeOK, CutOff
    <3>2. at' \in [Thread -> Places] /\ hand' \in [Thread -> Seq(Payload)]
      BY <2>2, <2>3, HandTyped
    <3> QED
      BY <2>1, <2>2, <3>1, <3>2, HandTyped DEF Fail, TypeOK
<1> QED
  BY <1>1, <1>2

\* What a get leaves and what it takes.
LEMMA HeadAndTail ==
    ASSUME NEW q \in Seq(Payload), q # <<>>
    PROVE  /\ Head(q) \in Payload /\ Tail(q) \in Seq(Payload)
           /\ Range(q) = {Head(q)} \cup Range(Tail(q))
           /\ IsInjective(q) => /\ IsInjective(Tail(q))
                                /\ Head(q) \notin Range(Tail(q))
<1>1. /\ Len(q) \in Nat /\ Len(q) >= 1 /\ DOMAIN q = 1..Len(q)
      /\ Head(q) = q[1] /\ q[1] \in Payload
  BY LenProperties, EmptySeq, ElementOfSeq
<1>2. /\ Tail(q) \in Seq(Payload) /\ Len(Tail(q)) = Len(q) - 1
      /\ \A i \in 1..Len(q) - 1 : Tail(q)[i] = q[i + 1]
      /\ DOMAIN Tail(q) = 1..Len(q) - 1
  BY HeadTailProperties, LenProperties
<1> DEFINE u == Tail(q)
<1> HIDE DEF u
<1>3. Range(q) \subseteq {q[1]} \cup Range(Tail(q))
  <2> SUFFICES ASSUME NEW i \in DOMAIN q, i # 1 PROVE q[i] \in Range(Tail(q))
    BY DEF Range
  <2>1. i - 1 \in DOMAIN Tail(q) /\ Tail(q)[i - 1] = q[i]
    BY <1>1, <1>2
  <2> QED
    BY <2>1 DEF Range
<1>4. Range(Tail(q)) \subseteq Range(q)
  <2> SUFFICES ASSUME NEW i \in DOMAIN Tail(q) PROVE Tail(q)[i] \in Range(q)
    BY DEF Range
  <2>1. i + 1 \in DOMAIN q /\ Tail(q)[i] = q[i + 1]
    BY <1>1, <1>2
  <2> QED
    BY <2>1 DEF Range
<1>5. q[1] \in Range(q)
  BY <1>1 DEF Range
<1>6. ASSUME IsInjective(q)
      PROVE  IsInjective(Tail(q)) /\ q[1] \notin Range(Tail(q))
  <2>1. ASSUME NEW i \in DOMAIN Tail(q), NEW j \in DOMAIN Tail(q),
               Tail(q)[i] = Tail(q)[j]
        PROVE  i = j
    <3>1. /\ i + 1 \in DOMAIN q /\ Tail(q)[i] = q[i + 1]
          /\ j + 1 \in DOMAIN q /\ Tail(q)[j] = q[j + 1]
      BY <1>1, <1>2
    <3>2. i + 1 = j + 1
      BY <1>6, <2>1, <3>1 DEF IsInjective
    <3> QED
      BY <1>1, <1>2, <3>2
  <2>2. ASSUME NEW i \in DOMAIN Tail(q), Tail(q)[i] = q[1] PROVE FALSE
    <3>1. i + 1 \in DOMAIN q /\ Tail(q)[i] = q[i + 1] /\ 1 \in DOMAIN q /\ i + 1 # 1
      BY <1>1, <1>2
    <3> QED
      BY <1>6, <2>2, <3>1 DEF IsInjective
  <2> QED
    BY <2>1, <2>2 DEF IsInjective, Range
<1> QED
  BY <1>1, <1>2, <1>3, <1>4, <1>5, <1>6

LEMMA ThreadTyped ==
    ASSUME TypeOK, NEW t \in Thread, ThreadStep(t)
    PROVE  TypeOK'
<1> DEFINE none == <<>>
<1>0. /\ none \in Seq(Payload)
      /\ \A a \in {"posted", "answered", "taking", "draining", "ended", "idle"} :
           a \in Places
      /\ Home(t) \in Places
  BY HandTyped, EmptyOnce DEF Places
<1> USE DEF TypeOK
<1>1. CASE Get(t)
  <2>1. Head(queue) \in Payload /\ Tail(queue) \in Seq(Payload)
    BY <1>1, HeadAndTail DEF Get
  <2> DEFINE s == Append(hand[t], Head(queue))
  <2>2. s \in Seq(Payload)
    BY <2>1, HandTyped, AppendOnce
  <2>3. /\ Hold(t, s) /\ Go(t, "draining") /\ queue' = Tail(queue)
        /\ UNCHANGED <<deadLetter, stopped, entering, attempt, stopper, accepted,
                       outcomes, endpoint>>
    BY <1>1 DEF Get
  <2> HIDE DEF s
  <2> QED
    BY <1>0, <2>1, <2>2, <2>3, HandTyped DEF outcomes, endpoint
<1>2. CASE FindEmpty(t)
  BY <1>0, <1>2, HandTyped DEF FindEmpty, shared, outcomes, endpoint
<1>3. CASE Take(t)
  <2>1. /\ Send(t, deadLetter \o hand[t]) /\ AllOf(t, <<>>, deadLetter \o hand[t])
    BY <1>3, Batches DEF Take
  <2> QED
    BY <1>3, <2>1, SendTyped DEF Take, endpoint
<1>4. CASE Answer(t)
  BY <1>0, <1>4, HandTyped DEF Answer, Arrive, shared, outcomes
<1>5. CASE Succeed(t) \/ Refuse(t)
  <2>1. Hold(t, none) /\ Go(t, Home(t)) /\ UNCHANGED <<attempt, stopper>>
    BY <1>5 DEF Succeed, Refuse, Done
  <2> HIDE DEF none
  <2>2. at' \in [Thread -> Places] /\ hand' \in [Thread -> Seq(Payload)]
    BY <1>0, <2>1, HandTyped
  <2> QED
    BY <1>5, <2>1, <2>2, HandTyped DEF Succeed, Refuse, shared, endpoint
<1>6. CASE Fail(t)
  BY <1>6, FailTyped
<1>7. CASE Resend(t)
  BY <1>0, <1>7, HandTyped DEF Resend, shared, outcomes, endpoint
<1>8. CASE Raise(t)
  <2>1. /\ Hold(t, none) /\ \E a \in Places : Go(t, a)
        /\ UNCHANGED <<attempt, stopper>>
    BY <1>0, <1>8 DEF Raise
  <2> HIDE DEF none
  <2>2. at' \in [Thread -> Places] /\ hand' \in [Thread -> Seq(Payload)]
    BY <1>0, <2>1, HandTyped
  <2> QED
    BY <1>8, <2>1, <2>2, HandTyped DEF Raise, shared, endpoint
<1> QED
  BY <1>1, <1>2, <1>3, <1>4, <1>5, <1>6, <1>7, <1>8 DEF ThreadStep, Sending

LEMMA TypeStep == TypeOK /\ [Next]_vars => TypeOK'
<1> SUFFICES ASSUME TypeOK, [Next]_vars PROVE TypeOK'
  OBVIOUS
<1>0. Daemon \in Thread /\ \A c \in Caller : c \in Thread
  BY DEF Thread
<1>1. ASSUME NEW p \in Payload, Enter(p) \/ Put(p) \/ LateArrival(p) PROVE TypeOK'
  <2>1. CASE Enter(p)
    BY <2>1 DEF TypeOK, Enter, threads, outcomes, endpoint
  <2>2. CASE Put(p)
    <3>1. Append(queue, p) \in Seq(Payload)
      BY AppendOnce DEF TypeOK
    <3> QED
      BY <2>2, <3>1 DEF TypeOK, Put, threads, outcomes, endpoint
  <2>3. CASE LateArrival(p)
    BY <2>3 DEF TypeOK, LateArrival, Arrive, shared, threads, outcomes
  <2> QED
    BY <1>1, <2>1, <2>2, <2>3
<1>2. ASSUME NEW c \in Caller, CallFlush(c) \/ CallStop(c) PROVE TypeOK'
  <2>1. "draining" \in Places
    BY DEF Places
  <2> QED
    BY <1>0, <1>2, <2>1, HandTyped
       DEF TypeOK, CallFlush, CallStop, shared, outcomes, endpoint
<1>3. ASSUME NEW c \in Caller, ThreadStep(c) PROVE TypeOK'
  BY <1>0, <1>3, ThreadTyped
<1>4. CASE ThreadStep(Daemon)
  BY <1>0, <1>4, ThreadTyped
<1>5. CASE Turn
  <2> DEFINE none == <<>>
  <2>1. none \in Seq(Payload) /\ "ended" \in Places /\ "waiting" \in Places
    BY EmptyOnce DEF Places
  <2>2. CASE stopped
    <3>1. /\ Go(Daemon, "ended") /\ left' = left \cup Range(hand[Daemon])
          /\ Hold(Daemon, none)
      BY <1>5, <2>2 DEF Turn
    <3> HIDE DEF none
    <3> QED
      BY <1>0, <1>5, <2>1, <3>1, HandTyped DEF TypeOK, Turn, shared, endpoint
  <2>3. CASE ~stopped
    BY <1>0, <1>5, <2>1, <2>3, HandTyped DEF TypeOK, Turn, shared, endpoint
  <2> QED
    BY <2>2, <2>3
<1>6. CASE Retry
  <2>1. Send(Daemon, deadLetter) /\ AllOf(Daemon, <<>>, deadLetter)
    BY <1>0, <1>6, Batches DEF Retry
  <2> QED
    BY <1>0, <1>6, <2>1, SendTyped DEF TypeOK, Retry, endpoint
<1>7. CASE Linger
  <2>1. "top" \in Places
    BY DEF Places
  <2> QED
    BY <1>0, <1>7, <2>1, HandTyped DEF TypeOK, Linger, shared, outcomes, endpoint
<1>8. CASE UNCHANGED vars
  BY <1>8 DEF TypeOK, vars, shared, threads, outcomes, endpoint
<1> QED
  BY <1>1, <1>2, <1>3, <1>4, <1>5, <1>6, <1>7, <1>8 DEF Next, DaemonStep

\* The queue, the dead letters and the hands hold payloads, the dead letters no
\* more than the deque's maxlen, and every thread is at a known place (buffer.py).
THEOREM ThreadedTypeCorrect == Spec => []TypeOK
<1>1. Init => TypeOK
  <2> DEFINE none == <<>>
  <2>1. none \in Seq(Payload) /\ Len(none) = 0 /\ Len(none) <= MaxRetryBuffer
    BY EmptyOnce, ThreadedBufferAssumption
  <2>2. \A t \in Thread : Home(t) \in Places
    BY DEF Home, Places
  <2> SUFFICES ASSUME Init PROVE TypeOK
    OBVIOUS
  <2>3. /\ queue = none /\ deadLetter = none /\ hand = [t \in Thread |-> none]
    BY DEF Init
  <2> HIDE DEF none
  <2> QED
    BY <2>1, <2>2, <2>3 DEF Init, TypeOK
<1> QED
  BY <1>1, TypeStep, PTL DEF Spec

-----------------------------------------------------------------------------
(* Every payload has one place *)

LEMMA GetKeeps ==
    ASSUME TypeOK, OnePlace, NEW t \in Thread, Get(t)
    PROVE  OnePlace'
<1> DEFINE p == Head(queue)
           rest == Tail(queue)
           h == Append(hand[t], p)
<1>1. /\ Hold(t, h) /\ queue' = rest
      /\ UNCHANGED <<deadLetter, entering, accepted>> /\ Over' = Over \cup {}
  BY DEF Get, outcomes, Over, Settled
<1>2. queue \in Seq(Payload) /\ queue # <<>>
  BY DEF Get, TypeOK
<1>3. Apart(queue, deadLetter, hand[t], {})
  BY ReachApart
<1>4. /\ p \in Payload /\ Range(queue) = {p} \cup Range(rest)
      /\ IsInjective(rest) /\ p \notin Range(rest)
  BY <1>2, <1>3, HeadAndTail DEF Apart
<1> HIDE DEF p, rest
<1>5. p \notin Range(hand[t]) /\ p \notin Range(deadLetter)
  BY <1>3, <1>4 DEF Apart
<1>6. Range(h) = Range(hand[t]) \cup {p} /\ IsInjective(h)
  BY <1>3, <1>4, <1>5, HandTyped, AppendOnce DEF Apart
<1> HIDE DEF h
<1>7. Apart(queue', deadLetter', h, {})
  BY <1>1, <1>3, <1>4, <1>5, <1>6 DEF Apart
<1>8. Range(queue') \cup Range(deadLetter') \cup Range(h) \cup {} = InReach(t)
  BY <1>1, <1>4, <1>6 DEF InReach
<1> QED
  BY <1>1, <1>7, <1>8, HandsOn

LEMMA ThreadKeeps ==
    ASSUME TypeOK, OnePlace, NEW t \in Thread, ThreadStep(t)
    PROVE  OnePlace'
<1>1. CASE Get(t)
  BY <1>1, GetKeeps
<1>2. CASE FindEmpty(t) \/ Answer(t) \/ Resend(t)
  <2>1. UNCHANGED <<entering, accepted, queue, deadLetter, hand, outcomes>>
    BY <1>2 DEF FindEmpty, Answer, Resend, shared
  <2> QED
    BY <2>1, NothingMoves DEF outcomes, Over, Settled
<1>3. CASE Take(t)
  <2>1. AllOf(t, <<>>, deadLetter \o hand[t])
    BY Batches
  <2> QED
    BY <1>3, <2>1, SendKeeps DEF Take
<1>4. CASE Succeed(t) \/ Refuse(t) \/ Raise(t)
  <2>1. Over' = Over \cup Range(hand[t])
    BY <1>4 DEF Succeed, Refuse, Raise, Over, Settled
  <2>2. Hold(t, <<>>) /\ UNCHANGED <<entering, accepted, queue, deadLetter>>
    BY <1>4 DEF Succeed, Refuse, Raise, Done, shared
  <2> QED
    BY <2>1, <2>2, LetsGo
<1>5. CASE Fail(t)
  <2>1. CASE attempt[t] + 1 < MaxRetries
    <3>1. /\ UNCHANGED <<entering, accepted, queue, deadLetter, hand>>
          /\ Over' = Over
      BY <1>5, <2>1 DEF Fail, Over, Settled
    <3> QED
      BY <3>1, NothingMoves
  <2>2. CASE ~(attempt[t] + 1 < MaxRetries)
    <3>1. GiveUp(t, deadLetter, hand[t]) /\ AllOf(t, deadLetter, hand[t])
      BY <1>5, <2>2, Batches DEF Fail
    <3> QED
      BY <1>5, <3>1, GiveUpKeeps DEF Fail
  <2> QED
    BY <2>1, <2>2
<1> QED
  BY <1>1, <1>2, <1>3, <1>4, <1>5 DEF ThreadStep, Sending

LEMMA OnePlaceStep == TypeOK /\ OnePlace /\ [Next]_vars => OnePlace'
<1> SUFFICES ASSUME TypeOK, OnePlace, [Next]_vars PROVE OnePlace'
  OBVIOUS
<1>0. Daemon \in Thread /\ \A c \in Caller : c \in Thread
  BY DEF Thread
<1>1. ASSUME NEW p \in Payload, Enter(p) PROVE OnePlace'
  <2>1. /\ p \notin accepted /\ accepted' = accepted \cup {p}
        /\ entering' = entering \cup {p}
        /\ UNCHANGED <<queue, deadLetter, hand>> /\ Over' = Over /\ InHands' = InHands
    BY <1>1 DEF Enter, threads, outcomes, Over, Settled, InHands
  <2> QED
    BY <2>1 DEF OnePlace
<1>2. ASSUME NEW p \in Payload, Put(p) PROVE OnePlace'
  <2>1. /\ p \in entering /\ entering' = entering \ {p}
        /\ queue' = Append(queue, p) /\ accepted' = accepted
        /\ UNCHANGED <<deadLetter, hand>> /\ Over' = Over /\ InHands' = InHands
    BY <1>2 DEF Put, threads, outcomes, Over, Settled, InHands
  <2>2. p \notin Range(queue)
    BY <2>1 DEF OnePlace
  <2>3. Range(queue') = Range(queue) \cup {p} /\ IsInjective(queue')
    BY <2>1, <2>2, AppendOnce DEF OnePlace, TypeOK
  <2> QED
    BY <2>1, <2>3, ZenonT(40) DEF OnePlace
<1>3. ASSUME NEW p \in Payload, LateArrival(p) PROVE OnePlace'
  <2>1. UNCHANGED <<entering, accepted, queue, deadLetter, hand, outcomes>>
    BY <1>3 DEF LateArrival, shared, threads
  <2> QED
    BY <2>1, NothingMoves DEF outcomes, Over, Settled
<1>4. ASSUME NEW c \in Caller, CallFlush(c) \/ CallStop(c) PROVE OnePlace'
  <2>1. UNCHANGED <<entering, accepted, queue, deadLetter, hand, outcomes>>
    BY <1>4 DEF CallFlush, CallStop, shared
  <2> QED
    BY <2>1, NothingMoves DEF outcomes, Over, Settled
<1>5. ASSUME NEW c \in Caller, ThreadStep(c) PROVE OnePlace'
  BY <1>0, <1>5, ThreadKeeps
<1>6. CASE ThreadStep(Daemon)
  BY <1>0, <1>6, ThreadKeeps
<1>7. CASE Turn
  <2>1. UNCHANGED <<entering, accepted, queue, deadLetter, delivered, refused,
                    dropped, raised>>
    BY <1>7 DEF Turn, shared
  <2>2. CASE stopped
    <3>1. Hold(Daemon, <<>>) /\ Over' = Over \cup Range(hand[Daemon])
      BY <1>7, <2>1, <2>2 DEF Turn, Over, Settled
    <3> QED
      BY <1>0, <2>1, <3>1, LetsGo
  <2>3. CASE ~stopped
    <3>1. UNCHANGED hand /\ Over' = Over
      BY <1>7, <2>1, <2>3 DEF Turn, Over, Settled
    <3> QED
      BY <2>1, <3>1, NothingMoves
  <2> QED
    BY <2>2, <2>3
<1>8. CASE Retry
  <2>1. AllOf(Daemon, <<>>, deadLetter)
    BY <1>0, <1>8, Batches DEF Retry
  <2> QED
    BY <1>0, <1>8, <2>1, SendKeeps DEF Retry
<1>9. CASE Linger \/ UNCHANGED vars
  <2>1. UNCHANGED <<entering, accepted, queue, deadLetter, hand, outcomes>>
    BY <1>9 DEF Linger, vars, shared, threads
  <2> QED
    BY <2>1, NothingMoves DEF outcomes, Over, Settled
<1> QED
  BY <1>1, <1>2, <1>3, <1>4, <1>5, <1>6, <1>7, <1>8, <1>9 DEF Next, DaemonStep

\* However the threads interleave, a payload enqueue took is in exactly one place:
\* on its way into the queue, in it, among the dead letters, in one thread's hand,
\* or decided.
THEOREM ThreadedOnePlace == Spec => []OnePlace
<1>1. Init => OnePlace
  <2> SUFFICES ASSUME Init PROVE OnePlace
    OBVIOUS
  <2> DEFINE none == <<>>
  <2>1. /\ queue = none /\ deadLetter = none /\ \A t \in Thread : hand[t] = none
        /\ accepted = {} /\ entering = {} /\ Over = {}
    BY DEF Init, Over, Settled
  <2>2. Range(none) = {} /\ IsInjective(none)
    BY EmptyOnce
  <2> HIDE DEF none
  <2> QED
    BY <2>1, <2>2 DEF OnePlace, InHands
<1>2. TypeOK /\ OnePlace /\ [Next]_vars => OnePlace'
  BY OnePlaceStep
<1> QED
  BY <1>1, <1>2, ThreadedTypeCorrect, PTL DEF Spec

-----------------------------------------------------------------------------
(* The delivery promise *)

\* A thread that reads a 2xx answer holds what the endpoint has stored; what left
\* the client was accepted.
AnswersAreTrue ==
    /\ \A t \in Thread : at[t] = "answered" => Range(hand[t]) \subseteq stored
    /\ failed \subseteq accepted

LEMMA MovesTo ==
    ASSUME TypeOK, NEW t \in Thread, NEW a, Go(t, a)
    PROVE  at'[t] = a /\ \A u \in Thread \ {t} : at'[u] = at[u]
BY DEF Go, TypeOK

\* Only Answer brings a thread to "answered".
LEMMA AnswersStep ==
    TypeOK /\ OnePlace /\ AnswersAreTrue /\ [Next]_vars => AnswersAreTrue'
<1> SUFFICES ASSUME TypeOK, OnePlace, AnswersAreTrue, [Next]_vars
             PROVE  AnswersAreTrue'
  OBVIOUS
<1>0. Daemon \in Thread /\ \A c \in Caller : c \in Thread
  BY DEF Thread
<1>1. ASSUME NEW t \in Thread, NEW a \in Places \ {"answered"}, Go(t, a),
             \A u \in Thread \ {t} : hand'[u] = hand[u], UNCHANGED accepted,
             stored' = stored,
             failed' = failed \/ failed' = failed \cup Range(hand[t])
      PROVE  AnswersAreTrue'
  <2>1. Range(hand[t]) \subseteq accepted
    BY HandSplits DEF OnePlace
  <2>2. at'[t] # "answered" /\ \A u \in Thread \ {t} : at'[u] = at[u]
    BY <1>1, MovesTo
  <2> QED
    BY <1>1, <2>1, <2>2 DEF AnswersAreTrue
<1>2. ASSUME UNCHANGED <<at, hand, failed>>, accepted \subseteq accepted',
             stored \subseteq stored'
      PROVE  AnswersAreTrue'
  BY <1>2 DEF AnswersAreTrue
<1>3. ASSUME NEW p \in Payload, Enter(p) \/ Put(p) \/ LateArrival(p)
      PROVE  AnswersAreTrue'
  BY <1>2, <1>3 DEF Enter, Put, LateArrival, Arrive, threads, endpoint
<1>4. ASSUME NEW c \in Caller, CallFlush(c) \/ CallStop(c) PROVE AnswersAreTrue'
  <2>1. /\ Go(c, "draining") /\ "draining" \in Places \ {"answered"}
        /\ UNCHANGED <<hand, accepted, stored, failed>>
    BY <1>4 DEF CallFlush, CallStop, endpoint, Places
  <2> QED
    BY <1>0, <1>1, <2>1
<1>5. \A t \in Thread : Home(t) \in Places \ {"answered"}
  BY DEF Home, Places
<1>6. ASSUME NEW t \in Thread, NEW batch, Send(t, batch),
             UNCHANGED <<accepted, endpoint>>
      PROVE  AnswersAreTrue'
  <2>1. \E a \in Places \ {"answered"} : Go(t, a)
    BY <1>5, <1>6 DEF Send, GiveUp, Places
  <2>2. \A u \in Thread \ {t} : hand'[u] = hand[u]
    BY <1>6, HandChanges DEF Send, GiveUp
  <2> QED
    BY <1>1, <1>6, <2>1, <2>2 DEF endpoint
<1>7. ASSUME NEW t \in Thread, ThreadStep(t) PROVE AnswersAreTrue'
  <2>1. CASE Get(t)
    <3>1. /\ Go(t, "draining") /\ "draining" \in Places \ {"answered"}
          /\ \A u \in Thread \ {t} : hand'[u] = hand[u]
          /\ UNCHANGED <<accepted, stored, failed>>
      BY <2>1, HandChanges DEF Get, endpoint, Places
    <3> QED
      BY <1>1, <3>1
  <2>2. CASE FindEmpty(t) \/ Resend(t)
    <3>1. /\ \E a \in Places \ {"answered"} : Go(t, a)
          /\ UNCHANGED <<hand, accepted, stored, failed>>
      BY <2>2 DEF FindEmpty, Resend, endpoint, Places
    <3> QED
      BY <1>1, <3>1
  <2>3. CASE Take(t)
    BY <1>6, <2>3 DEF Take
  <2>4. CASE Answer(t)
    <3>1. /\ stored' = stored \cup Range(hand[t])
          /\ UNCHANGED <<hand, accepted, failed>>
          /\ \A u \in Thread \ {t} : at'[u] = at[u]
      BY <2>4, MovesTo DEF Answer, Arrive
    <3> QED
      BY <3>1 DEF AnswersAreTrue
  <2>5. CASE Succeed(t) \/ Refuse(t)
    <3>1. /\ Go(t, Home(t)) /\ \A u \in Thread \ {t} : hand'[u] = hand[u]
          /\ UNCHANGED <<accepted, stored, failed>>
      BY <2>5, HandChanges DEF Succeed, Refuse, Done, endpoint
    <3> QED
      BY <1>1, <1>5, <3>1
  <2>6. CASE Fail(t)
    <3>1. /\ \E a \in Places \ {"answered"} : Go(t, a)
          /\ \A u \in Thread \ {t} : hand'[u] = hand[u]
      <4>1. "backoff" \in Places \ {"answered"}
        BY DEF Places
      <4>2. CASE attempt[t] + 1 < MaxRetries
        BY <2>6, <4>1, <4>2 DEF Fail
      <4>3. CASE ~(attempt[t] + 1 < MaxRetries)
        <5>1. Go(t, Home(t)) /\ Hold(t, <<>>)
          BY <2>6, <4>3 DEF Fail, GiveUp
        <5> QED
          BY <1>5, <5>1, HandChanges
      <4> QED
        BY <4>2, <4>3
    <3> QED
      BY <1>1, <2>6, <3>1 DEF Fail
  <2>7. CASE Raise(t)
    <3>1. /\ \E a \in Places \ {"answered"} : Go(t, a)
          /\ \A u \in Thread \ {t} : hand'[u] = hand[u]
          /\ UNCHANGED <<accepted, stored, failed>>
      BY <2>7, HandChanges DEF Raise, endpoint, Places
    <3> QED
      BY <1>1, <3>1
  <2> QED
    BY <1>7, <2>1, <2>2, <2>3, <2>4, <2>5, <2>6, <2>7 DEF ThreadStep, Sending
<1>8. CASE Turn
  <2>1. /\ \E a \in Places \ {"answered"} : Go(Daemon, a)
        /\ \A u \in Thread \ {Daemon} : hand'[u] = hand[u]
        /\ UNCHANGED <<accepted, stored, failed>>
    BY <1>0, <1>8, HandChanges DEF Turn, endpoint, Places
  <2> QED
    BY <1>0, <1>1, <2>1
<1>9. CASE Retry
  BY <1>0, <1>6, <1>9 DEF Retry
<1>10. CASE Linger
  <2>1. /\ Go(Daemon, "top") /\ "top" \in Places \ {"answered"}
        /\ UNCHANGED <<hand, accepted, stored, failed>>
    BY <1>10 DEF Linger, endpoint, Places
  <2> QED
    BY <1>0, <1>1, <2>1
<1>11. CASE UNCHANGED vars
  BY <1>2, <1>11 DEF vars, threads, endpoint
<1> QED
  BY <1>0, <1>3, <1>4, <1>7, <1>8, <1>9, <1>10, <1>11 DEF Next, DaemonStep

-----------------------------------------------------------------------------
\* What the promise calls discarded.
Gone == refused \cup dropped \cup left \cup raised

\* What a full deque pushes out was a dead letter or in the hand of the sender.
LEMMA PushedOut ==
    ASSUME NEW t \in Thread, NEW held, NEW batch, AllOf(t, held, batch),
           GiveUp(t, held, batch)
    PROVE  \E cut \in SUBSET InReach(t) : dropped' = dropped \cup cut
<1>1. held \in Seq(Payload) /\ batch \in Seq(Payload)
  BY DEF AllOf
<1>2. PICK cut \in SUBSET Payload :
        /\ dropped' = dropped \cup cut
        /\ Range(held) \cup Range(batch) = Range(deadLetter') \cup cut
  <2>1. \E cut \in SUBSET Payload : CutOff(held, batch, cut)
    BY <1>1, GiveUpCuts
  <2> QED
    BY <2>1 DEF CutOff
<1>3. cut \subseteq InReach(t)
  BY <1>2 DEF AllOf, InReach
<1> QED
  BY <1>2, <1>3

LEMMA SendDrops ==
    ASSUME NEW t \in Thread, NEW batch, AllOf(t, <<>>, batch), Send(t, batch)
    PROVE  \E cut \in SUBSET InReach(t) : dropped' = dropped \cup cut
<1> DEFINE none == <<>>
<1>1. CASE batch # <<>> /\ MaxRetries = 0
  <2>1. GiveUp(t, none, batch) /\ AllOf(t, none, batch)
    BY <1>1 DEF Send
  <2> HIDE DEF none
  <2> QED
    BY <2>1, PushedOut
<1>2. CASE ~(batch # <<>> /\ MaxRetries = 0)
  <2>1. dropped' = dropped \cup {}
    BY <1>2 DEF Send
  <2> QED
    BY <2>1
<1> QED
  BY <1>1, <1>2

\* Every step of the threads is a step of the promise, or leaves it alone.
LEMMA DeliveryStep ==
    ASSUME TypeOK, OnePlace, AnswersAreTrue, [Next]_vars
    PROVE  [Delivery!Next]_Delivery!vars
<1>0. /\ Daemon \in Thread /\ \A c \in Caller : c \in Thread
      /\ accepted \subseteq Payload
  BY DEF Thread, TypeOK
<1>1. \A t \in Thread : InReach(t) \subseteq Delivery!Held
  <2> SUFFICES ASSUME NEW t \in Thread PROVE InReach(t) \subseteq Delivery!Held
    OBVIOUS
  <2>1. InReach(t) \subseteq accepted /\ InReach(t) \cap Over = {}
    BY ReachApart
  <2>2. Delivery!Held = accepted \ Over
    BY DEF Delivery!Held, Over, Settled
  <2> QED
    BY <2>1, <2>2
<1>2. \A S : S \subseteq Delivery!Held => S \in SUBSET Payload
  BY <1>0 DEF Delivery!Held
<1>3. ASSUME NEW t \in Thread, NEW S \in SUBSET InReach(t),
             UNCHANGED <<accepted, delivered, stored, stopped>>,
             Gone' = Gone \cup S
      PROVE  Delivery!Next
  <2>1. S \subseteq Delivery!Held
    BY <1>1
  <2>2. Delivery!Decide({}, S)
    BY <1>3, <2>1 DEF Delivery!Decide, Gone
  <2>3. {} \in SUBSET Payload
    OBVIOUS
  <2> QED
    BY <1>2, <2>1, <2>2, <2>3 DEF Delivery!Next
<1>4. ASSUME UNCHANGED <<accepted, delivered, stored, stopped, refused, dropped,
                         left, raised>>
      PROVE  UNCHANGED Delivery!vars
  BY <1>4 DEF Delivery!vars
<1>5. ASSUME NEW p \in Payload, Enter(p) PROVE Delivery!Next
  <2>1. /\ ~stopped /\ p \notin accepted /\ accepted' = accepted \cup {p}
        /\ UNCHANGED <<delivered, stored, stopped, refused, dropped, left, raised>>
    BY <1>5 DEF Enter, outcomes, endpoint
  <2>2. Delivery!Accept(p, {})
    BY <2>1 DEF Delivery!Accept
  <2>3. {} \in SUBSET Payload
    OBVIOUS
  <2> QED
    BY <2>2, <2>3 DEF Delivery!Next
<1>6. ASSUME NEW p \in Payload, Put(p) PROVE UNCHANGED Delivery!vars
  BY <1>4, <1>6 DEF Put, outcomes, endpoint
<1>7. ASSUME NEW p \in Payload, LateArrival(p) PROVE Delivery!Next
  <2>1. /\ {p} \subseteq accepted \cap Payload /\ stored' = stored \cup {p}
        /\ UNCHANGED <<accepted, delivered, stopped, refused, dropped, left, raised>>
    BY <1>7 DEF LateArrival, Arrive, AnswersAreTrue, shared, outcomes
  <2>2. Delivery!Store({p})
    BY <2>1 DEF Delivery!Store
  <2>3. {p} \in SUBSET Payload
    OBVIOUS
  <2> QED
    BY <2>2, <2>3 DEF Delivery!Next
<1>8. ASSUME NEW c \in Caller, CallFlush(c) PROVE UNCHANGED Delivery!vars
  BY <1>4, <1>8 DEF CallFlush, shared, outcomes, endpoint
<1>9. ASSUME NEW c \in Caller, CallStop(c) PROVE Delivery!Next
  <2>1. Delivery!Close({})
    BY <1>9 DEF CallStop, outcomes, endpoint, Delivery!Close
  <2>2. {} \in SUBSET Payload
    OBVIOUS
  <2> QED
    BY <2>1, <2>2 DEF Delivery!Next
<1>10. ASSUME NEW t \in Thread, ThreadStep(t)
       PROVE  Delivery!Next \/ UNCHANGED Delivery!vars
  <2>1. CASE Get(t) \/ FindEmpty(t) \/ Resend(t)
    BY <1>4, <2>1 DEF Get, FindEmpty, Resend, shared, outcomes, endpoint
  <2>2. CASE Take(t)
    <3>1. AllOf(t, <<>>, deadLetter \o hand[t])
      BY Batches
    <3>2. PICK cut \in SUBSET InReach(t) : dropped' = dropped \cup cut
      BY <2>2, <3>1, SendDrops DEF Take
    <3> QED
      BY <1>3, <2>2, <3>2 DEF Take, endpoint, Gone
  <2>3. CASE Answer(t)
    <3>1. Range(hand[t]) \subseteq accepted \cap Payload
      BY <1>0, HandSplits DEF OnePlace
    <3>2. /\ stored' = stored \cup Range(hand[t])
          /\ UNCHANGED <<accepted, delivered, stopped, refused, dropped, left, raised>>
      BY <2>3 DEF Answer, Arrive, shared, outcomes
    <3>3. Delivery!Store(Range(hand[t]))
      BY <3>1, <3>2 DEF Delivery!Store
    <3>4. Range(hand[t]) \in SUBSET Payload
      BY <3>1
    <3> QED
      BY <3>3, <3>4 DEF Delivery!Next
  <2>4. CASE Succeed(t)
    <3>1. Range(hand[t]) \subseteq Delivery!Held
      BY <1>1 DEF InReach
    <3>2. /\ delivered' = delivered \cup Range(hand[t])
          /\ Range(hand[t]) \subseteq stored
          /\ UNCHANGED <<accepted, stored, stopped, refused, dropped, left, raised>>
      BY <2>4 DEF Succeed, AnswersAreTrue, shared, endpoint
    <3>3. Delivery!Decide(Range(hand[t]), {})
      BY <3>1, <3>2 DEF Delivery!Decide
    <3>4. Range(hand[t]) \in SUBSET Payload /\ {} \in SUBSET Payload
      BY <1>2, <3>1
    <3> QED
      BY <3>3, <3>4 DEF Delivery!Next
  <2>5. CASE Refuse(t) \/ Raise(t)
    <3>1. Range(hand[t]) \in SUBSET InReach(t)
      BY DEF InReach
    <3>2. /\ Gone' = Gone \cup Range(hand[t])
          /\ UNCHANGED <<accepted, delivered, stored, stopped>>
      BY <2>5 DEF Refuse, Raise, shared, endpoint, Gone
    <3> QED
      BY <1>3, <3>1, <3>2
  <2>6. CASE Fail(t)
    <3>1. CASE attempt[t] + 1 < MaxRetries
      BY <1>4, <2>6, <3>1 DEF Fail
    <3>2. CASE ~(attempt[t] + 1 < MaxRetries)
      <4>1. GiveUp(t, deadLetter, hand[t]) /\ AllOf(t, deadLetter, hand[t])
        BY <2>6, <3>2, Batches DEF Fail
      <4>2. PICK cut \in SUBSET InReach(t) : dropped' = dropped \cup cut
        BY <4>1, PushedOut
      <4> QED
        BY <1>3, <2>6, <4>2 DEF Fail, Gone
    <3> QED
      BY <3>1, <3>2
  <2> QED
    BY <1>10, <2>1, <2>2, <2>3, <2>4, <2>5, <2>6 DEF ThreadStep, Sending
<1>11. CASE Turn
  <2>1. CASE stopped
    <3>1. Range(hand[Daemon]) \in SUBSET InReach(Daemon)
      BY DEF InReach
    <3>2. /\ Gone' = Gone \cup Range(hand[Daemon])
          /\ UNCHANGED <<accepted, delivered, stored, stopped>>
      BY <1>11, <2>1 DEF Turn, shared, endpoint, Gone
    <3> QED
      BY <1>0, <1>3, <3>1, <3>2
  <2>2. CASE ~stopped
    BY <1>4, <1>11, <2>2 DEF Turn, shared, endpoint
  <2> QED
    BY <2>1, <2>2
<1>12. CASE Retry
  <2>1. AllOf(Daemon, <<>>, deadLetter)
    BY <1>0, <1>12, Batches DEF Retry
  <2>2. PICK cut \in SUBSET InReach(Daemon) : dropped' = dropped \cup cut
    BY <1>0, <1>12, <2>1, SendDrops DEF Retry
  <2> QED
    BY <1>0, <1>3, <1>12, <2>2 DEF Retry, endpoint, Gone
<1>13. CASE Linger \/ UNCHANGED vars
  BY <1>4, <1>13 DEF Linger, vars, shared, outcomes, endpoint
<1> QED
  BY <1>0, <1>5, <1>6, <1>7, <1>8, <1>9, <1>10, <1>11, <1>12, <1>13
     DEF Next, DaemonStep

\* The threaded buffer implements the delivery promise, however its threads
\* interleave: an accepted payload is held until it is delivered, and then on
\* record, or given up; nothing is both, and nothing is accepted after stop().
THEOREM ThreadedImplementsDelivery == Spec => DeliverySpec
<1>1. Init => Delivery!Init /\ AnswersAreTrue
  BY DEF Init, Delivery!Init, AnswersAreTrue, Home
<1>2. TypeOK /\ OnePlace /\ AnswersAreTrue /\ [Next]_vars
      => [Delivery!Next]_Delivery!vars
  BY DeliveryStep
<1> QED
  BY <1>1, <1>2, AnswersStep, ThreadedTypeCorrect, ThreadedOnePlace, PTL
     DEF Spec, DeliverySpec, Delivery!Spec
=============================================================================
