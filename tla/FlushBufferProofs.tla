-------------------------- MODULE FlushBufferProofs --------------------------
(***************************************************************************)
(* Proofs about FlushBuffer, for every set of payloads, every queue size,   *)
(* retry count and cap.                                                     *)
(*                                                                          *)
(* OnePlace is inductive together with TypeOK.  It splits into what it says *)
(* of the queue and what it says of the other places; a drain moves a queue *)
(* into the other places, and every other action moves payloads among them. *)
(***************************************************************************)
EXTENDS FlushBuffer, OnceSequences

Elsewhere == InDead \cup Aboard \cup Settled

QueueApart(q) == Range(q) \cap Elsewhere = {} /\ IsInjective(q)

FlightsApart ==
    /\ \A f, g \in Sending : f # g => Range(f.batch) \cap Range(g.batch) = {}
    /\ \A f \in flights : IsInjective(f.batch)

OutcomesApart ==
    /\ delivered \cap (refused \cup dropped) = {}
    /\ refused \cap dropped = {}

PlacesApart ==
    /\ InDead \cap (Aboard \cup Settled) = {}
    /\ Aboard \cap Settled = {}
    /\ IsInjective(deadLetter)
    /\ OutcomesApart
    /\ FlightsApart

\* OnePlace is the conjunction of these parts.
LEMMA OnePlaceParts ==
    OnePlace <=> /\ Range(accepted) = Range(queue) \cup Elsewhere
                 /\ QueueApart(queue)
                 /\ PlacesApart
BY DEF OnePlace, Elsewhere, QueueApart, PlacesApart, OutcomesApart, FlightsApart,
       InQueue

-----------------------------------------------------------------------------
(* What each kind of change does to the places *)

\* Giving a batch up: what leaves the dead-letter array is dropped.
LEMMA GiveUpKeeps ==
    ASSUME NEW held \in Seq(Payload), NEW batch \in Seq(Payload),
           GiveUp(held, batch)
    PROVE  /\ deadLetter' \in Seq(Payload)
           /\ Len(deadLetter') <= MaxRetryBuffer
           /\ \E cut \in SUBSET Payload :
                /\ dropped' = dropped \cup cut
                /\ Range(held) \cup Range(batch) = Range(deadLetter') \cup cut
                /\ (/\ IsInjective(held) /\ IsInjective(batch)
                    /\ Range(held) \cap Range(batch) = {}) =>
                     /\ IsInjective(deadLetter')
                     /\ Range(deadLetter') \cap cut = {}
<1> DEFINE all == held \o batch
           n == Overflow(all)
           kept == SubSeq(all, n + 1, Len(all))
           lost == SubSeq(all, 1, n)
<1>1. /\ all \in Seq(Payload)
      /\ Range(all) = Range(held) \cup Range(batch)
      /\ (/\ IsInjective(held) /\ IsInjective(batch)
          /\ Range(held) \cap Range(batch) = {}) => IsInjective(all)
  BY ConcatOnce
<1>2. deadLetter' = kept /\ dropped' = dropped \cup Range(lost)
  BY DEF GiveUp
<1> HIDE DEF all
<1>3. Len(all) \in Nat /\ MaxRetryBuffer \in Nat
  BY <1>1, FlushBufferAssumption
<1>4. n \in 0..Len(all) /\ Len(all) - n <= MaxRetryBuffer
  BY <1>3 DEF Overflow
<1> HIDE DEF n
<1>5. /\ lost \in Seq(Payload) /\ kept \in Seq(Payload)
      /\ Len(kept) = Len(all) - n
      /\ Range(all) = Range(lost) \cup Range(kept)
      /\ IsInjective(all) => /\ IsInjective(lost) /\ IsInjective(kept)
                             /\ Range(lost) \cap Range(kept) = {}
  BY <1>1, <1>4, CutOnce
<1> HIDE DEF kept, lost
<1>6. Range(lost) \in SUBSET Payload
  BY <1>5, LenProperties, ElementOfSeq DEF Range
<1> QED BY <1>1, <1>2, <1>3, <1>4, <1>5, <1>6

\* A new flight.
LEMMA LaunchKeeps ==
    ASSUME NEW f, f.at # "credited", flights' = flights \cup {f}
    PROVE  /\ Sending' = Sending \cup {f}
           /\ Aboard' = Aboard \cup Range(f.batch)
<1>1. Sending' = Sending \cup {f}
  BY DEF Sending
<1> QED BY <1>1 DEF Aboard

\* A flight that ends, or is credited: its payloads are no longer aboard.
LEMMA LandKeeps ==
    ASSUME NEW f \in Sending, FlightsApart,
           NEW rest, \A g \in rest : g.at = "credited",
           flights' = (flights \ {f}) \cup rest
    PROVE  /\ Sending' = Sending \ {f}
           /\ Aboard' = Aboard \ Range(f.batch)
           /\ Range(f.batch) \subseteq Aboard
<1>1. Sending' = Sending \ {f}
  BY DEF Sending
<1>2. \A g \in Sending \ {f} : Range(g.batch) \cap Range(f.batch) = {}
  BY DEF FlightsApart
<1> QED BY <1>1, <1>2 DEF Aboard

\* A flight that moves on with its batch.
LEMMA MoveKeeps ==
    ASSUME NEW f \in Sending, FlightsApart,
           NEW g, g.batch = f.batch, g.at # "credited",
           Become(f, g)
    PROVE  Aboard' = Aboard /\ FlightsApart'
<1>1. Sending' = (Sending \ {f}) \cup {g}
  BY DEF Sending, Become
<1>2. Aboard' = Aboard
  BY <1>1 DEF Aboard
<1>3. \A h, k \in Sending' : h # k => Range(h.batch) \cap Range(k.batch) = {}
  BY <1>1 DEF FlightsApart
<1>4. \A h \in flights' : IsInjective(h.batch)
  BY DEF Become, FlightsApart, Sending
<1> QED BY <1>2, <1>3, <1>4 DEF FlightsApart
\* A drain moves the queue q, if it was apart, into the other places.
LEMMA DrainKeeps ==
    ASSUME TypeOK, NEW q \in Seq(Payload), NEW stopping \in BOOLEAN,
           Drain(q, stopping)
    PROVE  /\ queue' = <<>> /\ tokens' = 0
           /\ deadLetter' \in Seq(Payload)
           /\ flights' \subseteq Flight
           /\ dropped' \subseteq Payload
           /\ (/\ QueueApart(q) /\ PlacesApart
               /\ UNCHANGED <<delivered, refused>>) =>
                 /\ PlacesApart'
                 /\ Elsewhere' = Elsewhere \cup Range(q)
<1> DEFINE batch == deadLetter \o q
           f == NewFlight(batch, stopping)
           Launches == batch # <<>> /\ MaxRetries > 0
<1>1. /\ batch \in Seq(Payload)
      /\ Range(batch) = Range(deadLetter) \cup Range(q)
      /\ (/\ IsInjective(deadLetter) /\ IsInjective(q)
          /\ Range(deadLetter) \cap Range(q) = {}) => IsInjective(batch)
  BY ConcatOnce DEF TypeOK
<1>2. queue' = <<>> /\ tokens' = 0
  BY DEF Drain
<1>3. CASE Launches
  <2>1. /\ deadLetter' = <<>> /\ flights' = flights \cup {f} /\ dropped' = dropped
    BY <1>3 DEF Drain, Launch
  <2> HIDE DEF batch
  <2>2. f \in Flight /\ f.at # "credited" /\ f.batch = batch
    BY <1>1 DEF Flight, Awaits, NewFlight
  <2> HIDE DEF f
  <2>3. /\ deadLetter' \in Seq(Payload) /\ flights' \subseteq Flight
        /\ dropped' \subseteq Payload
    BY <2>1, <2>2, EmptyOnce DEF TypeOK
  <2>4. ASSUME QueueApart(q), PlacesApart, UNCHANGED <<delivered, refused>>
        PROVE  PlacesApart' /\ Elsewhere' = Elsewhere \cup Range(q)
    <3>1. Sending' = Sending \cup {f} /\ Aboard' = Aboard \cup Range(batch)
      BY <2>1, <2>2, LaunchKeeps
    <3>2. IsInjective(batch) /\ Range(batch) \cap (Aboard \cup Settled) = {}
      BY <1>1, <2>4 DEF QueueApart, PlacesApart, Elsewhere, InDead
    <3>3. Settled' = Settled
      BY <2>1, <2>4 DEF Settled
    <3>4. InDead' = {} /\ IsInjective(deadLetter')
      BY <2>1, EmptyOnce DEF InDead
    <3>5. \A g \in Sending : Range(g.batch) \subseteq Aboard
      BY DEF Aboard
    <3>6. FlightsApart'
      <4>1. ASSUME NEW g \in Sending', NEW h \in Sending', g # h
            PROVE  Range(g.batch) \cap Range(h.batch) = {}
        BY <2>2, <2>4, <3>1, <3>2, <3>5, <4>1 DEF PlacesApart, FlightsApart
      <4>2. \A g \in flights' : IsInjective(g.batch)
        BY <2>1, <2>2, <2>4, <3>2 DEF PlacesApart, FlightsApart
      <4> QED BY <4>1, <4>2 DEF FlightsApart
    <3>7. OutcomesApart'
      BY <2>1, <2>4 DEF PlacesApart, OutcomesApart
    <3>8. PlacesApart'
      BY <2>4, <3>1, <3>2, <3>3, <3>4, <3>6, <3>7 DEF PlacesApart
    <3>9. Elsewhere' = Elsewhere \cup Range(q)
      BY <1>1, <3>1, <3>3, <3>4 DEF Elsewhere, InDead
    <3> QED BY <3>8, <3>9
  <2> QED BY <1>2, <2>3, <2>4
<1>4. CASE ~Launches
  <2>1. GiveUp(<<>>, batch) /\ flights' = flights
    BY <1>4 DEF Drain, Launch
  <2> DEFINE none == <<>>
  <2>2. /\ none \in Seq(Payload) /\ Range(none) = {} /\ IsInjective(none)
        /\ GiveUp(none, batch)
    BY <2>1, EmptyOnce
  <2> HIDE DEF batch, Launches, none
  <2>3. PICK cut \in SUBSET Payload :
          /\ deadLetter' \in Seq(Payload)
          /\ dropped' = dropped \cup cut
          /\ Range(batch) = Range(deadLetter') \cup cut
          /\ IsInjective(batch) => /\ IsInjective(deadLetter')
                                   /\ Range(deadLetter') \cap cut = {}
    <3>1. \E cut \in SUBSET Payload :
            /\ dropped' = dropped \cup cut
            /\ Range(none) \cup Range(batch) = Range(deadLetter') \cup cut
            /\ (/\ IsInjective(none) /\ IsInjective(batch)
                /\ Range(none) \cap Range(batch) = {}) =>
                 /\ IsInjective(deadLetter')
                 /\ Range(deadLetter') \cap cut = {}
      BY <1>1, <2>2, GiveUpKeeps
    <3>2. deadLetter' \in Seq(Payload)
      BY <1>1, <2>2, GiveUpKeeps
    <3> QED BY <2>2, <3>1, <3>2
  <2>4. /\ deadLetter' \in Seq(Payload) /\ flights' \subseteq Flight
        /\ dropped' \subseteq Payload
    BY <2>1, <2>3 DEF TypeOK
  <2>5. ASSUME QueueApart(q), PlacesApart, UNCHANGED <<delivered, refused>>
        PROVE  PlacesApart' /\ Elsewhere' = Elsewhere \cup Range(q)
    <3>1. Sending' = Sending /\ Aboard' = Aboard
      BY <2>1 DEF Sending, Aboard
    <3>2. IsInjective(batch) /\ Range(batch) \cap (Aboard \cup Settled) = {}
      BY <1>1, <2>5 DEF QueueApart, PlacesApart, Elsewhere, InDead
    <3>3. Settled' = Settled \cup cut
      BY <2>3, <2>5 DEF Settled
    <3>4. FlightsApart'
      BY <2>1, <2>5, <3>1 DEF PlacesApart, FlightsApart
    <3>5. OutcomesApart'
      BY <2>3, <2>5, <3>2 DEF PlacesApart, OutcomesApart, Settled
    <3>6. PlacesApart'
      BY <2>3, <2>5, <3>1, <3>2, <3>3, <3>4, <3>5 DEF PlacesApart, InDead
    <3>7. Elsewhere' = Elsewhere \cup Range(q)
      BY <1>1, <2>3, <3>1, <3>3 DEF Elsewhere, InDead
    <3> QED BY <3>6, <3>7
  <2> QED BY <1>2, <2>4, <2>5
<1> QED BY <1>3, <1>4

-----------------------------------------------------------------------------
(* Type correctness *)

\* A flight's record stays a flight's record as it moves from await to await.
LEMMA FlightMoves ==
    ASSUME NEW f \in Flight, NEW a \in Awaits, NEW n \in Nat
    PROVE  /\ [f EXCEPT !.at = a] \in Flight
           /\ [f EXCEPT !.at = a, !.attempt = n] \in Flight
           /\ f.attempt \in Nat /\ f.batch \in Seq(Payload)
           /\ Range(f.batch) \subseteq Payload
<1>1. f.attempt \in Nat /\ f.batch \in Seq(Payload)
  BY DEF Flight
<1>2. Range(f.batch) \subseteq Payload
  BY <1>1, LenProperties, ElementOfSeq DEF Range
<1>3. [f EXCEPT !.at = a] \in Flight /\ [f EXCEPT !.at = a, !.attempt = n] \in Flight
  BY DEF Flight
<1> QED BY <1>1, <1>2, <1>3

LEMMA TypeStep == TypeOK /\ [Next]_vars => TypeOK'
<1> SUFFICES ASSUME TypeOK, [Next]_vars PROVE TypeOK'
  OBVIOUS
<1> USE FlushBufferAssumption
<1>1. ASSUME NEW p \in Payload, Enqueue(p) PROVE TypeOK'
  <2> DEFINE q == Append(queue, p)
             t == tokens + Tokens[p]
             Full == Len(q) >= BufferSize \/ t >= TokenBudget
  <2>1. q \in Seq(Payload) /\ Append(accepted, p) \in Seq(Payload)
    BY AppendOnce DEF TypeOK
  <2>2. t \in Nat
    BY DEF TypeOK
  <2>3. /\ queue' \in Seq(Payload) /\ deadLetter' \in Seq(Payload)
        /\ tokens' \in Nat /\ flights' \subseteq Flight /\ dropped' \subseteq Payload
    <3>1. CASE Full
      <4>1. Drain(q, FALSE)
        BY <1>1, <3>1 DEF Enqueue, Push
      <4> HIDE DEF q
      <4>2. /\ queue' = <<>> /\ tokens' = 0
            /\ deadLetter' \in Seq(Payload) /\ flights' \subseteq Flight
            /\ dropped' \subseteq Payload
        BY <2>1, <4>1, DrainKeeps
      <4>3. queue' \in Seq(Payload)
        BY <4>2, EmptyOnce, Zenon
      <4> QED BY <4>2, <4>3
    <3>2. CASE ~Full
      <4>1. queue' = q /\ tokens' = t /\ UNCHANGED <<deadLetter, flights, dropped>>
        BY <1>1, <3>2 DEF Enqueue, Push
      <4> HIDE DEF q, t
      <4> QED BY <2>1, <2>2, <4>1 DEF TypeOK
    <3> QED BY <3>1, <3>2
  <2>4. /\ accepted' = Append(accepted, p)
        /\ UNCHANGED <<stopped, outcomes, failed, endpoint>>
    BY <1>1 DEF Enqueue
  <2> QED BY <2>1, <2>3, <2>4 DEF TypeOK, outcomes, endpoint
<1>2. ASSUME NEW stopping \in BOOLEAN, Drain(queue, stopping), stopped' \in BOOLEAN,
             UNCHANGED <<accepted, outcomes, failed, endpoint>>
      PROVE  TypeOK'
  <2>1. queue \in Seq(Payload) /\ <<>> \in Seq(Payload)
    BY EmptyOnce DEF TypeOK
  <2>2. /\ queue' = <<>> /\ tokens' = 0
        /\ deadLetter' \in Seq(Payload) /\ flights' \subseteq Flight
        /\ dropped' \subseteq Payload
    BY <1>2, <2>1, DrainKeeps
  <2> QED BY <1>2, <2>1, <2>2 DEF TypeOK, outcomes, endpoint
<1>3. CASE TimerFires
  BY <1>2, <1>3 DEF TimerFires, TypeOK
<1>4. CASE Flush
  BY <1>2, <1>4 DEF Flush, TypeOK
<1>5. CASE Stop
  BY <1>2, <1>5 DEF Stop
<1>6. ASSUME NEW f \in flights, FlightStep(f) PROVE TypeOK'
  <2>0. f \in Flight /\ Range(f.batch) \subseteq Payload /\ f.batch \in Seq(Payload)
    BY FlightMoves DEF TypeOK, Awaits
  <2>1. CASE AnswerStored(f)
    BY <2>0, <2>1, FlightMoves
       DEF AnswerStored, Arrive, Become, TypeOK, outcomes, Awaits
  <2>2. CASE AnswerError(f)
    BY <2>0, <2>2, FlightMoves
       DEF AnswerError, Become, TypeOK, outcomes, endpoint, Awaits
  <2>3. CASE AttemptFails(f)
    <3>1. CASE f.attempt + 1 < MaxRetries
      <4>1. [f EXCEPT !.at = "backoff", !.attempt = @ + 1] \in Flight
        <5>1. f.attempt + 1 \in Nat /\ "backoff" \in Awaits
          BY <2>0 DEF Awaits, Flight
        <5> QED BY <2>0, <5>1, FlightMoves
      <4>2. Become(f, [f EXCEPT !.at = "backoff", !.attempt = @ + 1])
        BY <2>3, <3>1 DEF AttemptFails, AttemptLost
      <4>3. flights' \subseteq Flight
        BY <4>1, <4>2 DEF Become, TypeOK
      <4> QED BY <2>0, <2>3, <3>1, <4>3 DEF AttemptFails, AttemptLost, TypeOK, outcomes, endpoint
    <3>2. CASE ~(f.attempt + 1 < MaxRetries)
      <4>1. /\ deadLetter' \in Seq(Payload) /\ dropped' \subseteq Payload
        BY <2>0, <2>3, <3>2, GiveUpKeeps DEF AttemptFails, AttemptLost, TypeOK
      <4> QED BY <2>0, <2>3, <3>2, <4>1 DEF AttemptFails, AttemptLost, TypeOK, outcomes, endpoint
    <3> QED BY <3>1, <3>2
  <2>4. CASE Resend(f)
    BY <2>0, <2>4, FlightMoves
       DEF Resend, Become, TypeOK, outcomes, endpoint, Awaits
  <2>5. CASE Refuse(f)
    BY <2>0, <2>5 DEF Refuse, TypeOK, endpoint
  <2>6. CASE Credit(f)
    BY <2>0, <2>6, FlightMoves DEF Credit, Become, TypeOK, endpoint, Awaits
  <2>7. CASE Notify(f)
    BY <2>0, <2>7 DEF Notify, TypeOK, endpoint
  <2> QED BY <1>6, <2>1, <2>2, <2>3, <2>4, <2>5, <2>6, <2>7 DEF FlightStep
<1>7. ASSUME NEW p \in Payload, LateArrival(p) PROVE TypeOK'
  BY <1>7 DEF LateArrival, Arrive, TypeOK, client, outcomes
<1>8. CASE UNCHANGED vars
  BY <1>8 DEF TypeOK, vars, client, outcomes, endpoint
<1> QED BY <1>1, <1>3, <1>4, <1>5, <1>6, <1>7, <1>8 DEF Next

\* Every variable keeps its type: the queue and the dead-letter array hold
\* payloads, and a flight is always at one of the awaits of sendBatch.
THEOREM TypeCorrect == Spec => []TypeOK
<1>1. Init => TypeOK
  <2>1. <<>> \in Seq(Payload)
    BY EmptyOnce
  <2>2. ASSUME Init PROVE TypeOK
    <3>1. /\ queue \in Seq(Payload) /\ deadLetter \in Seq(Payload)
          /\ accepted \in Seq(Payload)
      BY <2>1, <2>2, Zenon DEF Init
    <3>2. tokens \in Nat /\ stopped \in BOOLEAN
      BY <2>2 DEF Init
    <3> QED BY <2>2, <3>1, <3>2 DEF Init, TypeOK
  <2> QED BY <2>2
<1>2. TypeOK /\ [Next]_vars => TypeOK'
  BY TypeStep
<1> QED BY <1>1, <1>2, PTL DEF Spec
-----------------------------------------------------------------------------
(* Every payload is in exactly one place *)

\* A drain of the queue itself, by the timer, flush() or stop().
LEMMA DrainQueueOnePlace ==
    ASSUME TypeOK, OnePlace, NEW stopping \in BOOLEAN, Drain(queue, stopping),
           UNCHANGED <<accepted, delivered, refused>>
    PROVE  OnePlace'
<1>1. /\ Range(accepted) = Range(queue) \cup Elsewhere
      /\ QueueApart(queue) /\ PlacesApart
  BY OnePlaceParts
<1>2. /\ queue' = <<>> /\ PlacesApart' /\ Elsewhere' = Elsewhere \cup Range(queue)
  BY <1>1, DrainKeeps DEF TypeOK
<1>3. Range(queue') = {} /\ IsInjective(queue')
  BY <1>2, EmptyOnce, Zenon
<1>4. QueueApart(queue)'
  BY <1>3 DEF QueueApart
<1>5. (Range(accepted) = Range(queue) \cup Elsewhere)'
  BY <1>1, <1>2, <1>3
<1>6. OnePlace' <=> /\ (Range(accepted) = Range(queue) \cup Elsewhere)'
                    /\ QueueApart(queue)' /\ PlacesApart'
  BY OnePlaceParts, PTL
<1> QED BY <1>2, <1>4, <1>5, <1>6

\* Every other change leaves the queue alone and keeps the other places apart.
LEMMA ElsewhereOnePlace ==
    ASSUME OnePlace, UNCHANGED <<queue, accepted>>,
           PlacesApart', Elsewhere' = Elsewhere
    PROVE  OnePlace'
<1>1. OnePlace' <=> /\ (Range(accepted) = Range(queue) \cup Elsewhere)'
                    /\ QueueApart(queue)' /\ PlacesApart'
  BY OnePlaceParts, PTL
<1> QED BY <1>1, OnePlaceParts DEF QueueApart

LEMMA EnqueueOnePlace ==
    ASSUME TypeOK, OnePlace, NEW p \in Payload, Enqueue(p)
    PROVE  OnePlace'
<1> DEFINE q == Append(queue, p)
           t == tokens + Tokens[p]
           Full == Len(q) >= BufferSize \/ t >= TokenBudget
<1>1. /\ Range(accepted) = Range(queue) \cup Elsewhere
      /\ QueueApart(queue) /\ PlacesApart
  BY OnePlaceParts
<1>2. /\ p \notin Range(accepted)
      /\ accepted' = Append(accepted, p)
      /\ delivered' = delivered /\ refused' = refused
  BY DEF Enqueue, outcomes
<1>3. Range(accepted') = Range(accepted) \cup {p}
  BY <1>2, AppendOnce DEF TypeOK
<1>4. q \in Seq(Payload) /\ Range(q) = Range(queue) \cup {p} /\ IsInjective(q)
  BY <1>1, <1>2, AppendOnce DEF TypeOK, QueueApart
<1>5. (Full /\ Drain(q, FALSE))
      \/ (/\ ~Full /\ queue' = q /\ UNCHANGED <<deadLetter, flights, dropped>>)
  BY DEF Enqueue, Push
<1> HIDE DEF q, Full
<1>6. QueueApart(q)
  BY <1>1, <1>2, <1>4 DEF QueueApart
<1>7. OnePlace' <=> /\ (Range(accepted) = Range(queue) \cup Elsewhere)'
                    /\ QueueApart(queue)' /\ PlacesApart'
  BY OnePlaceParts, PTL
<1>8. CASE Drain(q, FALSE)
  <2>1. /\ queue' = <<>> /\ PlacesApart' /\ Elsewhere' = Elsewhere \cup Range(q)
    BY <1>1, <1>2, <1>4, <1>6, <1>8, DrainKeeps
  <2>2. Range(queue') = {} /\ IsInjective(queue')
    BY <2>1, EmptyOnce, Zenon
  <2> QED BY <1>1, <1>3, <1>4, <1>7, <2>1, <2>2 DEF QueueApart
<1>9. CASE queue' = q /\ UNCHANGED <<deadLetter, flights, dropped>>
  <2>1. PlacesApart' /\ Elsewhere' = Elsewhere
    BY <1>1, <1>2, <1>9
       DEF PlacesApart, Elsewhere, InDead, Aboard, Settled, OutcomesApart,
           FlightsApart, Sending
  <2> QED BY <1>1, <1>3, <1>4, <1>6, <1>7, <1>9, <2>1 DEF QueueApart
<1> QED BY <1>5, <1>8, <1>9
\* A step of a flight moves its own batch only.
LEMMA FlightOnePlace ==
    ASSUME TypeOK, OnePlace, NEW f \in flights, FlightStep(f)
    PROVE  OnePlace'
<1>1. PlacesApart /\ FlightsApart /\ OutcomesApart
  BY OnePlaceParts DEF PlacesApart
<1>2. f.batch \in Seq(Payload) /\ IsInjective(f.batch)
  BY <1>1 DEF TypeOK, Flight, FlightsApart
<1>3. ASSUME f.at # "credited" PROVE f \in Sending
  BY <1>3 DEF Sending
\* The batch stays aboard.
<1>4. ASSUME NEW g, g.batch = f.batch, g.at # "credited", f.at # "credited",
             Become(f, g),
             UNCHANGED <<queue, accepted, deadLetter, delivered, refused, dropped>>
      PROVE  OnePlace'
  <2>1. Aboard' = Aboard /\ FlightsApart'
    BY <1>1, <1>3, <1>4, MoveKeeps
  <2>2. PlacesApart' /\ Elsewhere' = Elsewhere
    BY <1>1, <1>4, <2>1
       DEF PlacesApart, OutcomesApart, Elsewhere, InDead, Settled
  <2> QED BY <1>4, <2>2, ElsewhereOnePlace
\* The batch gets an outcome.
<1>5. ASSUME NEW rest, \A g \in rest : g.at = "credited" /\ g.batch = f.batch,
             f.at # "credited",
             flights' = (flights \ {f}) \cup rest,
             \/ delivered' = delivered \cup Range(f.batch) /\ refused' = refused
             \/ refused' = refused \cup Range(f.batch) /\ delivered' = delivered,
             UNCHANGED <<queue, accepted, deadLetter, dropped>>
      PROVE  OnePlace'
  <2>1. /\ Sending' = Sending \ {f}
        /\ Aboard' = Aboard \ Range(f.batch)
        /\ Range(f.batch) \subseteq Aboard
    <3>1. \A g \in rest : g.at = "credited"
      BY <1>5
    <3> QED BY <1>1, <1>3, <1>5, <3>1, LandKeeps
  <2>2. Settled' = Settled \cup Range(f.batch)
    BY <1>5 DEF Settled
  <2>3. FlightsApart'
    BY <1>1, <1>2, <1>5, <2>1 DEF FlightsApart
  <2>4. OutcomesApart'
    BY <1>1, <1>5, <2>1 DEF PlacesApart, OutcomesApart, Settled
  <2>5. PlacesApart' /\ Elsewhere' = Elsewhere
    BY <1>1, <1>5, <2>1, <2>2, <2>3, <2>4 DEF PlacesApart, Elsewhere, InDead
  <2> QED BY <1>5, <2>5, ElsewhereOnePlace
<1>6. CASE AnswerStored(f)
  <2> DEFINE g == [f EXCEPT !.at = "stored"]
  <2>1. g.batch = f.batch /\ g.at # "credited"
    BY DEF TypeOK, Flight
  <2> HIDE DEF g
  <2>2. /\ Become(f, g) /\ f.at # "credited"
        /\ UNCHANGED <<queue, accepted, deadLetter, delivered, refused, dropped>>
    BY <1>6 DEF AnswerStored, outcomes, g
  <2> QED BY <1>4, <2>1, <2>2
<1>7. CASE AnswerError(f)
  <2>1. PICK a \in {"rejected", "errored"} : Become(f, [f EXCEPT !.at = a])
    BY <1>7 DEF AnswerError
  <2> DEFINE g == [f EXCEPT !.at = a]
  <2>2. g.batch = f.batch /\ g.at # "credited"
    BY DEF TypeOK, Flight
  <2> HIDE DEF g
  <2>3. /\ Become(f, g) /\ f.at # "credited"
        /\ UNCHANGED <<queue, accepted, deadLetter, delivered, refused, dropped>>
    BY <1>7, <2>1 DEF AnswerError, outcomes, g
  <2> QED BY <1>4, <2>2, <2>3
<1>8. CASE AttemptFails(f)
  <2>1. CASE f.attempt + 1 < MaxRetries
    <3> DEFINE g == [f EXCEPT !.at = "backoff", !.attempt = @ + 1]
    <3>1. g.batch = f.batch /\ g.at # "credited"
      BY DEF TypeOK, Flight
    <3> HIDE DEF g
    <3>2. /\ Become(f, g) /\ f.at # "credited"
          /\ UNCHANGED <<queue, accepted, deadLetter, delivered, refused, dropped>>
      BY <1>8, <2>1 DEF AttemptFails, AttemptLost, outcomes, g
    <3> QED BY <1>4, <3>1, <3>2
  <2>2. CASE ~(f.attempt + 1 < MaxRetries)
    <3> DEFINE none == {}
    <3>1. /\ flights' = (flights \ {f}) \cup none /\ GiveUp(deadLetter, f.batch)
          /\ f.at # "credited"
          /\ UNCHANGED <<queue, accepted, delivered, refused>>
      BY <1>8, <2>2 DEF AttemptFails, AttemptLost, outcomes
    <3>2. /\ Sending' = Sending \ {f}
          /\ Aboard' = Aboard \ Range(f.batch)
          /\ Range(f.batch) \subseteq Aboard
      <4>1. \A g \in none : g.at = "credited"
        OBVIOUS
      <4> HIDE DEF none
      <4> QED BY <1>1, <1>3, <3>1, <4>1, LandKeeps
    <3>3. PICK cut \in SUBSET Payload :
            /\ dropped' = dropped \cup cut
            /\ Range(deadLetter) \cup Range(f.batch) = Range(deadLetter') \cup cut
            /\ (/\ IsInjective(deadLetter) /\ IsInjective(f.batch)
                /\ Range(deadLetter) \cap Range(f.batch) = {}) =>
                 /\ IsInjective(deadLetter')
                 /\ Range(deadLetter') \cap cut = {}
      BY <1>2, <3>1, GiveUpKeeps DEF TypeOK
    <3>4. /\ IsInjective(deadLetter')
          /\ Range(deadLetter') \cap cut = {}
          /\ cut \cap Settled = {} /\ Range(deadLetter') \cap Settled = {}
      BY <1>1, <1>2, <3>2, <3>3 DEF PlacesApart, InDead
    <3>5. Settled' = Settled \cup cut
      BY <3>1, <3>3 DEF Settled
    <3>6. FlightsApart'
      BY <1>1, <3>1, <3>2 DEF FlightsApart
    <3>7. OutcomesApart'
      BY <1>1, <3>1, <3>3, <3>4 DEF OutcomesApart, Settled
    <3>8. PlacesApart' /\ Elsewhere' = Elsewhere
      BY <1>1, <3>2, <3>3, <3>4, <3>5, <3>6, <3>7
         DEF PlacesApart, Elsewhere, InDead
    <3> QED BY <3>1, <3>8, ElsewhereOnePlace
  <2> QED BY <2>1, <2>2
<1>9. CASE Resend(f)
  <2> DEFINE g == [f EXCEPT !.at = "posted"]
  <2>1. g.batch = f.batch /\ g.at # "credited"
    BY DEF TypeOK, Flight
  <2> HIDE DEF g
  <2>2. /\ Become(f, g) /\ f.at # "credited"
        /\ UNCHANGED <<queue, accepted, deadLetter, delivered, refused, dropped>>
    BY <1>9 DEF Resend, outcomes, g
  <2> QED BY <1>4, <2>1, <2>2
<1>10. CASE Refuse(f)
  <2> DEFINE none == {}
  <2>1. /\ flights' = (flights \ {f}) \cup none /\ f.at # "credited"
        /\ refused' = refused \cup Range(f.batch) /\ delivered' = delivered
        /\ UNCHANGED <<queue, accepted, deadLetter, dropped>>
    BY <1>10 DEF Refuse
  <2>2. \A g \in none : g.at = "credited" /\ g.batch = f.batch
    OBVIOUS
  <2> HIDE DEF none
  <2> QED BY <1>5, <2>1, <2>2
<1>11. CASE Credit(f)
  <2> DEFINE rest == {[f EXCEPT !.at = "credited"]}
  <2>1. \A h \in rest : h.at = "credited" /\ h.batch = f.batch
    BY DEF TypeOK, Flight
  <2>2. /\ flights' = (flights \ {f}) \cup rest /\ f.at # "credited"
        /\ delivered' = delivered \cup Range(f.batch) /\ refused' = refused
        /\ UNCHANGED <<queue, accepted, deadLetter, dropped>>
    BY <1>11 DEF Credit, Become
  <2> HIDE DEF rest
  <2> QED BY <1>5, <2>1, <2>2
<1>12. CASE Notify(f)
  <2>1. /\ flights' = flights \ {f} /\ f.at = "credited"
        /\ UNCHANGED <<queue, accepted, deadLetter, delivered, refused, dropped>>
    BY <1>12 DEF Notify
  <2>2. Sending' = Sending
    BY <2>1 DEF Sending
  <2>3. FlightsApart'
    BY <1>1, <2>1, <2>2 DEF FlightsApart
  <2>4. PlacesApart' /\ Elsewhere' = Elsewhere
    BY <1>1, <2>1, <2>2, <2>3
       DEF PlacesApart, OutcomesApart, Elsewhere, InDead, Aboard, Settled
  <2> QED BY <2>1, <2>4, ElsewhereOnePlace
<1> QED BY <1>6, <1>7, <1>8, <1>9, <1>10, <1>11, <1>12 DEF FlightStep

LEMMA OnePlaceStep == TypeOK /\ OnePlace /\ [Next]_vars => OnePlace'
<1> SUFFICES ASSUME TypeOK, OnePlace, [Next]_vars PROVE OnePlace'
  OBVIOUS
<1>1. CASE \E p \in Payload : Enqueue(p)
  BY <1>1, EnqueueOnePlace
<1>2. CASE TimerFires \/ Flush
  BY <1>2, DrainQueueOnePlace DEF TimerFires, Flush, outcomes
<1>3. CASE Stop
  BY <1>3, DrainQueueOnePlace DEF Stop, outcomes
<1>4. CASE \E f \in flights : FlightStep(f)
  BY <1>4, FlightOnePlace
<1>5. CASE (\E p \in Payload : LateArrival(p)) \/ UNCHANGED vars
  <2>1. UNCHANGED <<queue, deadLetter, flights, accepted, delivered, refused, dropped>>
    BY <1>5 DEF LateArrival, vars, client, outcomes
  <2> QED BY <2>1
          DEF OnePlace, InQueue, InDead, Aboard, Settled, Sending
<1> QED BY <1>1, <1>2, <1>3, <1>4, <1>5 DEF Next

\* Whatever the interleaving of enqueues, timers, flushes, stop() and answers,
\* no payload enqueue() took is lost, sent by two flights at a time, or back in
\* the buffer after its outcome is known (buffer.ts:54-76, 132-271).
THEOREM OnePlaceAlways == Spec => []OnePlace
<1>1. Init => OnePlace
  <2> SUFFICES ASSUME Init PROVE OnePlace
    OBVIOUS
  <2>1. /\ Range(queue) = {} /\ Range(deadLetter) = {} /\ Range(accepted) = {}
        /\ IsInjective(queue) /\ IsInjective(deadLetter)
    BY EmptyOnce, Zenon DEF Init
  <2>2. flights = {} /\ delivered = {} /\ refused = {} /\ dropped = {}
    BY DEF Init
  <2> QED BY <2>1, <2>2 DEF OnePlace, InQueue, InDead, Aboard, Settled, Sending
<1>2. TypeOK /\ OnePlace /\ [Next]_vars => OnePlace'
  BY OnePlaceStep
<1> QED BY <1>1, <1>2, TypeCorrect, PTL DEF Spec
-----------------------------------------------------------------------------
(* The order of the queue *)

\* An empty queue is the newest part of anything.
LEMMA EmptyIsNewest ==
    accepted \in Seq(Payload) /\ queue = <<>> => QueueIsNewest
<1> SUFFICES ASSUME accepted \in Seq(Payload), queue = <<>> PROVE QueueIsNewest
  OBVIOUS
<1> DEFINE n == Len(accepted)
<1>1. n \in Nat /\ n \in 0..n /\ n + 1 \in Int /\ n \in Int /\ n < n + 1
  BY LenProperties
<1>2. SubSeq(accepted, n + 1, n) = <<>>
  BY <1>1, SubSeqEmpty
<1> QED BY <1>1, <1>2 DEF QueueIsNewest

\* enqueue() lengthens the queue and what was accepted by the same payload, or
\* sends the queue off.
LEMMA EnqueueNewest ==
    ASSUME TypeOK, QueueIsNewest, NEW p \in Payload, Enqueue(p)
    PROVE  QueueIsNewest'
<1>1. accepted \in Seq(Payload) /\ accepted' = Append(accepted, p)
  BY DEF TypeOK, Enqueue
<1>2. accepted' \in Seq(Payload) /\ Len(accepted') = Len(accepted) + 1
  BY <1>1, AppendProperties
<1>3. queue' = <<>> \/ queue' = Append(queue, p)
  BY DEF Enqueue, Push, Drain
<1>4. CASE queue' = <<>>
  <2>1. (accepted \in Seq(Payload) /\ queue = <<>> => QueueIsNewest)'
    BY EmptyIsNewest, PTL
  <2> QED BY <1>2, <1>4, <2>1
<1>5. CASE queue' = Append(queue, p)
  <2>1. PICK k \in 0..Len(accepted) : queue = SubSeq(accepted, k + 1, Len(accepted))
    BY DEF QueueIsNewest
  <2>2. queue' = SubSeq(accepted', k + 1, Len(accepted'))
    BY <1>1, <1>5, <2>1, SuffixGrows
  <2>3. k \in 0..Len(accepted')
    BY <1>1, <1>2, LenProperties
  <2> QED BY <2>2, <2>3 DEF QueueIsNewest
<1> QED BY <1>3, <1>4, <1>5

\* The queue holds the payloads accepted last, in the order in which they came:
\* a drain takes all of it, and a flight that fails goes to the dead-letter array
\* and never back among newer payloads (buffer.ts:54-76, 132-144, 252-260).
THEOREM QueueIsNewestAlways == Spec => []QueueIsNewest
<1>1. Init => QueueIsNewest
  <2>1. ASSUME Init PROVE QueueIsNewest
    <3>1. accepted \in Seq(Payload) /\ queue = <<>>
      BY <2>1, EmptyOnce DEF Init
    <3> QED BY <3>1, EmptyIsNewest
  <2> QED BY <2>1
<1>2. TypeOK /\ QueueIsNewest /\ [Next]_vars => QueueIsNewest'
  <2> SUFFICES ASSUME TypeOK, QueueIsNewest, [Next]_vars PROVE QueueIsNewest'
    OBVIOUS
  <2>1. CASE \E p \in Payload : Enqueue(p)
    BY <2>1, EnqueueNewest
  <2>2. CASE TimerFires \/ Flush \/ Stop
    <3>1. queue' = <<>> /\ accepted' = accepted /\ accepted \in Seq(Payload)
      BY <2>2 DEF TimerFires, Flush, Stop, Drain, TypeOK
    <3>2. (accepted \in Seq(Payload) /\ queue = <<>> => QueueIsNewest)'
      BY EmptyIsNewest, PTL
    <3> QED BY <3>1, <3>2
  <2>3. CASE \/ \E f \in flights : FlightStep(f)
             \/ \E p \in Payload : LateArrival(p)
             \/ UNCHANGED vars
    <3>1. UNCHANGED <<queue, accepted>>
      BY <2>3 DEF FlightStep, AnswerStored, AnswerError, AttemptFails, AttemptLost,
                  Resend, Refuse, Credit, Notify, LateArrival, vars, client
    <3> QED BY <3>1 DEF QueueIsNewest
  <2> QED BY <2>1, <2>2, <2>3 DEF Next
<1> QED BY <1>1, <1>2, TypeCorrect, PTL DEF Spec
-----------------------------------------------------------------------------
(* The cap of the dead-letter array *)

\* A drain either empties the dead-letter array or cuts it to the cap.
LEMMA DrainCaps ==
    ASSUME TypeOK, NEW q \in Seq(Payload), NEW stopping, Drain(q, stopping)
    PROVE  Len(deadLetter') <= MaxRetryBuffer
<1> DEFINE batch == deadLetter \o q
           none == <<>>
<1>1. batch \in Seq(Payload) /\ none \in Seq(Payload) /\ Len(none) = 0
  BY ConcatProperties, EmptySeq DEF TypeOK
<1>2. deadLetter' = none \/ GiveUp(none, batch)
  BY DEF Drain, Launch
<1> HIDE DEF batch, none
<1>3. CASE deadLetter' = none
  BY <1>1, <1>3, FlushBufferAssumption
<1>4. CASE GiveUp(none, batch)
  BY <1>1, <1>4, GiveUpKeeps
<1> QED BY <1>2, <1>3, <1>4

\* The dead-letter array never outgrows maxRetryBuffer, whichever flights give
\* up, together or one after the other (buffer.ts:252-268).
THEOREM CapRespectedAlways == Spec => []CapRespected
<1>1. Init => CapRespected
  <2>1. Len(<<>>) = 0
    BY EmptySeq
  <2> QED BY <2>1, FlushBufferAssumption DEF Init, CapRespected
<1>2. TypeOK /\ CapRespected /\ [Next]_vars => CapRespected'
  <2> SUFFICES ASSUME TypeOK, CapRespected, [Next]_vars PROVE CapRespected'
    OBVIOUS
  <2>1. ASSUME NEW p \in Payload, Enqueue(p) PROVE CapRespected'
    <3> DEFINE q == Append(queue, p)
    <3>1. q \in Seq(Payload)
      BY AppendOnce DEF TypeOK
    <3>2. Drain(q, FALSE) \/ deadLetter' = deadLetter
      BY <2>1 DEF Enqueue, Push
    <3> HIDE DEF q
    <3> QED BY <3>1, <3>2, DrainCaps DEF CapRespected
  <2>2. CASE TimerFires \/ Flush \/ Stop
    <3>1. queue \in Seq(Payload)
      BY DEF TypeOK
    <3> QED BY <2>2, <3>1, DrainCaps DEF TimerFires, Flush, Stop, CapRespected
  <2>3. ASSUME NEW f \in flights, FlightStep(f) PROVE CapRespected'
    <3>1. f.batch \in Seq(Payload) /\ deadLetter \in Seq(Payload)
      BY DEF TypeOK, Flight
    <3>2. deadLetter' = deadLetter \/ GiveUp(deadLetter, f.batch)
      BY <2>3 DEF FlightStep, AnswerStored, AnswerError, AttemptFails, AttemptLost, Resend,
                  Refuse, Credit, Notify
    <3> QED BY <3>1, <3>2, GiveUpKeeps DEF CapRespected
  <2>4. CASE (\E p \in Payload : LateArrival(p)) \/ UNCHANGED vars
    BY <2>4 DEF LateArrival, vars, client, CapRespected
  <2> QED BY <2>1, <2>2, <2>3, <2>4 DEF Next
<1> QED BY <1>1, <1>2, TypeCorrect, PTL DEF Spec

-----------------------------------------------------------------------------
(* What the endpoint holds *)

\* A payload the endpoint holds although no attempt to send it failed is known
\* to be there: its flight has the answer, or is over.
StoredIsKnown ==
    \A p \in stored : \/ p \in failed \cup delivered
                      \/ \E f \in flights : f.at = "stored" /\ p \in Range(f.batch)

\* The duplicate-free part of the endpoint's record: DuplicateOnlyAfterFailure
\* is inductive together with StoredIsKnown and OnePlace.
LEMMA StoredIsKnownStep ==
    ASSUME TypeOK, OnePlace, StoredIsKnown, DuplicateOnlyAfterFailure, [Next]_vars
    PROVE  StoredIsKnown' /\ DuplicateOnlyAfterFailure'
<1>1. ASSUME flights \subseteq flights', UNCHANGED <<failed, delivered, endpoint>>
      PROVE  StoredIsKnown' /\ DuplicateOnlyAfterFailure'
  BY <1>1 DEF StoredIsKnown, DuplicateOnlyAfterFailure, endpoint
<1>2. ASSUME NEW q, NEW stopping, Drain(q, stopping) PROVE flights \subseteq flights'
  BY <1>2 DEF Drain, Launch
<1>3. CASE \E p \in Payload : Enqueue(p)
  BY <1>1, <1>2, <1>3 DEF Enqueue, Push, outcomes
<1>4. CASE TimerFires \/ Flush \/ Stop
  BY <1>1, <1>2, <1>4 DEF TimerFires, Flush, Stop, outcomes
<1>5. ASSUME NEW f \in flights, FlightStep(f)
      PROVE  StoredIsKnown' /\ DuplicateOnlyAfterFailure'
  <2>1. CASE AnswerStored(f)
    <3> DEFINE g == [f EXCEPT !.at = "stored"]
    <3>1. g.at = "stored" /\ g.batch = f.batch
      BY DEF TypeOK, Flight
    <3> HIDE DEF g
    <3>2. /\ f.at = "posted" /\ flights' = (flights \ {f}) \cup {g}
          /\ stored' = stored \cup (Range(f.batch) \cap Conforming)
          /\ duplicated' = duplicated \cup (Range(f.batch) \cap stored)
          /\ failed' = failed /\ delivered' = delivered
      BY <2>1 DEF AnswerStored, Arrive, Become, outcomes, g
    <3>3. StoredIsKnown'
      BY <3>1, <3>2 DEF StoredIsKnown
    <3>4. Range(f.batch) \cap stored \subseteq failed
      <4> SUFFICES ASSUME NEW p \in Range(f.batch), p \in stored, p \notin failed
                   PROVE  FALSE
        OBVIOUS
      <4>1. f \in Sending /\ p \in Aboard
        BY <3>2 DEF Sending, Aboard
      <4>2. CASE p \in delivered
        BY <4>1, <4>2 DEF OnePlace, Settled
      <4>3. CASE \E h \in flights : h.at = "stored" /\ p \in Range(h.batch)
        <5>1. PICK h \in flights : h.at = "stored" /\ p \in Range(h.batch)
          BY <4>3
        <5>2. h \in Sending /\ h # f
          BY <3>2, <5>1 DEF Sending
        <5> QED BY <4>1, <5>1, <5>2 DEF OnePlace
      <4> QED BY <4>2, <4>3 DEF StoredIsKnown
    <3> QED BY <3>2, <3>3, <3>4 DEF DuplicateOnlyAfterFailure
  <2>2. CASE AttemptFails(f)
    <3>1. /\ failed' = failed \cup Range(f.batch) /\ flights \ {f} \subseteq flights'
          /\ UNCHANGED <<delivered, endpoint>>
      BY <2>2 DEF AttemptFails, AttemptLost, Become, outcomes
    <3> QED BY <3>1 DEF StoredIsKnown, DuplicateOnlyAfterFailure, endpoint
  <2>3. CASE Credit(f)
    <3>1. /\ delivered' = delivered \cup Range(f.batch)
          /\ flights \ {f} \subseteq flights' /\ UNCHANGED <<failed, endpoint>>
      BY <2>3 DEF Credit, Become
    <3> QED BY <3>1 DEF StoredIsKnown, DuplicateOnlyAfterFailure, endpoint
  <2>4. CASE AnswerError(f) \/ Resend(f) \/ Refuse(f) \/ Notify(f)
    <3>1. /\ f.at # "stored" /\ flights \ {f} \subseteq flights'
          /\ UNCHANGED <<failed, delivered, endpoint>>
      BY <2>4 DEF AnswerError, Resend, Refuse, Notify, Become, outcomes
    <3> QED BY <3>1 DEF StoredIsKnown, DuplicateOnlyAfterFailure, endpoint
  <2> QED BY <1>5, <2>1, <2>2, <2>3, <2>4 DEF FlightStep
<1>6. CASE \E p \in Payload : LateArrival(p)
  <2>1. PICK p \in failed : /\ stored' = stored \cup ({p} \cap Conforming)
                            /\ duplicated' = duplicated \cup ({p} \cap stored)
    BY <1>6 DEF LateArrival, Arrive
  <2>2. UNCHANGED <<failed, delivered, flights>>
    BY <1>6 DEF LateArrival, client, outcomes
  <2> QED BY <2>1, <2>2 DEF StoredIsKnown, DuplicateOnlyAfterFailure
<1>7. CASE UNCHANGED vars
  BY <1>7 DEF vars, client, outcomes, endpoint, StoredIsKnown,
              DuplicateOnlyAfterFailure
<1> QED BY <1>3, <1>4, <1>5, <1>6, <1>7 DEF Next

\* An anchor is stored twice only when the client saw an attempt fail: however
\* many flushes run at once, none sends what another one has sent.
THEOREM DuplicateOnlyAfterFailureAlways == Spec => []DuplicateOnlyAfterFailure
<1>1. Init => StoredIsKnown /\ DuplicateOnlyAfterFailure
  BY DEF Init, StoredIsKnown, DuplicateOnlyAfterFailure
<1>2. /\ TypeOK /\ OnePlace /\ StoredIsKnown /\ DuplicateOnlyAfterFailure
      /\ [Next]_vars
      => StoredIsKnown' /\ DuplicateOnlyAfterFailure'
  BY StoredIsKnownStep
<1> QED BY <1>1, <1>2, TypeCorrect, OnePlaceAlways, PTL DEF Spec
-----------------------------------------------------------------------------
(* The delivery promise *)

\* A flight whose 2xx answer is on its way carries what the endpoint has stored.
AnswersAreTrue ==
    \A f \in flights :
        f.at = "stored" => Range(f.batch) \cap Conforming \subseteq stored

\* A receipt is of a credited payload that the endpoint has on record.
ReceiptsAreTrue == receipts \subseteq delivered \cap stored

\* What left the client was accepted.
FailedAccepted == failed \subseteq Range(accepted)

DeliveryInv == OnePlace /\ AnswersAreTrue /\ ReceiptsAreTrue /\ FailedAccepted

\* A drain only adds flights at their first await, and only adds to dropped.
LEMMA DrainAdds ==
    ASSUME NEW q, NEW stopping, Drain(q, stopping)
    PROVE  /\ dropped \subseteq dropped'
           /\ \A f \in flights' \ flights : f.at = "posted"
BY DEF Drain, Launch, GiveUp, NewFlight

\* What the endpoint says in a 2xx answer is what it did, and receipts come of these.
LEMMA DeliveryInvStep ==
    ASSUME TypeOK, DeliveryInv, [Next]_vars
    PROVE  AnswersAreTrue' /\ ReceiptsAreTrue' /\ FailedAccepted'
<1>1. ASSUME \A f \in flights' \ flights : f.at # "stored",
             UNCHANGED <<delivered, receipts, stored, failed>>,
             Range(accepted) \subseteq Range(accepted')
      PROVE  AnswersAreTrue' /\ ReceiptsAreTrue' /\ FailedAccepted'
  BY <1>1 DEF DeliveryInv, AnswersAreTrue, ReceiptsAreTrue, FailedAccepted
<1>2. ASSUME NEW p \in Payload, Enqueue(p)
      PROVE  AnswersAreTrue' /\ ReceiptsAreTrue' /\ FailedAccepted'
  <2>1. Range(accepted') = Range(accepted) \cup {p}
    BY <1>2, AppendOnce DEF Enqueue, TypeOK
  <2>2. \A f \in flights' \ flights : f.at # "stored"
    BY <1>2, DrainAdds DEF Enqueue, Push
  <2> QED BY <1>1, <1>2, <2>1, <2>2 DEF Enqueue, outcomes, endpoint
<1>3. CASE TimerFires \/ Flush \/ Stop
  <2>1. \A f \in flights' \ flights : f.at # "stored"
    BY <1>3, DrainAdds DEF TimerFires, Flush, Stop
  <2> QED BY <1>1, <1>3, <2>1 DEF TimerFires, Flush, Stop, outcomes, endpoint
<1>4. ASSUME NEW f \in flights, FlightStep(f)
      PROVE  AnswersAreTrue' /\ ReceiptsAreTrue' /\ FailedAccepted'
  <2>0. accepted' = accepted
    BY <1>4 DEF FlightStep, AnswerStored, AnswerError, AttemptFails, AttemptLost, Resend,
                Refuse, Credit, Notify
  <2>1. CASE AnswerStored(f)
    <3>1. [f EXCEPT !.at = "stored"].batch = f.batch
      BY DEF TypeOK, Flight
    <3>2. /\ stored' = stored \cup (Range(f.batch) \cap Conforming)
          /\ flights' = (flights \ {f}) \cup {[f EXCEPT !.at = "stored"]}
          /\ UNCHANGED <<delivered, receipts, failed>>
      BY <2>1 DEF AnswerStored, Arrive, Become, outcomes
    <3>3. AnswersAreTrue'
      BY <3>1, <3>2 DEF DeliveryInv, AnswersAreTrue
    <3> QED BY <2>0, <3>2, <3>3
            DEF DeliveryInv, ReceiptsAreTrue, FailedAccepted
  <2>2. CASE AttemptFails(f)
    <3>1. f \in Sending
      BY <2>2 DEF AttemptFails, AttemptLost, Sending
    <3>2. Range(f.batch) \subseteq Range(accepted)
      BY <3>1 DEF DeliveryInv, OnePlace, Aboard
    <3>3. /\ failed' = failed \cup Range(f.batch)
          /\ \A g \in flights' \ flights : g.at # "stored"
          /\ UNCHANGED <<delivered, receipts, stored>>
      <4>1. [f EXCEPT !.at = "backoff", !.attempt = @ + 1].at # "stored"
        BY DEF TypeOK, Flight
      <4> QED BY <2>2, <4>1 DEF AttemptFails, AttemptLost, Become, outcomes, endpoint
    <3> QED BY <2>0, <3>2, <3>3
            DEF DeliveryInv, AnswersAreTrue, ReceiptsAreTrue, FailedAccepted
  <2>3. CASE Credit(f)
    <3>1. [f EXCEPT !.at = "credited"].at # "stored"
      BY DEF TypeOK, Flight
    <3>2. /\ delivered' = delivered \cup Range(f.batch)
          /\ receipts' = IF f.at = "stored"
                         THEN receipts \cup (Range(f.batch) \cap Conforming) ELSE receipts
          /\ \A g \in flights' \ flights : g.at # "stored"
          /\ UNCHANGED <<failed, stored>>
      BY <2>3, <3>1 DEF Credit, Become, endpoint
    <3> QED BY <2>0, <3>2
            DEF DeliveryInv, AnswersAreTrue, ReceiptsAreTrue, FailedAccepted
  <2>4. CASE AnswerError(f) \/ Resend(f) \/ Refuse(f) \/ Notify(f)
    <3>1. /\ \A a \in {"rejected", "errored", "posted"} :
               [f EXCEPT !.at = a].at # "stored"
      BY DEF TypeOK, Flight
    <3>2. /\ \A g \in flights' \ flights : g.at # "stored"
          /\ UNCHANGED <<delivered, receipts, stored, failed>>
      BY <2>4, <3>1 DEF AnswerError, Resend, Refuse, Notify, Become, outcomes,
                        endpoint
    <3> QED BY <1>1, <2>0, <3>2
  <2> QED BY <1>4, <2>1, <2>2, <2>3, <2>4 DEF FlightStep
<1>5. CASE \E p \in Payload : LateArrival(p)
  <2>1. /\ stored \subseteq stored'
        /\ UNCHANGED <<flights, delivered, receipts, failed, accepted>>
    BY <1>5 DEF LateArrival, Arrive, client, outcomes
  <2> QED BY <2>1
          DEF DeliveryInv, AnswersAreTrue, ReceiptsAreTrue, FailedAccepted
<1>6. CASE UNCHANGED vars
  BY <1>1, <1>6 DEF vars, client, outcomes, endpoint
<1> QED BY <1>2, <1>3, <1>4, <1>5, <1>6 DEF Next

LEMMA DeliveryInvAlways == Spec => [](TypeOK /\ DeliveryInv)
<1>1. Init => AnswersAreTrue /\ ReceiptsAreTrue /\ FailedAccepted
  BY DEF Init, AnswersAreTrue, ReceiptsAreTrue, FailedAccepted
<1>2. TypeOK /\ DeliveryInv /\ [Next]_vars
      => AnswersAreTrue' /\ ReceiptsAreTrue' /\ FailedAccepted'
  BY DeliveryInvStep
<1>3. DeliveryInv <=> /\ OnePlace /\ AnswersAreTrue
                      /\ ReceiptsAreTrue /\ FailedAccepted
  BY DEF DeliveryInv
<1> QED BY <1>1, <1>2, <1>3, TypeCorrect, OnePlaceAlways, PTL DEF Spec

\* Every step of the buffer is a step of the promise, or leaves it alone.
LEMMA DeliveryStep ==
    ASSUME TypeOK, DeliveryInv, OnePlace', [Next]_vars
    PROVE  [Delivery!Next]_Delivery!vars
<1> DEFINE more == (refused \cup dropped)' \ (refused \cup dropped)
           gone == refused \cup dropped \cup (delivered \ receipts)
<1> USE DEF DeliveryInv
<1>0. Delivery!Held = Range(accepted) \ Settled
  BY DEF Delivery!Held, Settled, ReceiptsAreTrue
<1>1. more \subseteq Payload /\ Range(accepted) \subseteq Payload
  <2>1. TypeOK'
    BY TypeStep
  <2> QED BY <2>1, LenProperties, ElementOfSeq DEF TypeOK, Range
\* What is newly discarded was held, or is the payload being taken.
<1>2. ASSUME NEW new, Range(accepted') = Range(accepted) \cup new,
             delivered \subseteq delivered'
      PROVE  more \subseteq Delivery!Held \cup new
  BY <1>0, <1>2 DEF OnePlace, Settled
<1>3. ASSUME refused \subseteq refused', dropped \subseteq dropped',
             UNCHANGED <<delivered, receipts>>
      PROVE  gone' = gone \cup more
  BY <1>3
<1>4. ASSUME accepted' = accepted, UNCHANGED <<delivered, receipts>>, stored' = stored,
             stopped' = stopped, refused \subseteq refused', dropped \subseteq dropped'
      PROVE  Delivery!Next
  <2>1. more \subseteq Delivery!Held \cup {}
    BY <1>2, <1>4
  <2>2. Delivery!Decide({}, more)
    BY <1>3, <1>4, <2>1 DEF Delivery!Decide
  <2>3. {} \in SUBSET Payload
    OBVIOUS
  <2> QED BY <1>1, <2>2, <2>3 DEF Delivery!Next
<1>5. ASSUME NEW p \in Payload, Enqueue(p) PROVE Delivery!Next
  <2>1. Range(accepted') = Range(accepted) \cup {p} /\ p \notin Range(accepted)
    BY <1>5, AppendOnce DEF Enqueue, TypeOK
  <2>2. /\ ~stopped /\ stopped' = stopped
        /\ UNCHANGED <<delivered, receipts, stored, refused>>
        /\ dropped \subseteq dropped'
    BY <1>5, DrainAdds DEF Enqueue, Push, outcomes, endpoint
  <2>3. more \subseteq Delivery!Held \cup {p}
    BY <1>2, <2>1, <2>2
  <2>4. Delivery!Accept(p, more)
    BY <1>3, <2>1, <2>2, <2>3 DEF Delivery!Accept
  <2> QED BY <1>1, <2>4 DEF Delivery!Next
<1>6. CASE TimerFires \/ Flush
  BY <1>4, <1>6, DrainAdds DEF TimerFires, Flush, outcomes, endpoint
<1>7. CASE Stop
  <2>1. /\ accepted' = accepted /\ stored' = stored
        /\ UNCHANGED <<delivered, receipts>> /\ refused' = refused /\ stopped' = TRUE /\ dropped \subseteq dropped'
    BY <1>7, DrainAdds DEF Stop, outcomes, endpoint
  <2>2. more \subseteq Delivery!Held \cup {}
    BY <1>2, <2>1
  <2>3. Delivery!Close(more)
    BY <1>3, <2>1, <2>2 DEF Delivery!Close
  <2> QED BY <1>1, <2>3 DEF Delivery!Next
<1>8. ASSUME NEW f \in flights, FlightStep(f)
      PROVE  Delivery!Next \/ UNCHANGED Delivery!vars
  <2>0. /\ accepted' = accepted /\ stopped' = stopped
    BY <1>8 DEF FlightStep, AnswerStored, AnswerError, AttemptFails, AttemptLost, Resend,
                Refuse, Credit, Notify
  <2>1. CASE AnswerStored(f)
    <3> DEFINE new == Range(f.batch) \cap Conforming
    <3>1. f \in Sending
      BY <2>1 DEF AnswerStored, Sending
    <3>2. new \subseteq Range(accepted)
      BY <3>1 DEF OnePlace, Aboard
    <3>3. Delivery!Store(new)
      BY <2>0, <2>1, <3>2 DEF AnswerStored, Arrive, outcomes, Delivery!Store
    <3> QED BY <1>1, <3>2, <3>3 DEF Delivery!Next
  <2>2. CASE AttemptFails(f)
    <3>1. dropped \subseteq dropped' /\ refused' = refused
          /\ UNCHANGED <<delivered, receipts, stored>>
      BY <2>2 DEF AttemptFails, AttemptLost, GiveUp, outcomes, endpoint
    <3> QED BY <1>4, <2>0, <3>1
  <2>3. CASE Refuse(f)
    BY <1>4, <2>0, <2>3 DEF Refuse, endpoint
  <2>4. CASE Credit(f)
    <3> DEFINE new == Range(f.batch)
               told == IF f.at = "stored" THEN new \cap Conforming ELSE {}
    <3>1. f \in Sending
      BY <2>4 DEF Credit, Sending
    <3>2. new \subseteq Delivery!Held /\ new \cap delivered = {}
      BY <1>0, <3>1 DEF OnePlace, Aboard, Settled
    <3>3. told \subseteq new \cap stored
      BY DEF AnswersAreTrue
    <3>4. /\ delivered' = delivered \cup new /\ receipts' = receipts \cup told
          /\ UNCHANGED <<refused, dropped, stored>>
      BY <2>4 DEF Credit, endpoint
    <3> HIDE DEF told, new
    <3>5. gone' = gone \cup (new \ told)
      BY <3>2, <3>3, <3>4 DEF ReceiptsAreTrue
    <3>6. Delivery!Decide(told, new \ told)
      BY <2>0, <3>2, <3>3, <3>4, <3>5 DEF Delivery!Decide
    <3>7. new \subseteq Payload
      BY <1>0, <1>1, <3>2
    <3> QED BY <3>3, <3>6, <3>7 DEF Delivery!Next
  <2>5. CASE AnswerError(f) \/ Resend(f) \/ Notify(f)
    BY <2>0, <2>5 DEF AnswerError, Resend, Notify, outcomes, endpoint,
                      Delivery!vars
  <2> QED BY <1>8, <2>1, <2>2, <2>3, <2>4, <2>5 DEF FlightStep
<1>9. ASSUME NEW p \in Payload, LateArrival(p) PROVE Delivery!Next
  <2> DEFINE new == {p} \cap Conforming
  <2>1. new \subseteq Range(accepted)
    BY <1>9 DEF LateArrival, FailedAccepted
  <2>2. Delivery!Store(new)
    BY <1>9, <2>1 DEF LateArrival, Arrive, client, outcomes, Delivery!Store
  <2> QED BY <1>1, <2>1, <2>2 DEF Delivery!Next
<1>10. CASE UNCHANGED vars
  BY <1>10 DEF vars, client, outcomes, endpoint, Delivery!vars
<1> QED BY <1>5, <1>6, <1>7, <1>8, <1>9, <1>10 DEF Next

\* The flush buffer implements the delivery promise: an accepted anchor is held
\* until it is delivered, with a receipt and on record at the endpoint, or discarded,
\* credited or not; no decision is taken back, and nothing is accepted after stop().
THEOREM ImplementsDelivery == Spec => DeliverySpec
<1>1. Init => Delivery!Init
  <2>1. Range(<<>>) = {}
    BY EmptyOnce
  <2> QED BY <2>1 DEF Init, Delivery!Init
<1>2. /\ TypeOK /\ DeliveryInv /\ OnePlace' /\ [Next]_vars
      => [Delivery!Next]_Delivery!vars
  BY DeliveryStep
<1> QED BY <1>1, <1>2, DeliveryInvAlways, OnePlaceAlways, PTL
        DEF Spec, DeliverySpec, Delivery!Spec

-----------------------------------------------------------------------------
(* What a step brings into memory, for a log kept beside the buffer *)

\* The payloads in memory that are still to be sent.
Unsettled == InQueue \cup InDead \cup Aboard

\* A drain sends, keeps as dead letters or drops what it was given.
LEMMA DrainBrings ==
    ASSUME TypeOK, NEW q \in Seq(Payload), NEW stopping, Drain(q, stopping)
    PROVE  Unsettled' \subseteq InDead \cup Aboard \cup Range(q)
<1> DEFINE batch == deadLetter \o q
           f == NewFlight(batch, stopping)
<1>1. batch \in Seq(Payload) /\ Range(batch) = InDead \cup Range(q)
  BY ConcatOnce DEF TypeOK, InDead
<1>2. InQueue' = {}
  BY EmptyOnce DEF Drain, InQueue
<1>3. CASE batch # <<>> /\ MaxRetries > 0
  <2>1. deadLetter' = <<>> /\ flights' = flights \cup {f}
    BY <1>3 DEF Drain, Launch
  <2>2. f.batch = batch /\ f.at # "credited"
    BY DEF NewFlight
  <2>3. InDead' = {}
    BY <2>1, EmptyOnce DEF InDead
  <2> HIDE DEF batch, f
  <2>4. Aboard' = Aboard \cup Range(batch)
    BY <2>1, <2>2, LaunchKeeps
  <2> QED
    BY <1>1, <1>2, <2>3, <2>4 DEF Unsettled
<1>4. CASE ~(batch # <<>> /\ MaxRetries > 0)
  <2> DEFINE none == <<>>
  <2>1. GiveUp(none, batch) /\ flights' = flights
    BY <1>4 DEF Drain, Launch
  <2>2. none \in Seq(Payload) /\ Range(none) = {}
    BY EmptyOnce
  <2> HIDE DEF batch, f, none
  <2>3. InDead' \subseteq Range(batch)
    <3>1. PICK cut \in SUBSET Payload :
            Range(none) \cup Range(batch) = Range(deadLetter') \cup cut
      BY <1>1, <2>1, <2>2, GiveUpKeeps
    <3> QED
      BY <2>2, <3>1 DEF InDead
  <2>4. Aboard' = Aboard
    BY <2>1 DEF Aboard, Sending
  <2> QED
    BY <1>1, <1>2, <2>3, <2>4 DEF Unsettled
<1> QED
  BY <1>3, <1>4

LEMMA EnqueueBrings ==
    ASSUME TypeOK, NEW p \in Payload, Enqueue(p)
    PROVE  Unsettled' \subseteq Unsettled \cup {p}
<1> DEFINE q == Append(queue, p)
           t == tokens + Tokens[p]
           Full == Len(q) >= BufferSize \/ t >= TokenBudget
<1>1. q \in Seq(Payload) /\ Range(q) = InQueue \cup {p}
  BY AppendOnce DEF TypeOK, InQueue
<1>2. CASE Full
  <2>1. Drain(q, FALSE)
    BY <1>2 DEF Enqueue, Push
  <2> HIDE DEF q
  <2>2. Unsettled' \subseteq InDead \cup Aboard \cup Range(q)
    BY <1>1, <2>1, DrainBrings
  <2> QED
    BY <1>1, <2>2 DEF Unsettled
<1>3. CASE ~Full
  <2>1. queue' = q /\ UNCHANGED <<deadLetter, flights>>
    BY <1>3 DEF Enqueue, Push
  <2> QED
    BY <1>1, <2>1 DEF Unsettled, InQueue, InDead, Aboard, Sending
<1> QED
  BY <1>2, <1>3

\* A lost attempt moves its flight on, or its batch to the dead letters.
LEMMA AttemptLostBrings ==
    ASSUME TypeOK, NEW f \in Sending, AttemptLost(f)
    PROVE  /\ Unsettled' \subseteq Unsettled
           /\ deadLetter' \in Seq(Payload) /\ flights' \subseteq Flight
           /\ dropped' \subseteq Payload /\ failed' \subseteq Payload
           /\ UNCHANGED <<queue, tokens, stopped, accepted, delivered, notified,
                          refused, endpoint>>
<1>1. /\ f \in Flight /\ f.attempt \in Nat /\ f.batch \in Seq(Payload)
      /\ Range(f.batch) \subseteq Payload /\ Range(f.batch) \subseteq Aboard
  BY FlightMoves DEF TypeOK, Awaits, Sending, Aboard
<1>2. /\ failed' \subseteq Payload
      /\ UNCHANGED <<queue, tokens, stopped, accepted, delivered, notified,
                     refused, endpoint>>
  BY <1>1 DEF AttemptLost, TypeOK
<1>3. CASE f.attempt + 1 < MaxRetries
  <2> DEFINE g == [f EXCEPT !.at = "backoff", !.attempt = @ + 1]
  <2>1. /\ flights' = (flights \ {f}) \cup {g}
        /\ deadLetter' = deadLetter /\ dropped' = dropped
    BY <1>3 DEF AttemptLost, Become
  <2>2. g \in Flight /\ g.batch = f.batch
    <3>1. f.attempt + 1 \in Nat /\ "backoff" \in Awaits
      BY <1>1 DEF Awaits
    <3> QED
      BY <1>1, <3>1, FlightMoves DEF Flight
  <2> HIDE DEF g
  <2>3. \A h \in Sending' : \E k \in Sending : h.batch = k.batch
    BY <2>1, <2>2 DEF Sending
  <2>4. Aboard' \subseteq Aboard
    BY <2>3 DEF Aboard
  <2> QED
    BY <1>2, <2>1, <2>2, <2>4 DEF Unsettled, InQueue, InDead, TypeOK
<1>4. CASE ~(f.attempt + 1 < MaxRetries)
  <2>1. flights' = flights \ {f} /\ GiveUp(deadLetter, f.batch)
    BY <1>4 DEF AttemptLost
  <2>2. deadLetter \in Seq(Payload) /\ dropped \subseteq Payload /\ flights \subseteq Flight
    BY DEF TypeOK
  <2>3. /\ deadLetter' \in Seq(Payload) /\ dropped' \subseteq Payload
        /\ Range(deadLetter') \subseteq Range(deadLetter) \cup Range(f.batch)
    BY <1>1, <2>1, <2>2, GiveUpKeeps
  <2>4. Aboard' \subseteq Aboard
    BY <2>1 DEF Aboard, Sending
  <2> QED
    BY <1>1, <1>2, <2>1, <2>2, <2>3, <2>4 DEF Unsettled, InQueue, InDead
<1> QED
  BY <1>3, <1>4

\* Nothing but enqueue brings a payload in.
LEMMA FlightBrings ==
    ASSUME TypeOK, NEW f \in flights, FlightStep(f)
    PROVE  Unsettled' \subseteq Unsettled
<1>1. f \in Flight
  BY DEF TypeOK
<1>2. ASSUME NEW a \in Awaits, Become(f, [f EXCEPT !.at = a]),
             f \in Sending \/ a = "credited", UNCHANGED <<queue, deadLetter>>
      PROVE  Unsettled' \subseteq Unsettled
  <2> DEFINE g == [f EXCEPT !.at = a]
  <2>1. g.batch = f.batch /\ g.at = a
    BY <1>1, <1>2 DEF Flight
  <2>2. flights' = (flights \ {f}) \cup {g}
    BY <1>2 DEF Become
  <2> HIDE DEF g
  <2>3. \A h \in Sending' : \E k \in Sending : h.batch = k.batch
    BY <1>2, <2>1, <2>2 DEF Sending
  <2>4. Aboard' \subseteq Aboard
    BY <2>3 DEF Aboard
  <2> QED
    BY <1>2, <2>4 DEF Unsettled, InQueue, InDead
<1>3. ASSUME flights' = flights \ {f}, UNCHANGED <<queue, deadLetter>>
      PROVE  Unsettled' \subseteq Unsettled
  BY <1>3 DEF Unsettled, InQueue, InDead, Aboard, Sending
<1>4. CASE AnswerStored(f)
  BY <1>2, <1>4 DEF AnswerStored, Awaits, Sending
<1>5. CASE AnswerError(f)
  BY <1>2, <1>5 DEF AnswerError, Awaits, Sending
<1>6. CASE AttemptFails(f)
  BY <1>6, AttemptLostBrings DEF AttemptFails, Sending
<1>7. CASE Resend(f)
  BY <1>2, <1>7 DEF Resend, Awaits, Sending
<1>8. CASE Refuse(f)
  BY <1>3, <1>8 DEF Refuse
<1>9. CASE Credit(f)
  BY <1>2, <1>9 DEF Credit, Awaits
<1>10. CASE Notify(f)
  BY <1>3, <1>10 DEF Notify
<1> QED
  BY <1>4, <1>5, <1>6, <1>7, <1>8, <1>9, <1>10 DEF FlightStep

LEMMA DrainQueueBrings ==
    ASSUME TypeOK, TimerFires \/ Flush \/ Stop
    PROVE  Unsettled' \subseteq Unsettled
<1>1. PICK stopping \in BOOLEAN : Drain(queue, stopping)
  BY DEF TimerFires, Flush, Stop
<1>2. queue \in Seq(Payload)
  BY DEF TypeOK
<1>3. Unsettled' \subseteq InDead \cup Aboard \cup Range(queue)
  BY <1>1, <1>2, DrainBrings
<1> QED
  BY <1>3 DEF Unsettled, InQueue
=============================================================================
