----------------------------- MODULE FlushBuffer -----------------------------
(***************************************************************************)
(* The flush buffer of the TypeScript SDK (swt3-ai-ts/src/buffer.ts), for   *)
(* an SDK that keeps no write-ahead log.  DurableBuffer adds the log.       *)
(*                                                                          *)
(* A call into the buffer runs to its first await without interruption, so  *)
(* an action is the code between two awaits.  flushInternal may be entered  *)
(* by the timer, by a full queue, by flush() and by stop() while earlier    *)
(* calls still await the network: each call that found something to send    *)
(* is a flight, and any number of them can be under way.                    *)
(*                                                                          *)
(* The endpoint is modelled by what a flight can learn of it, and by the    *)
(* set of anchors it has on record: it may store a batch and its answer may *)
(* be lost, and a request the client gave up may still arrive.              *)
(***************************************************************************)
EXTENDS Naturals, Sequences, Functions

CONSTANTS
    Payload,         \* the payload objects the application may enqueue
    Conforming,      \* those the endpoint takes; it rejects the others one by one
    Tokens,          \* tokens a payload reports (input plus output)
    BufferSize,      \* config.bufferSize
    TokenBudget,     \* config.tokenBudget; an unset budget is one never reached
    MaxRetries,      \* config.maxRetries: attempts of one flight, 0 in local mode
    MaxRetryBuffer   \* cap of the dead-letter array

ASSUME FlushBufferAssumption ==
    /\ Conforming \subseteq Payload
    /\ Tokens \in [Payload -> Nat]
    /\ BufferSize \in Nat
    /\ TokenBudget \in Nat
    /\ MaxRetries \in Nat
    /\ MaxRetryBuffer \in Nat

VARIABLES
    queue,       \* payloads enqueued since the last drain
    deadLetter,  \* payloads of flights that ran out of attempts
    tokens,      \* tokenAccumulator
    stopped,     \* no enqueue and no timer any more
    flights,     \* the sendBatch calls under way
    accepted,    \* history: every payload enqueue took, in order
    delivered,   \* history: payloads of flights that ended in success
    receipts,    \* payloads that have a receipt in allReceipts
    notified,    \* history: payloads the onFlush callback was given
    refused,     \* history: payloads of flights answered 4xx
    dropped,     \* history: payloads cut off the dead-letter array
    failed,      \* history: payloads some attempt of which failed
    stored,      \* endpoint: payloads on record
    duplicated   \* endpoint: payloads stored more than once

client   == <<queue, deadLetter, tokens, stopped, flights>>
outcomes == <<delivered, receipts, notified, refused>>
endpoint == <<stored, duplicated>>
vars     == <<client, accepted, outcomes, dropped, failed, endpoint>>

\* Where a flight awaits:
\*   posted    fetch, no answer yet          rejected  the text of a 4xx answer
\*   stored    the body of a 2xx answer      errored   the body of a 5xx answer
\*   backoff   the pause before a retry      credited  import of the crosswalk,
\*                                                     receipts already recorded
Awaits == {"posted", "stored", "rejected", "errored", "backoff", "credited"}

Flight == [batch : Seq(Payload), attempt : Nat, at : Awaits, stopping : BOOLEAN]

Settled == delivered \cup refused \cup dropped

\* stop() has returned: the flight it awaits is over.
StopReturned == stopped /\ \A f \in flights : ~f.stopping

-----------------------------------------------------------------------------
\* Definitions marked "Fault:" are the same code with one mistake in it.  They
\* are no part of the specification: each is what some property below rules out.

\* How many payloads the cap cuts off the front of the dead-letter array.
Overflow(s) == IF Len(s) > MaxRetryBuffer THEN Len(s) - MaxRetryBuffer ELSE 0

\* Fault: the batch is pushed as one element.
GiveUpUnspread(held, batch) ==
    deadLetter' = Append(held, batch) /\ UNCHANGED dropped

\* The end of sendBatch when no attempt succeeded, or none was allowed.
GiveUp(held, batch) ==
    LET all == held \o batch
        cut == Overflow(all)
    IN  /\ deadLetter' = SubSeq(all, cut + 1, Len(all))
        /\ dropped' = dropped \cup Range(SubSeq(all, 1, cut))

NewFlight(batch, stopping) ==
    [batch |-> batch, attempt |-> 0, at |-> "posted", stopping |-> stopping]

\* Fault: the dead letters are sent and kept.
LaunchKeepsDead(batch, stopping) ==
    /\ flights' = IF batch # <<>> /\ MaxRetries > 0
                  THEN flights \cup {NewFlight(batch, stopping)} ELSE flights
    /\ UNCHANGED <<deadLetter, dropped>>

\* sendBatch, to its first await.
Launch(batch, stopping) ==
    IF batch # <<>> /\ MaxRetries > 0
    THEN /\ deadLetter' = <<>>
         /\ flights' = flights \cup {NewFlight(batch, stopping)}
         /\ UNCHANGED dropped
    ELSE GiveUp(<<>>, batch) /\ UNCHANGED flights

\* Fault: the queue is not cleared.
DrainCopies(q, stopping) ==
    queue' = q /\ tokens' = 0 /\ Launch(deadLetter \o q, stopping)

\* Fault: without new payloads there is nothing to do.
DrainNeedsNews(q, stopping) ==
    /\ queue' = <<>> /\ tokens' = 0
    /\ IF q = <<>> THEN UNCHANGED <<deadLetter, flights, dropped>>
                   ELSE Launch(deadLetter \o q, stopping)

\* flushInternal, with q in the queue: the dead letters go first.
Drain(q, stopping) ==
    queue' = <<>> /\ tokens' = 0 /\ Launch(deadLetter \o q, stopping)

\* What enqueue does with the queue q and the token count t it arrives at.
Push(q, t) ==
    IF Len(q) >= BufferSize \/ t >= TokenBudget
    THEN Drain(q, FALSE)
    ELSE /\ queue' = q
         /\ tokens' = t
         /\ UNCHANGED <<deadLetter, flights, dropped>>

\* Fault: enqueue does not look at stopped.
EnqueueLate(p) ==
    /\ p \notin Range(accepted)
    /\ accepted' = Append(accepted, p)
    /\ Push(Append(queue, p), tokens + Tokens[p])
    /\ UNCHANGED <<stopped, outcomes, failed, endpoint>>

Enqueue(p) ==
    /\ ~stopped
    /\ p \notin Range(accepted)
    /\ accepted' = Append(accepted, p)
    /\ Push(Append(queue, p), tokens + Tokens[p])
    /\ UNCHANGED <<stopped, outcomes, failed, endpoint>>

\* The timer does not wait for the flight it starts, and is armed at once.
TimerFires ==
    /\ ~stopped
    /\ Drain(queue, FALSE)
    /\ UNCHANGED <<stopped, accepted, outcomes, failed, endpoint>>

\* flush() asks nothing of the state: the application may call it after stop().
Flush ==
    /\ Drain(queue, FALSE)
    /\ UNCHANGED <<stopped, accepted, outcomes, failed, endpoint>>

Stop ==
    /\ ~stopped
    /\ stopped' = TRUE
    /\ Drain(queue, TRUE)
    /\ UNCHANGED <<accepted, outcomes, failed, endpoint>>

-----------------------------------------------------------------------------
\* sendBatch.  Every action takes one flight past one await.

Become(f, g) == flights' = (flights \ {f}) \cup {g}

Arrive(S) ==
    /\ stored' = stored \cup (S \cap Conforming)
    /\ duplicated' = duplicated \cup (S \cap stored)

\* The endpoint answers the request under way: 2xx, 4xx or 5xx.
AnswerStored(f) ==
    /\ f.at = "posted"
    /\ Arrive(Range(f.batch))
    /\ Become(f, [f EXCEPT !.at = "stored"])
    /\ UNCHANGED <<queue, deadLetter, tokens, stopped, accepted, outcomes,
                   dropped, failed>>

AnswerError(f) ==
    /\ f.at = "posted"
    /\ \E answer \in {"rejected", "errored"} :
           Become(f, [f EXCEPT !.at = answer])
    /\ UNCHANGED <<queue, deadLetter, tokens, stopped, accepted, outcomes,
                   dropped, failed, endpoint>>

\* Fault: the attempts are not counted.
AttemptLostUncounted(f) ==
    /\ failed' = failed \cup Range(f.batch)
    /\ Become(f, [f EXCEPT !.at = "backoff"])
    /\ UNCHANGED <<queue, deadLetter, tokens, stopped, accepted, delivered,
                   notified, refused, dropped, endpoint>>

\* Fault: a batch that is given up goes back in front of the queue.
AttemptLostRequeues(f) ==
    /\ failed' = failed \cup Range(f.batch)
    /\ IF f.attempt + 1 < MaxRetries
       THEN /\ Become(f, [f EXCEPT !.at = "backoff", !.attempt = @ + 1])
            /\ UNCHANGED queue
       ELSE /\ flights' = flights \ {f}
            /\ queue' = f.batch \o queue
    /\ UNCHANGED <<deadLetter, tokens, stopped, accepted, delivered, notified,
                   refused, dropped, endpoint>>

\* An attempt that ends in the catch block: pause, or give the batch up.
AttemptLost(f) ==
    /\ failed' = failed \cup Range(f.batch)
    /\ IF f.attempt + 1 < MaxRetries
       THEN /\ Become(f, [f EXCEPT !.at = "backoff", !.attempt = @ + 1])
            /\ UNCHANGED <<deadLetter, dropped>>
       ELSE /\ flights' = flights \ {f}
            /\ GiveUp(deadLetter, f.batch)
    /\ UNCHANGED <<queue, tokens, stopped, accepted, delivered, notified,
                   refused, endpoint>>

\* fetch throws (unreachable, or aborted after config.timeout), or the body of
\* the answer cannot be read or parsed.
AttemptFails(f) ==
    /\ f.at \in {"posted", "stored", "rejected", "errored"}
    /\ AttemptLost(f)
    /\ UNCHANGED receipts

Resend(f) ==
    /\ f.at = "backoff"
    /\ Become(f, [f EXCEPT !.at = "posted"])
    /\ UNCHANGED <<queue, deadLetter, tokens, stopped, accepted, outcomes,
                   dropped, failed, endpoint>>

\* A client error is final: neither a retry nor the dead-letter array.
Refuse(f) ==
    /\ f.at = "rejected"
    /\ refused' = refused \cup Range(f.batch)
    /\ flights' = flights \ {f}
    /\ UNCHANGED <<queue, deadLetter, tokens, stopped, accepted, delivered,
                   receipts, notified, dropped, failed, endpoint>>

\* Whatever is not 4xx and has a JSON body counts as success.  A 5xx body has
\* no receipts.
Credit(f) ==
    /\ f.at \in {"stored", "errored"}
    /\ delivered' = delivered \cup Range(f.batch)
    /\ receipts' = IF f.at = "stored"
                   THEN receipts \cup (Range(f.batch) \cap Conforming)
                   ELSE receipts
    /\ Become(f, [f EXCEPT !.at = "credited"])
    /\ UNCHANGED <<queue, deadLetter, tokens, stopped, accepted, notified,
                   refused, dropped, failed, endpoint>>

\* The callback gets the batch if the answer held a receipt.
Notify(f) ==
    /\ f.at = "credited"
    /\ notified' = IF Range(f.batch) \cap receipts # {}
                   THEN notified \cup Range(f.batch)
                   ELSE notified
    /\ flights' = flights \ {f}
    /\ UNCHANGED <<queue, deadLetter, tokens, stopped, accepted, delivered,
                   receipts, refused, dropped, failed, endpoint>>

\* A request the client has given up reaches the endpoint after all.
LateArrival(p) ==
    /\ p \in failed
    /\ Arrive({p})
    /\ UNCHANGED <<client, accepted, outcomes, dropped, failed>>

FlightStep(f) ==
    \/ AnswerStored(f) \/ AnswerError(f) \/ AttemptFails(f) \/ Resend(f)
    \/ Refuse(f) \/ Credit(f) \/ Notify(f)

-----------------------------------------------------------------------------
Init ==
    /\ queue = <<>>
    /\ deadLetter = <<>>
    /\ tokens = 0
    /\ stopped = FALSE
    /\ flights = {}
    /\ accepted = <<>>
    /\ delivered = {}
    /\ receipts = {}
    /\ notified = {}
    /\ refused = {}
    /\ dropped = {}
    /\ failed = {}
    /\ stored = {}
    /\ duplicated = {}

Next ==
    \/ \E p \in Payload : Enqueue(p)
    \/ TimerFires
    \/ Flush
    \/ Stop
    \/ \E f \in flights : FlightStep(f)
    \/ \E p \in Payload : LateArrival(p)

Spec == Init /\ [][Next]_vars

\* The event loop: the timer fires while it is armed, and the flight that
\* carries p is resumed when what it awaits has come: every await of sendBatch
\* ends, the fetch within config.timeout.
Scheduling ==
    /\ WF_vars(TimerFires)
    /\ \A p \in Payload :
         WF_vars(\E f \in flights : p \in Range(f.batch) /\ FlightStep(f))

\* The endpoint, until stop(): asked again and again, it stores some batch, and
\* answers that arrive again and again are at some time read.  What it does after
\* stop() is left open.
EndpointRecovers ==
    /\ SF_vars(~stopped /\ \E f \in flights : AnswerStored(f))
    /\ SF_vars(~stopped /\ \E f \in flights : Credit(f))

FairSpec == Spec /\ Scheduling /\ EndpointRecovers
-----------------------------------------------------------------------------
(* Properties *)

TypeOK ==
    /\ queue \in Seq(Payload)
    /\ deadLetter \in Seq(Payload)
    /\ tokens \in Nat
    /\ stopped \in BOOLEAN
    /\ flights \subseteq Flight
    /\ accepted \in Seq(Payload)
    /\ delivered \subseteq Payload
    /\ receipts \subseteq Payload
    /\ notified \subseteq Payload
    /\ refused \subseteq Payload
    /\ dropped \subseteq Payload
    /\ failed \subseteq Payload
    /\ stored \subseteq Payload
    /\ duplicated \subseteq Payload

\* The flights whose payloads are still undecided.
Sending == {f \in flights : f.at # "credited"}

\* Where a payload can be: each of these sets is one place.
InQueue  == Range(queue)
InDead   == Range(deadLetter)
Aboard   == UNION {Range(f.batch) : f \in Sending}

\* However the timer, full queues, flush(), stop() and the ends of earlier
\* flights interleave, every payload enqueue took is in exactly one place: the
\* queue, the dead-letter array, one flight, or one of the three outcomes.  None
\* is lost by a drain, none is sent by two flights, and none comes back once its
\* outcome is known.
OnePlace ==
    /\ Range(accepted) = InQueue \cup InDead \cup Aboard \cup Settled
    /\ InQueue \cap (InDead \cup Aboard \cup Settled) = {}
    /\ InDead \cap (Aboard \cup Settled) = {}
    /\ Aboard \cap Settled = {}
    /\ delivered \cap (refused \cup dropped) = {}
    /\ refused \cap dropped = {}
    /\ \A f, g \in Sending :
         f # g => Range(f.batch) \cap Range(g.batch) = {}
    /\ IsInjective(queue) /\ IsInjective(deadLetter)
    /\ \A f \in flights : IsInjective(f.batch)

\* The queue is the newest part of what was accepted, in order: every payload
\* outside it was accepted before every payload in it.
QueueIsNewest ==
    \E k \in 0..Len(accepted) : queue = SubSeq(accepted, k + 1, Len(accepted))

\* The dead-letter array keeps to its cap whichever flights give up, together
\* or one after the other.
CapRespected == Len(deadLetter) <= MaxRetryBuffer

\* The endpoint sees a payload a second time only if the client saw an attempt
\* to send it fail; concurrent flushes alone never duplicate an anchor.
DuplicateOnlyAfterFailure == duplicated \subseteq failed

\* What the buffer lets go as delivered is on record at the endpoint: a batch that was
\* neither stored nor refused is sent again and kept as dead letters (README.md:1835,
\* buffer.ts:8-10).  The code breaks this: Credit asks for no more than a JSON body
\* (buffer.ts:170-183), and an endpoint that failed may send one.
DeliveredIsStored == delivered \cap Conforming \subseteq stored

\* A step of the buffer is a step of the delivery promise, or none: a receipt is for a
\* payload on record, and whatever is let go without one is given up for good, credited
\* as a success (a 5xx with a JSON body, a payload the endpoint rejects) or not.
Delivery == INSTANCE AnchorDelivery WITH
    Anchor    <- Payload,
    accepted  <- Range(accepted),
    delivered <- receipts,
    discarded <- refused \cup dropped \cup (delivered \ receipts),
    closed    <- stopped
DeliverySpec == Delivery!Spec

\* Unless the buffer is stopped, every payload it took gets an outcome: a batch
\* that runs out of attempts is sent again by a later timer.
EventuallySettled ==
    \A p \in Payload : p \in Range(accepted) ~> (p \in Settled \/ stopped)

\* stop() returns, whatever the endpoint answers or fails to: the retries of its flight
\* end.  (A body that is begun and never ends is excluded by Scheduling: the timer that
\* aborts the request is cleared before the body is read, buffer.ts:168.)
StopReturns == stopped ~> StopReturned

=============================================================================
