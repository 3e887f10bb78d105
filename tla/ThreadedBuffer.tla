---------------------------- MODULE ThreadedBuffer ----------------------------
(***************************************************************************)
(* The flush buffer of the Python SDK (swt3_ai/buffer.py), without a        *)
(* write-ahead log: a daemon thread that collects and sends, and threads of *)
(* the application that enqueue, flush and stop.                            *)
(*                                                                          *)
(* An action is one operation on what the threads share: one get from the   *)
(* queue, one critical section of the lock, one read or write of the stop   *)
(* flag, one request.  What a thread took is in its hand, a local variable  *)
(* no other thread can reach.                                               *)
(*                                                                          *)
(* The token budget is one more reason for the daemon to send early; the    *)
(* clock, which is not modelled, is a reason at any time.                   *)
(***************************************************************************)
EXTENDS Naturals, Sequences, Functions

CONSTANTS
    Payload,         \* the payload objects the application may enqueue
    Caller,          \* threads that may call flush() and stop()
    Daemon,          \* the thread of _flush_loop
    BufferSize,      \* config.buffer_size
    MaxRetries,      \* config.max_retries
    MaxRetryBuffer   \* maxlen of the dead-letter deque

ASSUME ThreadedBufferAssumption ==
    /\ Daemon \notin Caller
    /\ BufferSize \in Nat \ {0}
    /\ MaxRetries \in Nat
    /\ MaxRetryBuffer \in Nat

VARIABLES
    queue,       \* the queue.Queue
    deadLetter,  \* the deque of failed payloads
    stopped,     \* no payload is taken any more
    entering,    \* payloads of enqueue calls past their look at stopped
    at,          \* where each thread is
    hand,        \* the payloads each thread holds
    attempt,     \* failed attempts of the send each thread is in
    stopper,     \* the threads whose stop() did the stopping
    accepted,    \* history: payloads enqueue did not turn away
    delivered,   \* history: payloads of sends that succeeded
    refused,     \* history: payloads of sends answered 4xx
    dropped,     \* history: payloads the full deque pushed out
    left,        \* history: payloads in the daemon's hand when it ended
    raised,      \* history: payloads in a hand when an exception ended the send
    failed,      \* history: payloads some attempt of which failed
    stored,      \* endpoint: payloads on record
    duplicated   \* endpoint: payloads stored more than once

shared   == <<queue, deadLetter, stopped, entering>>
threads  == <<at, hand, attempt, stopper>>
outcomes == <<delivered, refused, dropped, left, raised>>
endpoint == <<failed, stored, duplicated>>
vars     == <<shared, threads, accepted, outcomes, endpoint>>

Thread == Caller \cup {Daemon}

\* Where a thread is:
\*   idle     a caller in neither flush() nor stop()
\*   top      the daemon before it looks at stopped
\*   waiting  the daemon in queue.get(timeout)
\*   draining taking what is left in the queue
\*   taking   drained, about to look at the dead letters
\*   posted   in urlopen
\*   answered reading the body of a 2xx answer
\*   backoff  in the sleep before a retry
\*   ended    the daemon's function has returned or raised
Places == {"idle", "top", "waiting", "draining", "taking", "posted",
           "answered", "backoff", "ended"}

Home(t) == IF t = Daemon THEN "top" ELSE "idle"

Go(t, place) == at' = [at EXCEPT ![t] = place]
Hold(t, s)   == hand' = [hand EXCEPT ![t] = s]

-----------------------------------------------------------------------------
\* Definitions marked "Fault:" are the same code with one mistake in it.

\* Fault: the look at stopped is missing.
EnterLate(p) ==
    /\ p \notin accepted
    /\ accepted' = accepted \cup {p}
    /\ entering' = entering \cup {p}
    /\ UNCHANGED <<queue, deadLetter, stopped, threads, outcomes, endpoint>>

\* enqueue, in two steps: the look at stopped ...
Enter(p) ==
    /\ ~stopped
    /\ p \notin accepted
    /\ accepted' = accepted \cup {p}
    /\ entering' = entering \cup {p}
    /\ UNCHANGED <<queue, deadLetter, stopped, threads, outcomes, endpoint>>

\* ... and the put.
Put(p) ==
    /\ p \in entering
    /\ entering' = entering \ {p}
    /\ queue' = Append(queue, p)
    /\ UNCHANGED <<deadLetter, stopped, threads, accepted, outcomes, endpoint>>

\* A caller enters flush().
CallFlush(c) ==
    /\ at[c] = "idle"
    /\ Go(c, "draining")
    /\ UNCHANGED <<shared, hand, attempt, stopper, accepted, outcomes, endpoint>>

\* A caller enters stop(): the first stops the buffer, and flushes.
CallStop(c) ==
    /\ at[c] = "idle"
    /\ ~stopped
    /\ stopped' = TRUE
    /\ stopper' = stopper \cup {c}
    /\ Go(c, "draining")
    /\ UNCHANGED <<queue, deadLetter, entering, hand, attempt, accepted,
                   outcomes, endpoint>>

\* The daemon looks at stopped once a turn.  What it collected in earlier turns
\* and did not send yet goes with it when it ends.
Turn ==
    /\ at[Daemon] = "top"
    /\ IF stopped
       THEN /\ Go(Daemon, "ended")
            /\ left' = left \cup Range(hand[Daemon])
            /\ Hold(Daemon, <<>>)
       ELSE /\ Go(Daemon, "waiting")
            /\ UNCHANGED <<hand, left>>
    /\ UNCHANGED <<shared, attempt, stopper, accepted, delivered, refused,
                   dropped, raised, endpoint>>

\* Fault: all that is left is appended as one element.
GetNested(t) ==
    /\ at[t] \in {"waiting", "draining"}
    /\ queue # <<>>
    /\ Hold(t, Append(hand[t], queue))
    /\ queue' = <<>>
    /\ Go(t, "draining")
    /\ UNCHANGED <<deadLetter, stopped, entering, attempt, stopper, accepted,
                   outcomes, endpoint>>

\* One payload leaves the queue.
Get(t) ==
    /\ at[t] \in {"waiting", "draining"}
    /\ queue # <<>>
    /\ Hold(t, Append(hand[t], Head(queue)))
    /\ queue' = Tail(queue)
    /\ Go(t, "draining")
    /\ UNCHANGED <<deadLetter, stopped, entering, attempt, stopper, accepted,
                   outcomes, endpoint>>

\* queue.Empty: at once, or at the end of the daemon's timeout.
FindEmpty(t) ==
    /\ at[t] \in {"waiting", "draining"}
    /\ queue = <<>>
    /\ Go(t, "taking")
    /\ UNCHANGED <<shared, hand, attempt, stopper, accepted, outcomes, endpoint>>

\* The end of _send_batch when no attempt succeeded: one critical section.
GiveUp(t, held, batch) ==
    LET all == held \o batch
        cut == IF Len(all) > MaxRetryBuffer THEN Len(all) - MaxRetryBuffer ELSE 0
    IN  /\ deadLetter' = SubSeq(all, cut + 1, Len(all))
        /\ dropped' = dropped \cup Range(SubSeq(all, 1, cut))
        /\ Hold(t, <<>>)
        /\ Go(t, Home(t))

\* _send_batch, to its first request.
Send(t, batch) ==
    IF batch = <<>>
    THEN /\ Go(t, Home(t))
         /\ UNCHANGED <<deadLetter, hand, attempt, dropped>>
    ELSE IF MaxRetries = 0
    THEN GiveUp(t, <<>>, batch) /\ UNCHANGED attempt
    ELSE /\ deadLetter' = <<>>
         /\ Hold(t, batch)
         /\ Go(t, "posted")
         /\ attempt' = [attempt EXCEPT ![t] = 0]
         /\ UNCHANGED dropped

\* Fault: the dead letters are sent and kept.
TakeCopies(t) ==
    /\ at[t] = "taking"
    /\ t \in Caller \/ hand[t] # <<>>
    /\ Hold(t, deadLetter \o hand[t])
    /\ Go(t, "posted")
    /\ attempt' = [attempt EXCEPT ![t] = 0]
    /\ UNCHANGED <<shared, stopper, accepted, outcomes, endpoint>>

\* The dead letters, taken in one critical section, go first.  flush() always
\* takes them; the daemon does when it has something to send, and it is time.
Take(t) ==
    /\ at[t] = "taking"
    /\ t \in Caller \/ hand[t] # <<>>
    /\ Send(t, deadLetter \o hand[t])
    /\ UNCHANGED <<queue, stopped, entering, stopper, accepted, delivered,
                   refused, left, raised, endpoint>>

\* Fault: dead letters go out with new payloads only.
RetryNever ==
    /\ at[Daemon] = "taking"
    /\ hand[Daemon] = <<>>
    /\ deadLetter # <<>>
    /\ Go(Daemon, "top")
    /\ UNCHANGED <<shared, hand, attempt, stopper, accepted, outcomes, endpoint>>

\* With nothing new to send, the daemon retries the dead letters from time to
\* time.
Retry ==
    /\ at[Daemon] = "taking"
    /\ hand[Daemon] = <<>>
    /\ deadLetter # <<>>
    /\ Send(Daemon, deadLetter)
    /\ UNCHANGED <<queue, stopped, entering, stopper, accepted, delivered,
                   refused, left, raised, endpoint>>

\* It is not time yet, and the batch is not full.
Linger ==
    /\ at[Daemon] = "taking"
    /\ Len(hand[Daemon]) < BufferSize
    /\ Go(Daemon, "top")
    /\ UNCHANGED <<shared, hand, attempt, stopper, accepted, outcomes, endpoint>>

-----------------------------------------------------------------------------
\* _send_batch, from its first request.

Arrive(S) ==
    /\ stored' = stored \cup S
    /\ duplicated' = duplicated \cup (S \cap stored)

Done(t) == Hold(t, <<>>) /\ Go(t, Home(t)) /\ UNCHANGED <<attempt, stopper>>

\* The endpoint stores the batch and answers.
Answer(t) ==
    /\ at[t] = "posted"
    /\ Arrive(Range(hand[t]))
    /\ Go(t, "answered")
    /\ UNCHANGED <<shared, hand, attempt, stopper, accepted, outcomes, failed>>

Succeed(t) ==
    /\ at[t] = "answered"
    /\ delivered' = delivered \cup Range(hand[t])
    /\ Done(t)
    /\ UNCHANGED <<shared, accepted, refused, dropped, left, raised, endpoint>>

\* A client error is final: neither a retry nor the dead-letter deque.
Refuse(t) ==
    /\ at[t] = "posted"
    /\ refused' = refused \cup Range(hand[t])
    /\ Done(t)
    /\ UNCHANGED <<shared, accepted, delivered, dropped, left, raised, endpoint>>

\* Fault: the attempts are not counted.
FailUncounted(t) ==
    /\ at[t] \in {"posted", "answered"}
    /\ failed' = failed \cup Range(hand[t])
    /\ Go(t, "backoff")
    /\ UNCHANGED <<shared, hand, attempt, stopper, accepted, outcomes, stored,
                   duplicated>>

\* A 5xx answer, or no answer, or a connection that fails while it is read.
Fail(t) ==
    /\ at[t] \in {"posted", "answered"}
    /\ failed' = failed \cup Range(hand[t])
    /\ IF attempt[t] + 1 < MaxRetries
       THEN /\ attempt' = [attempt EXCEPT ![t] = @ + 1]
            /\ Go(t, "backoff")
            /\ UNCHANGED <<hand, deadLetter, dropped>>
       ELSE /\ GiveUp(t, deadLetter, hand[t])
            /\ UNCHANGED attempt
    /\ UNCHANGED <<queue, stopped, entering, stopper, accepted, delivered,
                   refused, left, raised, stored,
                   duplicated>>

Resend(t) ==
    /\ at[t] = "backoff"
    /\ Go(t, "posted")
    /\ UNCHANGED <<shared, hand, attempt, stopper, accepted, outcomes, endpoint>>

\* The body of the answer is cut short or is not JSON: neither except clause
\* takes it, and the exception ends the call, or the daemon.
Raise(t) ==
    /\ at[t] \in {"posted", "answered"}
    /\ raised' = raised \cup Range(hand[t])
    /\ Hold(t, <<>>)
    /\ Go(t, IF t = Daemon THEN "ended" ELSE "idle")
    /\ UNCHANGED <<shared, attempt, stopper, accepted, delivered, refused,
                   dropped, left, endpoint>>

\* A request the client has given up reaches the endpoint after all.
LateArrival(p) ==
    /\ p \in failed
    /\ Arrive({p})
    /\ UNCHANGED <<shared, threads, accepted, outcomes, failed>>

Sending(t) ==
    Answer(t) \/ Succeed(t) \/ Refuse(t) \/ Fail(t) \/ Resend(t) \/ Raise(t)

ThreadStep(t) == Get(t) \/ FindEmpty(t) \/ Take(t) \/ Sending(t)

DaemonStep == Turn \/ Retry \/ Linger \/ ThreadStep(Daemon)

-----------------------------------------------------------------------------
Init ==
    /\ queue = <<>>
    /\ deadLetter = <<>>
    /\ stopped = FALSE
    /\ entering = {}
    /\ at = [t \in Thread |-> Home(t)]
    /\ hand = [t \in Thread |-> <<>>]
    /\ attempt = [t \in Thread |-> 0]
    /\ stopper = {}
    /\ accepted = {}
    /\ delivered = {}
    /\ refused = {}
    /\ dropped = {}
    /\ left = {}
    /\ raised = {}
    /\ failed = {}
    /\ stored = {}
    /\ duplicated = {}

Next ==
    \/ \E p \in Payload : Enter(p) \/ Put(p) \/ LateArrival(p)
    \/ \E c \in Caller : CallFlush(c) \/ CallStop(c) \/ ThreadStep(c)
    \/ DaemonStep

Spec == Init /\ [][Next]_vars

\* Threads are scheduled, and time passes: a batch the daemon keeps on holding,
\* and dead letters it keeps on finding, are at last due.
Scheduling ==
    /\ \A p \in Payload : WF_vars(Put(p))
    /\ \A c \in Caller : WF_vars(ThreadStep(c))
    /\ WF_vars(DaemonStep)
    /\ SF_vars(Take(Daemon))
    /\ SF_vars(Retry)

\* The endpoint, until stop(): asked again and again, it at some time stores what
\* it is sent, and its answer is read.  What it does after stop() is left open.
EndpointRecovers ==
    \A t \in Thread :
        SF_vars(~stopped /\ Answer(t)) /\ SF_vars(~stopped /\ Succeed(t))

FairSpec == Spec /\ Scheduling /\ EndpointRecovers
-----------------------------------------------------------------------------
(* Properties *)

TypeOK ==
    /\ queue \in Seq(Payload)
    /\ deadLetter \in Seq(Payload) /\ Len(deadLetter) <= MaxRetryBuffer
    /\ stopped \in BOOLEAN
    /\ entering \subseteq Payload
    /\ at \in [Thread -> Places]
    /\ hand \in [Thread -> Seq(Payload)]
    /\ attempt \in [Thread -> Nat]
    /\ stopper \subseteq Caller
    /\ {accepted, delivered, refused, dropped, left, raised, failed, stored,
        duplicated}
         \subseteq SUBSET Payload

Settled == delivered \cup refused \cup dropped
Over    == Settled \cup left \cup raised

InHands == UNION {Range(hand[t]) : t \in Thread}

\* However the gets of two drains, the critical sections of the dead letters and
\* the ends of sends interleave, a payload enqueue took is in exactly one place:
\* no two threads hold it, and none sends what is decided.
OnePlace ==
    /\ accepted = entering \cup Range(queue) \cup Range(deadLetter)
                  \cup InHands \cup Over
    /\ entering \cap Range(queue) = {}
    /\ (entering \cup Range(queue)) \cap (Range(deadLetter) \cup InHands) = {}
    /\ Range(deadLetter) \cap InHands = {}
    /\ (entering \cup Range(queue) \cup Range(deadLetter) \cup InHands)
         \cap Over = {}
    /\ \A t, u \in Thread : t # u => Range(hand[t]) \cap Range(hand[u]) = {}
    /\ IsInjective(queue) /\ IsInjective(deadLetter)
    /\ \A t \in Thread : IsInjective(hand[t])

\* A step of the threads is a step of the delivery promise, or none.
Delivery == INSTANCE AnchorDelivery WITH
    Anchor     <- Payload,
    discarded  <- refused \cup dropped \cup left \cup raised,
    closed     <- stopped
DeliverySpec == Delivery!Spec

\* As long as the daemon runs, every payload the buffer took gets an outcome, or
\* is gone with an exception: the daemon sends what it collected, and the dead
\* letters even when nothing new comes.
EventuallySettled ==
    \A p \in Payload :
        p \in accepted ~> (p \in Settled \cup raised \/ at[Daemon] = "ended")

\* stop() returns or raises, whatever the endpoint does.
StopReturned == stopper # {} /\ \A c \in stopper : at[c] = "idle"
StopReturns == stopped ~> StopReturned

=============================================================================
