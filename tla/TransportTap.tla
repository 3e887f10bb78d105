----------------------------- MODULE TransportTap -----------------------------
(***************************************************************************)
(* The witness middleware of the MCP server (swt3-mcp/src/middleware.ts):   *)
(* it watches the tool calls that pass a transport, buffers one payload per *)
(* call and sends them in batches, one flush at a time, with a queue of     *)
(* batches to retry.                                                        *)
(*                                                                          *)
(* An action is the code between two awaits.  The callbacks the application *)
(* gives, resolveTenant and onWitness, may throw.  Tools are not told       *)
(* apart: there is one skip counter.                                        *)
(***************************************************************************)
EXTENDS Naturals, Sequences, SequencesExt, FiniteSetsExt, Functions, Subsequences

CONSTANTS
    Call,           \* ids of the tool calls the client may make
    MaxBuffer,      \* config.maxBuffer: calls tracked at a time
    BatchSize,      \* config.batchSize
    MaxRetries,     \* config.maxRetries: attempts of one batch
    MaxRetryBuffer  \* config.maxRetryBuffer: payloads in the retry queue

ASSUME TransportTapAssumption ==
    {MaxBuffer, BatchSize, MaxRetries, MaxRetryBuffer} \subseteq Nat

VARIABLES
    pending,     \* calls tracked and not answered yet, oldest first
    buffer,      \* payloadBuffer
    skipped,     \* the calls skipCounters counts
    flushing,    \* where the flush under way is
    current,     \* the batch it is sending
    eligible,    \* what it took out of the retry queue, not sent yet
    retryQueue,  \* batches that failed
    link,        \* the transport
    requested,   \* history: calls that have come, in order
    handled,     \* history: calls the server was given
    witnessed,   \* history: calls taken out of pending by a message
    succeeded,   \* history: items onWitness was told of without an error
    erred,       \* history: items onWitness was told of with an error
    disturbed,   \* history: items of batches in whose receipts onWitness threw
    outcome,     \* history: what became of the items that are gone
    stored       \* endpoint: items on record

calls    == <<pending, requested, handled, witnessed>>
sending  == <<flushing, current, eligible, retryQueue>>
receipts == <<succeeded, erred, disturbed>>
vars     == <<calls, buffer, skipped, sending, link, receipts, outcome, stored>>

\* A payload: that of a witnessed call, or a summary of calls skipped.
Item == [calls : SUBSET Call, summary : BOOLEAN]

Witnessed(c) == [calls |-> {c}, summary |-> FALSE]
Summary(S)   == [calls |-> S, summary |-> TRUE]

\* A batch and its attempts; when it waits in the queue, whether its time has come.
Batch == [items : Seq(Item), attempts : Nat]
Entry == [items : Seq(Item), attempts : Nat, due : BOOLEAN]

Nothing == [items |-> <<>>, attempts |-> 0]

\*   idle     no flush is under way
\*   between  a flush before its first request, or between two
\*   posted   in fetch                    reading  the body of a 2xx answer
Stages == {"idle", "between", "posted", "reading"}

\*   open  in use     closing  in close(), flushing     closed  torn down
Links == {"open", "closing", "closed"}

Outcomes == {"delivered", "refused", "exhausted", "evicted", "lost"}

Settle(o, S) == outcome' = [outcome EXCEPT ![o] = @ \cup S]
Settled == UNION {outcome[o] : o \in Outcomes}

Payloads(entries) == FlattenSeq([i \in DOMAIN entries |-> entries[i].items])

-----------------------------------------------------------------------------
\* Definitions marked "Fault:" are the same code with one mistake in it.

\* The places in the retry queue whose time has come.
Due == {i \in DOMAIN retryQueue : retryQueue[i].due}

\* Fault: the entries taken stay in the queue.
BeginKeepsQueue ==
    LET due == Picked(retryQueue, Due)
    IN  /\ UNCHANGED retryQueue
        /\ eligible' = SubSeq(due, 2, Len(due))
        /\ current' = IF due = <<>> THEN Nothing
                      ELSE [items |-> due[1].items, attempts |-> due[1].attempts]
        /\ flushing' = IF due = <<>> THEN "between" ELSE "posted"

\* flush, to its first await: the batches whose time has come leave the retry
\* queue together, and the first is sent.
Begin ==
    LET due == Picked(retryQueue, Due)
    IN  /\ retryQueue' = Picked(retryQueue, DOMAIN retryQueue \ Due)
        /\ eligible' = SubSeq(due, 2, Len(due))
        /\ current' = IF due = <<>> THEN Nothing
                      ELSE [items |-> due[1].items, attempts |-> due[1].attempts]
        /\ flushing' = IF due = <<>> THEN "between" ELSE "posted"

\* A flush while another is under way does nothing.
StartFlush == IF flushing = "idle" THEN Begin ELSE UNCHANGED sending

\* The flush is over; if close() started it, the transport goes down.
EndFlush ==
    /\ flushing' = "idle"
    /\ link' = IF link = "closing" THEN "closed" ELSE link

\* captureRequest: one call more than MaxBuffer pushes the oldest out.
Track(c) ==
    LET all == Append(pending, c)
    IN  pending' = IF Len(all) > MaxBuffer THEN Tail(all) ELSE all

Request(c) ==
    /\ link # "closed"
    /\ c \notin Range(requested)
    /\ requested' = Append(requested, c)
    /\ Track(c)
    /\ handled' = handled \cup {c}
    /\ UNCHANGED <<witnessed, buffer, skipped, sending, link, receipts, outcome,
                   stored>>

\* resolveTenant throws: the handler of the server is not reached.
RequestThrows(c) ==
    /\ link # "closed"
    /\ c \notin Range(requested)
    /\ requested' = Append(requested, c)
    /\ UNCHANGED <<pending, handled, witnessed, buffer, skipped, sending, link,
                   receipts, outcome, stored>>

\* Fault: the call itself is buffered, not its payload.
EnqueueRaw(c) ==
    \/ skipped' = skipped \cup {c} /\ UNCHANGED <<buffer, sending>>
    \/ /\ buffer' = Append(buffer, c)
       /\ UNCHANGED skipped
       /\ IF Len(buffer') >= BatchSize THEN StartFlush ELSE UNCHANGED sending

\* enqueueWitness: sampling leaves the call out, or its payload is buffered.
Enqueue(c) ==
    \/ skipped' = skipped \cup {c} /\ UNCHANGED <<buffer, sending>>
    \/ /\ buffer' = Append(buffer, Witnessed(c))
       /\ UNCHANGED skipped
       /\ IF Len(buffer') >= BatchSize THEN StartFlush ELSE UNCHANGED sending

\* tappedSend, once a message is out whose id is that of a pending call: its answer,
\* also when the transport was closed meanwhile (the send may have been under way, or
\* still work, as that of a stdio transport does), or a request of the server's own,
\* since client and server number their requests independently.  Any other message
\* changes nothing.
TappedSend(c) ==
    /\ c \in Range(pending)
    /\ pending' = Picked(pending, {i \in DOMAIN pending : pending[i] # c})
    /\ witnessed' = witnessed \cup {c}
    /\ Enqueue(c)
    /\ UNCHANGED <<requested, handled, link, receipts, outcome, stored>>

-----------------------------------------------------------------------------
\* Fault: the timer looks at the buffer only.
TimerNeedsNews ==
    /\ link = "open"
    /\ flushing = "idle"
    /\ buffer # <<>>
    /\ Begin
    /\ UNCHANGED <<calls, buffer, skipped, link, receipts, outcome, stored>>

TimerFires ==
    /\ link = "open"
    /\ flushing = "idle"
    /\ Begin
    /\ UNCHANGED <<calls, buffer, skipped, link, receipts, outcome, stored>>

\* flush(), which the application may call at any time, also after close().
Flush ==
    /\ flushing = "idle"
    /\ Begin
    /\ UNCHANGED <<calls, buffer, skipped, link, receipts, outcome, stored>>

\* close() waits for the flush it starts; while another is under way its own
\* returns at once, and the transport goes down.
Close ==
    /\ link # "closed"
    /\ link' = IF flushing = "idle" THEN "closing" ELSE "closed"
    /\ StartFlush
    /\ UNCHANGED <<calls, buffer, skipped, receipts, outcome, stored>>

\* The back-off of an entry is over.  Entries with as few attempts that came
\* before it are due before it.
Elapse(i) ==
    /\ ~retryQueue[i].due
    /\ \A j \in 1..(i - 1) :
         retryQueue[j].attempts <= retryQueue[i].attempts => retryQueue[j].due
    /\ retryQueue' = [retryQueue EXCEPT ![i].due = TRUE]
    /\ UNCHANGED <<calls, buffer, skipped, flushing, current, eligible, link,
                   receipts, outcome, stored>>

\* The next request of the flush: what is left to retry, then the buffer with a
\* summary of the skipped calls in front of it, if the buffer has anything.
PostRetry ==
    /\ flushing = "between"
    /\ eligible # <<>>
    /\ current' = [items |-> eligible[1].items, attempts |-> eligible[1].attempts]
    /\ eligible' = Tail(eligible)
    /\ flushing' = "posted"
    /\ UNCHANGED <<calls, buffer, skipped, retryQueue, link, receipts, outcome,
                   stored>>

PostBuffer ==
    /\ flushing = "between"
    /\ eligible = <<>>
    /\ buffer # <<>>
    /\ current' = [items |-> IF skipped = {} THEN buffer
                             ELSE <<Summary(skipped)>> \o buffer,
                   attempts |-> 0]
    /\ buffer' = <<>>
    /\ skipped' = {}
    /\ flushing' = "posted"
    /\ UNCHANGED <<calls, eligible, retryQueue, link, receipts, outcome, stored>>

FindEmpty ==
    /\ flushing = "between"
    /\ eligible = <<>>
    /\ buffer = <<>>
    /\ EndFlush
    /\ UNCHANGED <<calls, buffer, skipped, current, eligible, retryQueue, receipts,
                   outcome, stored>>

-----------------------------------------------------------------------------
\* sendBatch, from its request.  The first attempt has the receipts of the calls,
\* a retry builds one for every payload, summaries too.

ReceiptsOf(b) ==
    IF b.attempts > 0 THEN b.items
    ELSE Picked(b.items, {i \in DOMAIN b.items : ~b.items[i].summary})

\* The batch is done with: a first attempt was the flush's last request.
Conclude ==
    /\ current' = Nothing
    /\ IF current.attempts = 0 THEN EndFlush
       ELSE flushing' = "between" /\ UNCHANGED link

\* The oldest entries give way until the batch fits; one that does not fit into
\* the empty queue is dropped.
MakeRoom(b) ==
    LET Rest(n) == SubSeq(retryQueue, n + 1, Len(retryQueue))
        fits == {n \in 0..Len(retryQueue) :
                   Len(b.items) + Len(Payloads(Rest(n))) <= MaxRetryBuffer}
    IN  IF fits = {}
        THEN /\ retryQueue' = <<>>
             /\ Settle("evicted", Range(Payloads(retryQueue)) \cup Range(b.items))
        ELSE LET n == Min(fits)
             IN  /\ Settle("evicted", Range(Payloads(SubSeq(retryQueue, 1, n))))
                 /\ retryQueue' = Append(Rest(n), [items |-> b.items, due |-> FALSE,
                                                   attempts |-> b.attempts + 1])

\* Fault: a batch out of attempts is given up, and put back into the queue as well.
RetryAnyway(told) ==
    IF current.attempts + 1 >= MaxRetries
    THEN /\ erred' = erred \cup told \cup Range(ReceiptsOf(current))
         /\ Settle("exhausted", Range(current.items))
         /\ retryQueue' = Append(retryQueue, [items |-> current.items, due |-> FALSE,
                                              attempts |-> current.attempts + 1])
    ELSE MakeRoom(current) /\ erred' = erred \cup told

\* enqueueRetry, when error receipts have been given for what is in told: back
\* into the queue, or an error receipt for each.
RetryLater(told) ==
    IF current.attempts + 1 >= MaxRetries
    THEN /\ erred' = erred \cup told \cup Range(ReceiptsOf(current))
         /\ Settle("exhausted", Range(current.items))
         /\ UNCHANGED retryQueue
    ELSE MakeRoom(current) /\ erred' = erred \cup told

\* The endpoint stores the batch.
Accept ==
    /\ flushing = "posted"
    /\ stored' = stored \cup Range(current.items)
    /\ flushing' = "reading"
    /\ UNCHANGED <<calls, buffer, skipped, current, eligible, retryQueue, link,
                   receipts, outcome>>

\* Fault: the status of the answer is not looked at.
SucceedUnread ==
    /\ flushing \in {"posted", "reading"}
    /\ succeeded' = succeeded \cup Range(ReceiptsOf(current))
    /\ Settle("delivered", Range(current.items))
    /\ Conclude
    /\ UNCHANGED <<calls, buffer, skipped, eligible, retryQueue, erred, disturbed,
                   stored>>

Succeed ==
    /\ flushing = "reading"
    /\ succeeded' = succeeded \cup Range(ReceiptsOf(current))
    /\ Settle("delivered", Range(current.items))
    /\ Conclude
    /\ UNCHANGED <<calls, buffer, skipped, eligible, retryQueue, erred, disturbed,
                   stored>>

\* A client error is not retried.
Refuse ==
    /\ flushing = "posted"
    /\ erred' = erred \cup Range(ReceiptsOf(current))
    /\ Settle("refused", Range(current.items))
    /\ Conclude
    /\ UNCHANGED <<calls, buffer, skipped, eligible, retryQueue, succeeded,
                   disturbed, stored>>

\* A 5xx answer, no answer in time, or a body that cannot be read.
Fail ==
    /\ flushing \in {"posted", "reading"}
    /\ RetryLater({})
    /\ Conclude
    /\ UNCHANGED <<calls, buffer, skipped, eligible, succeeded, disturbed, stored>>

\* The receipts given before onWitness throws.
Told == {Range(SubSeq(ReceiptsOf(current), 1, k)) : k \in DOMAIN ReceiptsOf(current)}

\* onWitness throws at the receipts of a 2xx or 4xx answer: the catch block takes
\* it for a network error, and the batch is retried.
ReceiptThrows ==
    \E told \in Told :
      /\ \/ /\ flushing = "reading"
            /\ succeeded' = succeeded \cup told
            /\ RetryLater({})
         \/ /\ flushing = "posted"
            /\ RetryLater(told)
            /\ UNCHANGED succeeded
      /\ disturbed' = disturbed \cup Range(current.items)
      /\ Conclude
      /\ UNCHANGED <<calls, buffer, skipped, eligible, stored>>

\* onWitness throws at the receipts of a batch out of attempts: the exception ends
\* the flush, and what it had taken from the retry queue is gone.  The last answer
\* may have been 2xx, and onWitness have thrown there already.
FailThrows ==
    /\ flushing \in {"posted", "reading"}
    /\ current.attempts + 1 >= MaxRetries
    /\ \/ UNCHANGED succeeded
       \/ flushing = "reading" /\ \E told \in Told : succeeded' = succeeded \cup told
    /\ \E told \in Told : erred' = erred \cup told
    /\ disturbed' = disturbed \cup Range(current.items)
    /\ outcome' = [outcome EXCEPT
                     !["exhausted"] = @ \cup Range(current.items),
                     !["lost"] = @ \cup Range(Payloads(eligible))]
    /\ current' = Nothing
    /\ eligible' = <<>>
    /\ EndFlush
    /\ UNCHANGED <<calls, buffer, skipped, retryQueue, stored>>

Step == PostRetry \/ PostBuffer \/ FindEmpty
        \/ Succeed \/ Refuse \/ Fail \/ FailThrows \/ ReceiptThrows

-----------------------------------------------------------------------------
Init ==
    /\ pending = <<>>
    /\ buffer = <<>>
    /\ skipped = {}
    /\ flushing = "idle"
    /\ current = Nothing
    /\ eligible = <<>>
    /\ retryQueue = <<>>
    /\ link = "open"
    /\ requested = <<>>
    /\ handled = {}
    /\ witnessed = {}
    /\ succeeded = {}
    /\ erred = {}
    /\ disturbed = {}
    /\ outcome = [o \in Outcomes |-> {}]
    /\ stored = {}

Next ==
    \/ \E c \in Call :
         Request(c) \/ RequestThrows(c) \/ TappedSend(c)
    \/ TimerFires
    \/ Flush
    \/ Close
    \/ \E i \in DOMAIN retryQueue : Elapse(i)
    \/ Accept
    \/ Step

Spec == Init /\ [][Next]_vars

\* The event loop: the timer fires, back-offs end, and every await of a flush
\* comes to an end, fetch within its ten seconds.
FairSpec ==
    /\ Spec
    /\ WF_vars(TimerFires)
    /\ WF_vars(\E i \in DOMAIN retryQueue : Elapse(i))
    /\ WF_vars(Step)
-----------------------------------------------------------------------------
(* Properties *)

TypeOK ==
    /\ {pending, requested} \subseteq Seq(Call)
    /\ Len(pending) <= MaxBuffer /\ Len(Payloads(retryQueue)) <= MaxRetryBuffer
    /\ {skipped, handled, witnessed} \subseteq SUBSET Call
    /\ buffer \in Seq(Item)
    /\ flushing \in Stages
    /\ current \in Batch
    /\ {eligible, retryQueue} \subseteq Seq(Entry)
    /\ link \in Links
    /\ {succeeded, erred, disturbed, stored} \subseteq SUBSET Item
    /\ outcome \in [Outcomes -> SUBSET Item]

\* The payloads in memory, wherever they are.
Held == buffer \o current.items \o Payloads(eligible) \o Payloads(retryQueue)

Items == Range(Held) \cup Settled

\* However flushes, retries, evictions and throwing callbacks follow each other,
\* every call the server was given is accounted for once: it is pending, or was given
\* up for younger ones when too many were, or was taken out of the map by a message;
\* and then by its payload, in one place or with one outcome, or as a call skipped,
\* counted now or in one summary.
GivenUp == handled \ (Range(pending) \cup witnessed)

Accounted ==
    /\ \A i, j \in DOMAIN requested :
        requested[i] \in Range(pending) /\ requested[j] \in GivenUp => j < i
    /\ witnessed = skipped \cup UNION {i.calls : i \in Items}
    /\ \A i \in Items : i.calls \cap skipped = {}
    /\ \A i, j \in Items : i # j => i.calls \cap j.calls = {}
    /\ IsInjective(Held) /\ Range(Held) \cap Settled = {}
    /\ \A o, p \in Outcomes : o # p => outcome[o] \cap outcome[p] = {}

\* A receipt without an error means that the payload is on record; and the
\* application is told of a payload with an error and without one only if it threw
\* when it was told: no retry follows a success, no success a final error.
ReceiptsTrue ==
    /\ succeeded \subseteq stored
    /\ succeeded \cap erred \subseteq disturbed

\* A step of the tap is a step of the delivery promise, or none: the payload of a
\* call is delivered or discarded once, and delivered only if it is on record.
CallsOf(S) == {c \in Call : Witnessed(c) \in S}
Delivery == INSTANCE AnchorDelivery WITH
    Anchor     <- Call,
    accepted   <- CallsOf(Items),
    delivered  <- CallsOf(outcome["delivered"]),
    discarded  <- CallsOf(Settled \ outcome["delivered"]),
    stored     <- CallsOf(stored),
    closed     <- FALSE
DeliverySpec == Delivery!Spec

\* As long as the transport is open every payload gets an outcome, whatever the
\* endpoint does: attempts are counted, and the timer sees to batches that wait.
EventuallySettled ==
    \A c \in Call :
        c \in CallsOf(Items) ~> (c \in CallsOf(Settled) \/ link # "open")

=============================================================================
