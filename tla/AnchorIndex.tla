------------------------------ MODULE AnchorIndex ------------------------------
(***************************************************************************)
(* AnchorIndex: MCP servers that share one consumer group of the anchor    *)
(* stream, each with an index in memory of the anchors it was handed.      *)
(* Redis hands a message of the group to one consumer only, and hands it   *)
(* out again to nobody who does not ask for it: readers ask for ">" only.  *)
(* Redis, the ledger and whoever appends to the stream are external.       *)
(* Source: packages/swt3-mcp/src/redis-reader.ts.                          *)
(***************************************************************************)
EXTENDS SequencesExt, FiniteSetsExt, Integers, Subsequences

CONSTANTS
    Servers,      \* MCP server processes
    Starts,       \* calls of startRedisReader, each with the loop it begins
    Home,         \* the process of each
    Records,      \* what a message of the stream may say
    MaxStream,    \* bound: messages of the stream
    MaxTime,      \* bound: of the clock
    MaxDelay,     \* bound: how long an anchor takes to the stream
    MaxEntries,   \* config.maxEntries
    TTL,          \* config.ttlMs
    ReadCount     \* READ_COUNT

ASSUME BoundsAssumption ==
    /\ {MaxStream, MaxTime, MaxDelay, TTL} \subseteq Nat
    /\ {MaxEntries, ReadCount} \subseteq Nat \ {0}
    /\ Home \in [Starts -> Servers]

(* AnchorEntry, and for the ledger the target of a revocation. *)
Fields == {"proc", "verdict", "agent", "cycle", "provider", "signature", "target", "wellFormed"}
NoOne == "none"    \* the field is absent

ASSUME RecordsAssumption == \A m \in Records : DOMAIN m = Fields

NoGroup == -1

VARIABLES
    stream,     \* external: the messages, a record and an epoch each
    group,      \* external: the last message handed to the group
    acked,      \* external: messages the group has confirmed
    clock,
    life,       \* of each process: "up" is running = true
    loop,       \* where each start, then its readLoop, is
    awaited,    \* readLoopPromise: the last loop begun, of each process
    redis,      \* the processes whose connection is not null
    batch,      \* messages of the reply a loop works on
    entries,    \* allEntries: message and receivedAt
    byAgent,    \* byAgent: messages of an agent
    byCycle,    \* byCycle: messages of a cycle
    seen,       \* history: the entries a process was ever given
    lost        \* history: messages handed out that no index was given

processVars == <<life, loop, awaited, redis>>
listVars == <<entries, byAgent, byCycle, seen>>
readerVars == <<processVars, batch, listVars, lost>>

Lives == {"down", "up", "stopping", "gone"}
Phases == {"none", "opening", "reading", "replied", "acking", "sleeping", "ended"}

Agents == {m.agent : m \in Records}
Cycles == {m.cycle : m \in Records}
NoLoop == "none"

Running(s) == life[s] = "up"
OfServer(s) == {k \in Starts : Home[k] = s}

IndexInit ==
    /\ stream = <<>>
    /\ group = NoGroup
    /\ acked = {}
    /\ clock = 0
    /\ life = [s \in Servers |-> "down"]
    /\ loop = [k \in Starts |-> "none"]
    /\ awaited = [s \in Servers |-> NoLoop]
    /\ redis = {}
    /\ batch = [k \in Starts |-> <<>>]
    /\ entries = [s \in Servers |-> <<>>]
    /\ byAgent = [s \in Servers |-> [a \in Agents \cup {NoOne} |-> <<>>]]
    /\ byCycle = [s \in Servers |-> [c \in Cycles \cup {NoOne} |-> <<>>]]
    /\ seen = [s \in Servers |-> <<>>]
    /\ lost = {}

---------------------------------------------------------------------------
(* One server's index: its three lists. *)
IndexOf(s) == [entries |-> entries[s], byAgent |-> byAgent[s], byCycle |-> byCycle[s]]

\* Definitions marked "Fault:" are the same code with one mistake in it.  They are no
\* part of the specification: each is what some property rules out.

\* Fault: the oldest entry is still found by its agent and its cycle.
RemoveOldestOnly(ix) == [ix EXCEPT !.entries = Tail(@)]

(* shift and removeFromIndices. *)
RemoveOldest(ix) ==
    LET oldest == Head(ix.entries).id
        m == stream[oldest] IN
    [entries |-> Tail(ix.entries),
     byAgent |-> [ix.byAgent EXCEPT ![m.agent] = RemoveFirst(@, oldest)],
     byCycle |-> [ix.byCycle EXCEPT ![m.cycle] = RemoveFirst(@, oldest)]]

Push(ix, id) ==
    LET m == stream[id] IN
    [entries |-> Append(ix.entries, [id |-> id, at |-> clock]),
     byAgent |-> IF m.agent = NoOne THEN ix.byAgent
                 ELSE [ix.byAgent EXCEPT ![m.agent] = Append(@, id)],
     byCycle |-> IF m.cycle = NoOne THEN ix.byCycle
                 ELSE [ix.byCycle EXCEPT ![m.cycle] = Append(@, id)]]

\* Fault: room is made one entry too late.
IndexEntryLate(ix, id) == Push(IF Len(ix.entries) > MaxEntries THEN RemoveOldest(ix) ELSE ix, id)

(* indexEntry: room is made before the entry is pushed. *)
IndexEntry(ix, id) == Push(IF Len(ix.entries) >= MaxEntries THEN RemoveOldest(ix) ELSE ix, id)

(* The messages of a reply, and the entries that are too old, one by one. *)
IndexAll(ix, ids) == FoldLeft(IndexEntry, ix, ids)
RemoveAll(ix, n) == FoldLeft(LAMBDA rest, i : RemoveOldest(rest), ix, [i \in 1..n |-> i])

SetIndex(s, ix) ==
    /\ entries' = [entries EXCEPT ![s] = ix.entries]
    /\ byAgent' = [byAgent EXCEPT ![s] = ix.byAgent]
    /\ byCycle' = [byCycle EXCEPT ![s] = ix.byCycle]

ClearIndex(s) ==
    SetIndex(s, [entries |-> <<>>, byAgent |-> [a \in Agents \cup {NoOne} |-> <<>>],
                 byCycle |-> [c \in Cycles \cup {NoOne} |-> <<>>]])

(* A loop goes on while the process runs and has a connection, or ends; after an error *)
(* it sleeps first, if the process runs.                                               *)
Turning(k) == Running(Home[k]) /\ Home[k] \in redis
GoOn(k) == loop' = [loop EXCEPT ![k] = IF Turning(k) THEN "reading" ELSE "ended"]
Pause(k) == loop' = [loop EXCEPT ![k] = IF Running(Home[k]) THEN "sleeping" ELSE "ended"]

(* The messages of its batch are done with, and no index was given these. *)
Drop(k, ids) == batch' = [batch EXCEPT ![k] = <<>>] /\ lost' = lost \cup ids

---------------------------------------------------------------------------
(* startRedisReader, of a createServer: the HTTP server has one for every request, and *)
(* those that come before the first has connected each begin a loop.                   *)
Start(k) ==
    /\ life[Home[k]] = "down" /\ loop[k] = "none"
    /\ loop' = [loop EXCEPT ![k] = "opening"]
    /\ redis' = redis \cup {Home[k]}
    /\ UNCHANGED <<stream, group, acked, clock, life, awaited, batch, listVars, lost>>

(* Connected.  The first to make the group skips what is on the stream.  Another start *)
(* may have taken the connection away again.  A stop that waits for its loop waits on: *)
(* running is true again.  After a stop the process is at its end.                     *)
Opened(k) ==
    /\ loop[k] = "opening"
    /\ \/ life[Home[k]] \in {"down", "up"}
       \/ life[Home[k]] = "stopping" /\ loop[awaited[Home[k]]] # "ended"
    /\ group' = IF group = NoGroup THEN Len(stream) ELSE group
    /\ life' = [life EXCEPT ![Home[k]] = "up"]
    /\ loop' = [loop EXCEPT ![k] = IF Home[k] \in redis THEN "reading" ELSE "ended"]
    /\ awaited' = [awaited EXCEPT ![Home[k]] = k]
    /\ UNCHANGED <<stream, acked, clock, redis, batch, listVars, lost>>

(* Redis cannot be reached: the reader is not started, and the connection of the *)
(* process is null, also for a loop that another start has begun.                *)
OpenFails(k) ==
    /\ loop[k] = "opening"
    /\ loop' = [loop EXCEPT ![k] = "ended"]
    /\ redis' = redis \ {Home[k]}
    /\ UNCHANGED <<stream, group, acked, clock, life, awaited, batch, listVars, lost>>

\* Fault: every read begins at the first message.
ReadFromFirst(k) ==
    /\ loop[k] = "reading" /\ stream # <<>>
    /\ LET last == Min({Len(stream), ReadCount}) IN
        /\ batch' = [batch EXCEPT ![k] = [i \in 1..last |-> i]]
        /\ group' = Max({group, last})
    /\ loop' = [loop EXCEPT ![k] = "replied"]
    /\ UNCHANGED <<stream, acked, clock, life, awaited, redis, listVars, lost>>

(* XREADGROUP with ">": the next messages, which nobody else will be handed. *)
Read(k) ==
    /\ loop[k] = "reading" /\ group < Len(stream)
    /\ LET last == Min({Len(stream), group + ReadCount}) IN
        /\ batch' = [batch EXCEPT ![k] = [i \in 1..(last - group) |-> group + i]]
        /\ group' = last
    /\ loop' = [loop EXCEPT ![k] = "replied"]
    /\ UNCHANGED <<stream, acked, clock, life, awaited, redis, listVars, lost>>

(* The reply is worked on in one turn of the event loop; after stop it is dropped.  Without *)
(* a connection XACK throws.                                                                *)
Process(k) ==
    /\ loop[k] = "replied"
    /\ LET s == Home[k]
           good == IF Running(s)
                   THEN Picked(batch[k], {i \in DOMAIN batch[k] : stream[batch[k][i]].wellFormed})
                   ELSE <<>> IN
        /\ SetIndex(s, IndexAll(IndexOf(s), good))
        /\ seen' = [seen EXCEPT ![s] =
                        @ \o [i \in DOMAIN good |-> [id |-> good[i], at |-> clock]]]
        /\ lost' = lost \cup (Range(batch[k]) \ Range(good))
        /\ IF good # <<>> /\ s \in redis
           THEN /\ batch' = [batch EXCEPT ![k] = good]
                /\ loop' = [loop EXCEPT ![k] = "acking"]
           ELSE /\ batch' = [batch EXCEPT ![k] = <<>>]
                /\ IF good = <<>> THEN GoOn(k) ELSE Pause(k)
    /\ UNCHANGED <<stream, group, acked, clock, life, awaited, redis>>

(* XACK, which an error may keep from Redis or from the loop. *)
Ack(k) ==
    /\ loop[k] = "acking"
    /\ \/ acked' = acked \cup Range(batch[k]) /\ GoOn(k)
       \/ acked' \in {acked, acked \cup Range(batch[k])} /\ Pause(k)
    /\ Drop(k, {})
    /\ UNCHANGED <<stream, group, clock, life, awaited, redis, listVars>>

(* The connection fails: a reply on its way is never seen, and nobody asks for it again. *)
LoseReply(k) ==
    /\ loop[k] \in {"reading", "replied"}
    /\ Pause(k)
    /\ Drop(k, Range(batch[k]))
    /\ UNCHANGED <<stream, group, acked, clock, life, awaited, redis, listVars>>

(* The sleep after an error ends, or the block of a read without messages. *)
Wake(k) ==
    /\ \/ loop[k] = "sleeping"
       \/ loop[k] = "reading" /\ ~Turning(k)
    /\ GoOn(k)
    /\ UNCHANGED <<stream, group, acked, clock, life, awaited, redis, batch, listVars, lost>>

(* stopRedisReader, on the signal that ends the process.  It waits for the last loop *)
(* begun before it clears the indices.                                               *)
Stop(s) ==
    /\ Running(s)
    /\ life' = [life EXCEPT ![s] = "stopping"]
    /\ UNCHANGED <<stream, group, acked, clock, loop, awaited, redis, batch, listVars, lost>>

Clear(s) ==
    /\ life[s] = "stopping" /\ loop[awaited[s]] = "ended"
    /\ life' = [life EXCEPT ![s] = "gone"]
    /\ ClearIndex(s)
    /\ redis' = redis \ {s}
    /\ UNCHANGED <<stream, group, acked, clock, loop, awaited, batch, seen, lost>>

Stale(e) == e.at < clock - TTL

(* evictStale, from the timer that stop clears, or from that of an earlier start, which *)
(* no stop clears.                                                                      *)
EvictStale(s) ==
    /\ Running(s) \/ \E k \in OfServer(s) \ {awaited[s]} : loop[k] \notin {"none", "opening"}
    /\ \E n \in DOMAIN entries[s] :
        /\ \A i \in 1..n : Stale(entries[s][i])
        /\ n < Len(entries[s]) => ~Stale(entries[s][n + 1])
        /\ SetIndex(s, RemoveAll(IndexOf(s), n))
    /\ UNCHANGED <<stream, group, acked, clock, processVars, batch, seen, lost>>

(* The process dies with what it was handed.  The next one, a server of its own here, has *)
(* another consumer name and is not handed it again.                                      *)
Crash(s) ==
    /\ life[s] \in {"up", "stopping"}
    /\ life' = [life EXCEPT ![s] = "gone"]
    /\ loop' = [k \in Starts |-> IF Home[k] = s THEN "ended" ELSE loop[k]]
    /\ ClearIndex(s)
    /\ batch' = [k \in Starts |-> IF Home[k] = s THEN <<>> ELSE batch[k]]
    /\ lost' = lost \cup UNION {Range(batch[k]) : k \in {r \in OfServer(s) : loop[r] = "replied"}}
    /\ redis' = redis \ {s}
    /\ UNCHANGED <<stream, group, acked, clock, awaited, seen>>

---------------------------------------------------------------------------
(* An anchor reaches the stream; its epoch is the time of its witness, a while ago perhaps. *)
Stamp(m, epoch) ==
    [x \in DOMAIN m \cup {"epoch"} |-> IF x = "epoch" THEN epoch ELSE m[x]]

Reach(m) ==
    /\ Len(stream) < MaxStream
    /\ \E age \in 0..Min({clock, MaxDelay}) : stream' = Append(stream, Stamp(m, clock - age))

Publish ==
    /\ \E m \in Records : Reach(m)
    /\ UNCHANGED <<group, acked, clock, readerVars>>

Tick ==
    /\ clock < MaxTime
    /\ clock' = clock + 1
    /\ UNCHANGED <<stream, group, acked, readerVars>>

IndexNext ==
    \/ \E k \in Starts :
        \/ Start(k) \/ Opened(k) \/ OpenFails(k) \/ Read(k) \/ Process(k) \/ Ack(k)
        \/ LoseReply(k) \/ Wake(k)
    \/ \E s \in Servers : Stop(s) \/ Clear(s) \/ EvictStale(s) \/ Crash(s)
    \/ Publish \/ Tick

---------------------------------------------------------------------------
(* queryAnchors: the messages of an agent, of a cycle, or of both. *)
QueryAnchors(s, agent, cycle) ==
    IF ~Running(s) THEN {}
    ELSE IF agent # NoOne /\ cycle # NoOne
         THEN Range(byAgent[s][agent]) \cap Range(byCycle[s][cycle])
    ELSE IF agent # NoOne THEN Range(byAgent[s][agent])
    ELSE IF cycle # NoOne THEN Range(byCycle[s][cycle])
    ELSE {}

---------------------------------------------------------------------------
Handed == {id \in DOMAIN stream : group # NoGroup /\ id <= group}
Entered(s) == {e.id : e \in Range(seen[s])}
InFlight(k) == IF loop[k] = "replied" THEN Range(batch[k]) ELSE {}

IndexTypeOK ==
    /\ Len(stream) <= MaxStream /\ \A id \in DOMAIN stream : stream[id].epoch \in 0..clock
    /\ group \in NoGroup..Len(stream)
    /\ acked \cup lost \subseteq Handed
    /\ clock \in 0..MaxTime
    /\ life \in [Servers -> Lives] /\ loop \in [Starts -> Phases]
    /\ awaited \in [Servers -> Starts \cup {NoLoop}] /\ redis \subseteq Servers
    /\ \A k \in Starts :
        /\ Range(batch[k]) \subseteq Handed /\ Len(batch[k]) <= ReadCount
        /\ (batch[k] # <<>>) = (loop[k] \in {"replied", "acking"})
    /\ \A s \in Servers : Len(entries[s]) <= MaxEntries

(***************************************************************************)
(* The three lists of a server agree: an agent's and a cycle's are the     *)
(* entries that name it, in order, so that no entry that left one of them  *)
(* (cap, age, stop) is still found through another; and the entries are    *)
(* the newest of those it was ever given, by whichever of its loops.  An   *)
(* entry is missing only when it was too old or MaxEntries younger ones    *)
(* came.  A process that is gone has none.  Source: redis-reader.ts:268    *)
(* (indexEntry, removeFromIndices, evictStale, stopRedisReader).           *)
(***************************************************************************)
IndexWhole ==
    \A s \in Servers :
        LET ids == [i \in DOMAIN entries[s] |-> entries[s][i].id] IN
        /\ \A a \in Agents \ {NoOne} :
            byAgent[s][a] = Picked(ids, {i \in DOMAIN ids : stream[ids[i]].agent = a})
        /\ \A c \in Cycles \ {NoOne} :
            byCycle[s][c] = Picked(ids, {i \in DOMAIN ids : stream[ids[i]].cycle = c})
        /\ IsSuffix(entries[s], seen[s])
        /\ life[s] = "gone" => entries[s] = <<>>
        /\ life[s] # "gone" => \A i \in 1..(Len(seen[s]) - Len(entries[s])) :
            \/ Len(seen[s]) - i >= MaxEntries
            \/ clock - seen[s][i].at > TTL

(***************************************************************************)
(* A message is given to one index once at most, and one the               *)
(* group has confirmed was given to an index: none is confirmed that was   *)
(* dropped by a stop, a crash, a failed reply or for its form.  Source:    *)
(* redis-reader.ts:200 (readLoop).                                         *)
(***************************************************************************)
ReadByOne ==
    /\ acked \cap (lost \cup UNION {InFlight(k) : k \in Starts}) = {}
    /\ \A k, r \in Starts : k # r => InFlight(k) \cap InFlight(r) = {}
    /\ \A s, t \in Servers :
        /\ s # t => Entered(s) \cap Entered(t) = {}
        /\ Entered(s) \cap (lost \cup UNION {InFlight(k) : k \in Starts}) = {}
        /\ IsInjective(seen[s])
===============================================================================
