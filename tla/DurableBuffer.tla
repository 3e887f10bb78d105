---------------------------- MODULE DurableBuffer ----------------------------
(***************************************************************************)
(* The flush buffer with a write-ahead log under it, as the Witness          *)
(* constructor builds it when walPath is given (witness.ts:775-793), through *)
(* crashes and restarts of the process.                                      *)
(*                                                                          *)
(* A payload object in memory is the anchor it carries and the number its   *)
(* log entry has; walSeqMap is that number, for as long as the object is    *)
(* tracked.  A new process starts with a new buffer: the histories of        *)
(* FlushBuffer are those of one life of the process.                         *)
(***************************************************************************)
EXTENDS Naturals, Sequences, SequencesExt, FiniteSetsExt

CONSTANTS
    Anchor, ReplayWindow, RotateAt,          \* of the log
    BufferSize, MaxRetries, MaxRetryBuffer,  \* of the buffer
    MaxSeq,                                  \* bound: no new anchor after it
    MaxFaults                                \* bound: crashes and failed writes

ASSUME DurableBufferAssumption ==
    {ReplayWindow, RotateAt, BufferSize, MaxRetries, MaxRetryBuffer, MaxSeq,
     MaxFaults} \subseteq Nat

\* A payload object, with the number of its log entry.
Item == [anchor : Anchor, seq : Nat \ {0}]

VARIABLES
    queue, deadLetter, tokens, stopped, flights, accepted, delivered,
    receipts, notified, refused, dropped, failed, stored, duplicated,
    file, tail, ckpt, seq, checkpoint, seen,
    up,          \* the process runs
    recovering,  \* entries recover() returned, not yet through enqueueMany
    tracked,     \* keys of walSeqMap
    mangled,     \* history: objects whose entry was written onto a torn line
    faults       \* history: crashes and failed writes so far

Buffer == INSTANCE FlushBuffer WITH
    Payload     <- Item,
    Conforming  <- Item,
    Tokens      <- [p \in Item |-> 0],
    TokenBudget <- 1

Wal == INSTANCE WriteAheadLog

buffer == <<queue, deadLetter, tokens, stopped, flights, accepted, delivered,
            receipts, notified, refused, dropped, failed, stored, duplicated>>
log  == <<file, tail, ckpt, seq, checkpoint, seen>>
life == <<up, recovering, tracked, mangled, faults>>
vars == <<buffer, log, life>>

\* The constructor and enqueueMany run without interruption: nothing else does
\* until recovery is through.
Running == up /\ recovering = <<>>

\* The objects that are still to be sent, and those with an outcome.
Live == Range(queue) \cup Range(deadLetter)
        \cup UNION {Range(f.batch) : f \in Buffer!Sending}

-----------------------------------------------------------------------------
\* enqueue of an anchor the log does not know; a known one is skipped.
Submit(a) ==
    LET item == [anchor |-> a, seq |-> seq + 1]
    IN  /\ Wal!Log(a)
        /\ Buffer!Enqueue(item)
        /\ tracked' = tracked \cup {item}
        /\ mangled' = IF tail = "clean" THEN mangled ELSE mangled \cup {item}

Enqueue(a) ==
    /\ Running
    /\ seq < MaxSeq
    /\ Submit(a)
    /\ UNCHANGED <<up, recovering, faults>>

\* enqueue throws in the log's append: the caller gets the error.
EnqueueThrows(a) ==
    /\ Running
    /\ ~stopped
    /\ faults < MaxFaults
    /\ seq < MaxSeq
    /\ Wal!LogFails(a)
    /\ faults' = faults + 1
    /\ UNCHANGED <<buffer, up, recovering, tracked, mangled>>

LastSeq(f) == Max({0} \cup {p.seq : p \in Range(f.batch) \cap tracked})

\* A flight that succeeds marks the log up to the largest number it carries.
Credit(f) ==
    /\ Running
    /\ Buffer!Credit(f)
    /\ Wal!Mark(LastSeq(f))
    /\ tracked' = tracked \ Range(f.batch)
    /\ UNCHANGED <<up, recovering, mangled, faults>>

\* The answer is one that Credit takes for a success.
Answered(f) == f.at \in {"stored", "errored"}

\* markFlushed throws: the receipts are recorded and the numbers forgotten, and
\* then the attempt counts as failed.
CreditThrows(f) ==
    /\ Running
    /\ faults < MaxFaults
    /\ Answered(f)
    /\ Buffer!AttemptLost(f)
    /\ receipts' = IF f.at = "stored" THEN receipts \cup Range(f.batch)
                                      ELSE receipts
    /\ Wal!MarkFails(LastSeq(f))
    /\ tracked' = tracked \ Range(f.batch)
    /\ faults' = faults + 1
    /\ UNCHANGED <<up, recovering, mangled>>

\* Everything the log has no part in.
Rest ==
    /\ Running
    /\ \/ Buffer!TimerFires \/ Buffer!Flush \/ Buffer!Stop
       \/ \E f \in flights :
            \/ Buffer!AnswerStored(f) \/ Buffer!AnswerError(f)
            \/ Buffer!AttemptFails(f) \/ Buffer!Resend(f)
            \/ Buffer!Refuse(f) \/ Buffer!Notify(f)
       \/ \E p \in failed : Buffer!LateArrival(p)
    /\ UNCHANGED <<log, life>>

-----------------------------------------------------------------------------
\* An empty buffer with empty histories: Buffer!Init of the next life.
NewBuffer ==
    /\ queue' = <<>> /\ deadLetter' = <<>> /\ tokens' = 0 /\ stopped' = FALSE
    /\ flights' = {} /\ accepted' = <<>>
    /\ delivered' = {} /\ receipts' = {} /\ notified' = {} /\ refused' = {}
    /\ dropped' = {} /\ failed' = {} /\ stored' = {} /\ duplicated' = {}

\* The process dies and its memory is lost.
Die ==
    /\ up
    /\ faults < MaxFaults
    /\ faults' = faults + 1
    /\ up' = FALSE
    /\ recovering' = <<>>
    /\ tracked' = {}
    /\ mangled' = {}
    /\ NewBuffer
    /\ Wal!Forget

Crash == Die /\ UNCHANGED <<file, tail, ckpt>>

\* It dies while an entry is written ...
CrashLogging(a) ==
    /\ Die
    /\ ~stopped
    /\ recovering # <<>> => a = Head(recovering).anchor
    /\ ~Wal!Seen(a)
    /\ seq < MaxSeq
    /\ Wal!WriteTorn([seq |-> seq + 1, anchor |-> a])
    /\ UNCHANGED ckpt

\* ... or after the checkpoint is renamed into place, before the rotation.
CrashMarking(f) ==
    /\ Die
    /\ recovering = <<>>
    /\ Answered(f)
    /\ LastSeq(f) > checkpoint
    /\ ckpt' = LastSeq(f)
    /\ UNCHANGED <<file, tail>>

\* The Witness constructor opens the log and asks it for what was not flushed.
Restart ==
    /\ ~up
    /\ up' = TRUE
    /\ Wal!Open
    /\ recovering' = Wal!After(ckpt)
    /\ UNCHANGED <<buffer, tracked, mangled, faults>>

\* enqueueMany: one recovered payload goes through enqueue like any other.
Recover ==
    /\ up
    /\ recovering # <<>>
    /\ recovering' = Tail(recovering)
    /\ LET a == Head(recovering).anchor
       IN  IF Wal!Seen(a)
           THEN UNCHANGED <<buffer, log, tracked, mangled>>
           ELSE Submit(a)
    /\ UNCHANGED <<up, faults>>

Init ==
    /\ Buffer!Init
    /\ Wal!Init
    /\ up = TRUE
    /\ recovering = <<>>
    /\ tracked = {}
    /\ mangled = {}
    /\ faults = 0

Next ==
    \/ \E a \in Anchor : Enqueue(a) \/ EnqueueThrows(a) \/ CrashLogging(a)
    \/ \E f \in flights : Credit(f) \/ CreditThrows(f) \/ CrashMarking(f)
    \/ Rest
    \/ Crash
    \/ Restart
    \/ Recover

Spec == Init /\ [][Next]_vars

-----------------------------------------------------------------------------
TypeOK ==
    /\ Buffer!TypeOK
    /\ Wal!LogTypeOK
    /\ up \in BOOLEAN
    /\ recovering \in Seq(Wal!Entry)
    /\ tracked \subseteq Item
    /\ mangled \subseteq Item
    /\ faults \in 0..MaxFaults

\* Written ahead: the numbers in the log grow from line to line, over crashes and
\* restarts, and a payload that is still to be sent can be read back from it, unless
\* a flush has put it at or below the checkpoint, or its line was spoiled by the one
\* before it.  A line torn by a crash or a failed write spoils one payload, not more.
WrittenAhead ==
    /\ Wal!LogOrdered /\ (up => \A i \in DOMAIN file : file[i].seq <= seq)
    /\ \A p \in Live :
        \/ p \in Range(file)
        \/ p.seq <= checkpoint
        \/ p \in mangled
    /\ Cardinality(mangled) <= faults

\* What a process that starts now would read back (recover, wal.ts:132-146).
Replayable == {e \in Range(file) : e.seq > ckpt}

\* An entry stops being replayable in two ways only: an answered flight with a
\* tracked payload of the same or a larger number is marked, or the entry stood at
\* the end of the file without its newline.  No rotation, crash, failed write or
\* restart takes one, and the checkpoint never moves back.  That the entry itself was
\* sent is not said, for it is not so: a flight that is answered first moves the
\* checkpoint over the entries of an older one (buffer.ts:187).
TakenByAnswer ==
    [][/\ ckpt' >= ckpt
       /\ \A e \in Replayable :
            \/ e \in Replayable'
            \/ tail = "bare" /\ e = Last(file)
            \/ \E f \in flights : Answered(f) /\
                 \E p \in Range(f.batch) \cap tracked :
                     ckpt' = p.seq /\ e.seq <= p.seq]_vars

\* An entry in the log that was never confirmed as flushed is in the buffer
\* again once a restarted process is through its recovery (wal.ts:4-6, 129-130).
\* A line without its newline is left out: the write that left it was refused, and
\* the caller was told so.  The code breaks it (wal.ts:90).
UnsentReplayed ==
    Running =>
        \A e \in Replayable :
            ~(tail = "bare" /\ e = Last(file)) =>
                \E p \in Live \cup delivered \cup refused \cup dropped :
                    p.anchor = e.anchor

=============================================================================
