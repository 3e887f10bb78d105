---------------------------- MODULE WriteAheadLog ----------------------------
(***************************************************************************)
(* The write-ahead log of the TypeScript SDK (swt3-ai-ts/src/wal.ts): a     *)
(* file of one JSON entry per line, a checkpoint file, and the set of       *)
(* fingerprints that replay protection keeps in memory.  DurableBuffer puts *)
(* it under the flush buffer.                                               *)
(*                                                                          *)
(* Only the lines a reader can parse are kept in the sequence file.  A line *)
(* written in part has no newline, so the next entry is written onto it and *)
(* neither can be read (wal.ts:101, 194-201).                               *)
(***************************************************************************)
EXTENDS Naturals, Sequences, SequencesExt, FiniteSetsExt, Subsequences

CONSTANTS
    Anchor,        \* fingerprints; every minted payload has one
    ReplayWindow,  \* how many fingerprints replay protection remembers
    RotateAt       \* entries that make the file large enough to rotate

VARIABLES
    file,        \* disk: the readable entries, in the order they were written
    tail,        \* disk: how the file ends
    ckpt,        \* disk: the checkpoint file
    seq,         \* memory: last sequence number given out
    checkpoint,  \* memory: last checkpoint known
    seen         \* memory: the replay set, oldest first

disk   == <<file, tail, ckpt>>
memory == <<seq, checkpoint, seen>>

Entry == [seq : Nat \ {0}, anchor : Anchor]

\*   clean  the file ends with a newline, or is empty
\*   piece  it ends with part of an entry
\*   bare   it ends with a whole entry, but no newline: still readable
Tails == {"clean", "piece", "bare"}

Seen(a) == a \in Range(seen)

\* Definitions marked "Fault:" are the same code with one mistake in it.  They
\* are no part of the specification: each is what some property rules out.

\* Fault: nothing is evicted.
RememberAll(s, a) == IF a \in Range(s) THEN s ELSE Append(s, a)

\* _addToReplaySet: the oldest go when the set is over the window.
Remember(s, a) ==
    IF a \in Range(s) THEN s
    ELSE LET t == Append(s, a)
         IN  IF Len(t) > ReplayWindow THEN Tail(t) ELSE t

\* Fault: the newline is written before the entry, not after it.
WriteLineBare(e) ==
    /\ tail' = "bare"
    /\ file' = IF tail = "bare" THEN Front(file) ELSE Append(file, e)

\* A whole line reaches the file, onto whatever stands there without a newline.
WriteLine(e) ==
    /\ tail' = "clean"
    /\ file' = CASE tail = "clean" -> Append(file, e)
                 [] tail = "piece" -> file
                 [] tail = "bare"  -> Front(file)

\* A write that is cut short: nothing, part of the line, or all but its newline.
WriteTorn(e) ==
    \/ UNCHANGED <<file, tail>>
    \/ /\ tail' = "piece"
       /\ file' = IF tail = "bare" THEN Front(file) ELSE file
    \/ /\ tail = "clean"
       /\ tail' = "bare"
       /\ file' = Append(file, e)

\* append: replay protection, then the entry, then the fingerprint.
Log(a) ==
    /\ ~Seen(a)
    /\ seq' = seq + 1
    /\ WriteLine([seq |-> seq + 1, anchor |-> a])
    /\ seen' = Remember(seen, a)
    /\ UNCHANGED <<checkpoint, ckpt>>

\* append, when the file system refuses the write: the number is used up.
LogFails(a) ==
    /\ ~Seen(a)
    /\ seq' = seq + 1
    /\ WriteTorn([seq |-> seq + 1, anchor |-> a])
    /\ UNCHANGED <<checkpoint, ckpt, seen>>

\* Fault: the entry next to the checkpoint counts as flushed.
AfterNext(n) == Picked(file, {i \in DOMAIN file : file[i].seq > n + 1})

\* The entries a filter on the checkpoint n keeps.
After(n) == Picked(file, {i \in DOMAIN file : file[i].seq > n})

\* _maybeRotate: a large file is rewritten with the entries after n.
Rotate(n) ==
    IF Len(file) < RotateAt THEN UNCHANGED <<file, tail>>
    ELSE file' = After(n) /\ tail' = "clean"

\* markFlushed(n).
Mark(n) ==
    IF n <= checkpoint THEN UNCHANGED <<disk, memory>>
    ELSE /\ checkpoint' = n
         /\ ckpt' = n
         /\ Rotate(n)
         /\ UNCHANGED <<seq, seen>>

\* markFlushed(n), when the file system refuses the checkpoint or the rotation
\* after it: the number in memory has moved all the same.
MarkFails(n) ==
    /\ n > checkpoint
    /\ checkpoint' = n
    /\ ckpt' \in {ckpt, n}
    /\ UNCHANGED <<file, tail, seq, seen>>

\* The replay set, once the first i fingerprints in the file were added to it.
Reread == LET set[i \in 0..Len(file)] ==
                  IF i = 0 THEN <<>> ELSE Remember(set[i - 1], file[i].anchor)
          IN  set

\* The constructor: the checkpoint, the largest number in the file, and the
\* fingerprints in it.
Open ==
    /\ checkpoint' = ckpt
    /\ seq' = Max({0} \cup {file[i].seq : i \in DOMAIN file})
    /\ seen' = Reread[Len(file)]
    /\ UNCHANGED disk

\* The process is gone, and its memory with it.
Forget ==
    /\ seq' = 0
    /\ checkpoint' = 0
    /\ seen' = <<>>

Init ==
    /\ file = <<>>
    /\ tail = "clean"
    /\ ckpt = 0
    /\ seq = 0
    /\ checkpoint = 0
    /\ seen = <<>>

-----------------------------------------------------------------------------
\* Numbers in the file grow from line to line: the reader's filter on the
\* checkpoint splits the file in two, and Open finds the last number given out.
LogOrdered ==
    \A i, j \in DOMAIN file : i < j => file[i].seq < file[j].seq

LogTypeOK ==
    /\ file \in Seq(Entry)
    /\ tail \in Tails
    /\ tail = "bare" => file # <<>>
    /\ ckpt \in Nat
    /\ seq \in Nat
    /\ checkpoint \in Nat
    /\ seen \in Seq(Anchor)
    /\ Len(seen) <= ReplayWindow
=============================================================================
