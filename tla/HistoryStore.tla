---------------------------- MODULE HistoryStore ----------------------------
(***************************************************************************)
(* The telemetry history of crates/gateway/src/history.rs: a bounded ring  *)
(* in memory, a bounded queue to a writer thread, and a JSON-lines file    *)
(* that the thread appends to, compacts, and that a restart reloads.       *)
(*                                                                         *)
(* A message is the number it was recorded under.  What the file holds is  *)
(* a sequence of chunks, the text of one message each, with or without the *)
(* newline that ends its line: a chunk whose newline was not written runs  *)
(* into the next one, and the line they form together parses as neither.   *)
(***************************************************************************)
EXTENDS Naturals, Sequences, FiniteSets, SequencesExt

CONSTANTS
    Capacity,   \* history.capacity; the file is only used when it is positive
    QueueCap,   \* PERSIST_QUEUE, pending writes before new ones are dropped
    MaxMsgs,    \* bound: messages recorded in a behaviour
    MaxErrors   \* bound: file errors in one life of the process

ASSUME HistoryAssumption ==
    /\ Capacity \in Nat \ {0}
    /\ QueueCap \in Nat \ {0}
    /\ MaxMsgs \in Nat
    /\ MaxErrors \in Nat

VARIABLES
    mode,         \* "down", "up", "closing" (close() waits for the thread), "closed"
    next,         \* number of the next message
    ring,         \* HistoryStore.ring
    queue,        \* the sync_channel between record() and the writer thread
    pc,           \* writer thread: "recv", "batch", "compact", "done"
    kept,         \* writer_loop's copy of the newest Capacity messages
    buf,          \* chunks in the BufWriter
    orphan,       \* the thread's handle is on a file the path no longer names
    linesInFile,  \* writer_loop's count
    file,         \* chunks of the file the path names
    recorded, persisted, dropped, errors   \* HistoryStats of this process

memory == <<ring, queue, pc, kept, buf, orphan, linesInFile>>
stats == <<recorded, persisted, dropped, errors>>
vars == <<mode, next, memory, file, stats>>

Msg == 1 .. MaxMsgs
Torn == 0         \* the start of a message's text, cut by a crash
Chunk == [m : Msg \cup {Torn}, nl : BOOLEAN]
Line(m) == [m |-> m, nl |-> TRUE]
Lines(s) == [i \in 1 .. Len(s) |-> Line(s[i])]

-----------------------------------------------------------------------------
(* Helpers of the code. *)

\* Mutant: the ring lets one message too many in.
PushLate(s, m) == Append(IF Len(s) > Capacity THEN Tail(s) ELSE s, m)

\* Append, dropping the oldest when the deque is full.
Push(s, m) == Append(IF Len(s) >= Capacity THEN Tail(s) ELSE s, m)

\* Indices of the chunks that end a line (the last line may lack its newline).
Ends(c) == {i \in 1 .. Len(c) : c[i].nl \/ i = Len(c)}

\* Mutant: the oldest lines of the file are kept instead of the newest.
TailEndsOldest(c) == {i \in Ends(c) : Cardinality({j \in Ends(c) : j < i}) < Capacity}

\* read_tail: the newest Capacity lines, whether they will parse or not.
TailEnds(c) == {i \in Ends(c) : Cardinality({j \in Ends(c) : j > i}) < Capacity}

\* open: those of the tail's lines that are one whole message, in file order.
Parses(c, i) == c[i].m # Torn /\ (i = 1 \/ c[i - 1].nl)
Good(c) == {i \in TailEnds(c) : Parses(c, i)}
Nth(S, k) == CHOOSE i \in S : Cardinality({j \in S : j <= i}) = k
Reload(c) == [k \in 1 .. Cardinality(Good(c)) |-> c[Nth(Good(c), k)].m]

\* A write through the thread's handle reaches the named file or an orphan.
Sink(c) == IF orphan THEN file ELSE file \o c

-----------------------------------------------------------------------------
Init ==
    /\ mode = "down"
    /\ next = 1
    /\ ring = <<>> /\ queue = <<>> /\ pc = "done" /\ kept = <<>>
    /\ buf = <<>> /\ orphan = FALSE /\ linesInFile = 0
    /\ file = <<>>
    /\ recorded = 0 /\ persisted = 0 /\ dropped = 0 /\ errors = 0

\* Mutant: the file is truncated, the reloaded lines are not written back.
OpenTruncates ==
    /\ mode \in {"down", "closed"}
    /\ mode' = "up"
    /\ ring' = Reload(file) /\ kept' = Reload(file) /\ file' = <<>>
    /\ linesInFile' = 0
    /\ queue' = <<>> /\ buf' = <<>> /\ orphan' = FALSE /\ pc' = "recv"
    /\ recorded' = 0 /\ persisted' = 0 /\ dropped' = 0 /\ errors' = 0
    /\ UNCHANGED next

\* HistoryStore::open with a file: reload the tail, rewrite the file with what
\* parsed, start the writer thread with an empty queue.
Open ==
    /\ mode \in {"down", "closed"}
    /\ mode' = "up"
    /\ ring' = Reload(file)
    /\ kept' = Reload(file)
    /\ file' = Lines(Reload(file))
    /\ linesInFile' = Len(Reload(file))
    /\ queue' = <<>> /\ buf' = <<>> /\ orphan' = FALSE /\ pc' = "recv"
    /\ recorded' = 0 /\ persisted' = 0 /\ dropped' = 0 /\ errors' = 0
    /\ UNCHANGED next

\* Mutant: a full queue is not counted.
RecordUncounted ==
    /\ mode = "up" /\ next \in Msg
    /\ next' = next + 1
    /\ ring' = Push(ring, next)
    /\ recorded' = recorded + 1
    /\ queue' = IF Len(queue) < QueueCap THEN Append(queue, next) ELSE queue
    /\ UNCHANGED <<mode, pc, kept, buf, orphan, linesInFile, file, persisted, dropped, errors>>

\* HistoryStore::record, called by the one pipeline task while the store is open.
Record ==
    /\ mode = "up" /\ next \in Msg
    /\ next' = next + 1
    /\ ring' = Push(ring, next)
    /\ recorded' = recorded + 1
    /\ \/ /\ Len(queue) < QueueCap
          /\ queue' = Append(queue, next)
          /\ UNCHANGED dropped
       \/ /\ Len(queue) = QueueCap
          /\ dropped' = dropped + 1
          /\ UNCHANGED queue
    /\ UNCHANGED <<mode, pc, kept, buf, orphan, linesInFile, file, persisted, errors>>

\* Mutant: close() does not wait for the thread.
CloseWithoutJoin ==
    /\ mode = "up"
    /\ mode' = "closed"
    /\ UNCHANGED <<next, memory, file, stats>>

\* HistoryStore::close drops the sender and then waits for the thread.
Close ==
    /\ mode = "up"
    /\ mode' = "closing"
    /\ UNCHANGED <<next, memory, file, stats>>

-----------------------------------------------------------------------------
(* The writer thread. *)

Failing == errors < MaxErrors /\ errors' = errors + 1

\* Mutant: a failed write empties the buffer.
PartialFlushDiscards(b) ==
    /\ b # <<>>
    /\ \E k \in 0 .. Len(b) - 1 : file' = Sink(SubSeq(b, 1, k))
    /\ buf' = <<>>

\* A write of the buffer b that fails leaves what was not written in the buffer.
PartialFlush(b) ==
    \E k \in 0 .. Len(b) - 1 :
        /\ file' = Sink(SubSeq(b, 1, k))
        /\ buf' = SubSeq(b, k + 1, Len(b))

\* The line and its newline are buffered, after the buffer's content was
\* written out to make room for them or not.
WriteOk(m) ==
    /\ \/ file' = file /\ buf' = Append(buf, Line(m))
       \/ buf # <<>> /\ file' = Sink(buf) /\ buf' = <<Line(m)>>
    /\ persisted' = persisted + 1
    /\ linesInFile' = linesInFile + 1
    /\ UNCHANGED errors

\* Making room fails: before the text (the line is lost) or before its newline
\* (the text stays, unterminated).
WriteFails(m) ==
    /\ Failing
    /\ \/ PartialFlush(buf)
       \/ PartialFlush(Append(buf, [m |-> m, nl |-> FALSE]))
    /\ UNCHANGED <<persisted, linesInFile>>

Running == mode \in {"up", "closing"}

\* Mutant: a message whose write failed is not kept for the next compaction.
WriteNextForgetful ==
    /\ Running /\ pc \in {"recv", "batch"} /\ queue # <<>>
    /\ queue' = Tail(queue)
    /\ pc' = "batch"
    /\ \/ WriteOk(Head(queue)) /\ kept' = Push(kept, Head(queue))
       \/ WriteFails(Head(queue)) /\ kept' = kept
    /\ UNCHANGED <<mode, next, ring, orphan, file, recorded, dropped>>

\* One message of a batch: recv for the first, try_iter for the others.
WriteNext ==
    /\ Running /\ pc \in {"recv", "batch"} /\ queue # <<>>
    /\ queue' = Tail(queue)
    /\ pc' = "batch"
    /\ kept' = Push(kept, Head(queue))
    /\ WriteOk(Head(queue)) \/ WriteFails(Head(queue))
    /\ UNCHANGED <<mode, next, ring, orphan, recorded, dropped>>

\* Mutant: compaction is one line late.
EndBatchLate ==
    /\ Running /\ pc = "batch" /\ queue = <<>>
    /\ file' = Sink(buf) /\ buf' = <<>>
    /\ pc' = IF linesInFile > 2 * Capacity THEN "compact" ELSE "recv"
    /\ UNCHANGED <<mode, next, ring, queue, kept, orphan, linesInFile, stats>>

\* The queue is found empty: flush once, then compact if the file is long.
EndBatch ==
    /\ Running /\ pc = "batch" /\ queue = <<>>
    /\ \/ file' = Sink(buf) /\ buf' = <<>> /\ UNCHANGED errors
       \/ Failing /\ PartialFlush(buf)
    /\ pc' = IF linesInFile >= 2 * Capacity THEN "compact" ELSE "recv"
    /\ UNCHANGED <<mode, next, ring, queue, kept, orphan, linesInFile, recorded, persisted, dropped>>

\* Compaction: rewrite a sibling file, rename it over, reopen for appending.
Compact ==
    /\ Running /\ pc = "compact"
    /\ pc' = "recv"
    /\ \/ /\ file' = Lines(kept) /\ buf' = <<>> /\ orphan' = FALSE
          /\ linesInFile' = Len(kept)
          /\ UNCHANGED errors
       \/ Failing /\ UNCHANGED <<file, buf, orphan, linesInFile>>
       \/ /\ Failing
          /\ file' = Lines(kept) /\ orphan' = TRUE
          /\ UNCHANGED <<buf, linesInFile>>
    /\ UNCHANGED <<mode, next, ring, queue, kept, recorded, persisted, dropped>>

\* A write of the buffer that ends anywhere: some of its chunks are in the file
\* and the next one may be there in part.
WriteCutShort ==
    \E k \in 0 .. Len(buf) :
        \/ file' = Sink(SubSeq(buf, 1, k))
        \/ /\ k < Len(buf)
           /\ file' = Sink(Append(SubSeq(buf, 1, k), [m |-> Torn, nl |-> FALSE]))

\* Mutant: the thread looks for the closed channel only while it drains.
WriterExitDraining ==
    /\ mode = "closing" /\ pc = "batch" /\ queue = <<>>
    /\ file' = Sink(buf)
    /\ mode' = "closed" /\ pc' = "done" /\ buf' = <<>>
    /\ UNCHANGED <<next, ring, queue, kept, orphan, linesInFile, stats>>

\* recv fails once the sender is gone and the queue empty: last flush, and the
\* dropped BufWriter tries once more with what a failed flush left.
WriterExit ==
    /\ mode = "closing" /\ pc = "recv" /\ queue = <<>>
    /\ \/ file' = Sink(buf) /\ UNCHANGED errors
       \/ Failing /\ buf # <<>> /\ WriteCutShort
    /\ mode' = "closed" /\ pc' = "done" /\ buf' = <<>>
    /\ UNCHANGED <<next, ring, queue, kept, orphan, linesInFile, recorded, persisted, dropped>>

\* The process dies, perhaps in the middle of a write of the buffer.
Crash ==
    /\ Running
    /\ mode' = "down"
    /\ WriteCutShort
    /\ ring' = <<>> /\ queue' = <<>> /\ pc' = "done" /\ kept' = <<>>
    /\ buf' = <<>> /\ orphan' = FALSE /\ linesInFile' = 0
    /\ recorded' = 0 /\ persisted' = 0 /\ dropped' = 0 /\ errors' = 0
    /\ UNCHANGED next

Writer == WriteNext \/ EndBatch \/ Compact \/ WriterExit
Next == Open \/ Record \/ Close \/ Writer \/ Crash

Spec == Init /\ [][Next]_vars

\* The writer thread is scheduled by the operating system and waits for nothing
\* but its queue.
FairSpec == Spec /\ WF_vars(Writer)

-----------------------------------------------------------------------------
(* Properties. *)

HasProcess == mode \in {"up", "closing", "closed"}

TypeOK ==
    /\ mode \in {"down", "up", "closing", "closed"}
    /\ next \in 1 .. MaxMsgs + 1
    /\ ring \in Seq(Msg) /\ kept \in Seq(Msg) /\ queue \in Seq(Msg)
    /\ Len(ring) <= Capacity /\ Len(kept) <= Capacity /\ Len(queue) <= QueueCap
    /\ pc \in {"recv", "batch", "compact", "done"}
    /\ buf \in Seq(Chunk) /\ file \in Seq(Chunk)
    /\ orphan \in BOOLEAN
    /\ linesInFile \in Nat
    /\ recorded \in Nat /\ persisted \in Nat /\ dropped \in Nat
    /\ errors \in 0 .. MaxErrors

\* No message disappears without a counter showing it: what record() accepted is
\* written, waiting in the queue, dropped for a full queue, or behind an error.
Accounted ==
    /\ persisted + dropped + Len(queue) <= recorded
    /\ recorded <= persisted + dropped + errors + Len(queue)

\* Until a write is dropped, the ring readers see and the copy the writer thread
\* compacts from agree: the thread's copy followed by the queue ends in the ring.
Newest(s) == SubSeq(s, IF Len(s) > Capacity THEN Len(s) - Capacity + 1 ELSE 1, Len(s))
RingMirrorsWriter == HasProcess /\ dropped = 0 => Newest(kept \o queue) = ring

\* Until a file operation fails, reloading the file and the buffered rest of it
\* gives the thread's copy, through batches, flushes, compactions and restarts.
FileMirrorsKept == HasProcess /\ errors = 0 => Reload(file \o buf) = kept

\* After a close with nothing dropped and no error, a restart reloads exactly
\* the ring the process had.
CloseLosesNothing ==
    mode = "closed" /\ errors = 0 /\ dropped = 0 => Reload(file) = ring

\* A failed write costs at most two messages: the one written, and the next one
\* if the failure left a line without its newline.
LossBoundedByErrors ==
    Running /\ ~orphan
        => Cardinality(ToSet(kept) \ ToSet(Reload(file \o buf))) <= 2 * errors

\* Between batches the file has been brought back under twice the capacity.
IdleFileBounded ==
    Running /\ pc = "recv" /\ errors = 0 => Len(file) + Len(buf) < 2 * Capacity

\* What a restart would reload stays so through flush, compaction, crash and
\* restart until newer messages displace it (the torn line of a crash may take
\* the place of one of them).
NoDurableLoss ==
    [][\A m \in ToSet(Reload(file)) \ ToSet(Reload(file')) :
          errors > 0 \/ Cardinality({n \in ToSet(Reload(file')) : n > m}) >= Capacity - 1]_file

\* close() returns: the writer thread drains its queue and ends.
CloseCompletes == mode = "closing" ~> mode # "closing"

\* What the module's header says (history.rs:11): compaction keeps the file at
\* twice the capacity at most.
FileNeverOverTwice == Cardinality(Ends(file)) <= 2 * Capacity
=============================================================================
