---------------------------- MODULE SharedWriter ----------------------------
(***************************************************************************)
(* SharedWriter, the file of recorded requests of an RPCServer: requests   *)
(* queue entries under m_, a thread of its own takes them under m_ and     *)
(* writes them without it, and Reset() closes and reopens the file.        *)
(* Entries are the numbers of the calls of Write().  The stream is shared  *)
(* by Reset() and the thread without a lock: an entry is taken to be       *)
(* written before, between or after the close and the open.                *)
(***************************************************************************)
EXTENDS Integers, SequencesExt

CONSTANTS MaxEntries, MaxResets   \* bounds: calls of Write() and of Reset()

VARIABLES
  w,      \* entries_, the file and its state, whether Reset() holds m_,
          \* whether Flush() has a batch, and whether an ASSERT has failed
  batch,  \* entries of Flush(): what it has taken and not written
  hist    \* history: calls of Write() and Reset(), the entries written before
          \* the last Reset(), and those of them that it found in the batch

vars == <<w, batch, hist>>

Init ==
  /\ w = [entries |-> <<>>, file |-> <<>>, open |-> TRUE, fail |-> FALSE, locked |-> FALSE,
          flushing |-> FALSE, aborted |-> FALSE]
  /\ batch = <<>>
  /\ hist = [written |-> 0, resets |-> 0, before |-> 0, torn |-> {}]

Free == ~w.locked /\ ~w.aborted   \* m_ can be had, and the process runs

Write ==
  /\ Free /\ hist.written < MaxEntries
  /\ w' = [w EXCEPT !.entries = Append(@, hist.written + 1)]
  /\ hist' = [hist EXCEPT !.written = @ + 1]
  /\ UNCHANGED batch

\* Reset() under m_: entries_.clear() and close(), then open(), which clears
\* the state of the stream.
ResetClose ==
  /\ Free /\ hist.resets < MaxResets
  /\ w' = [w EXCEPT !.entries = <<>>, !.open = FALSE, !.locked = TRUE]
  /\ hist' = [hist EXCEPT !.resets = @ + 1, !.before = hist.written, !.torn = ToSet(batch)]
  /\ UNCHANGED batch

ResetOpen ==
  /\ w.locked /\ ~w.aborted
  /\ w' = [w EXCEPT !.file = <<>>, !.open = TRUE, !.fail = FALSE, !.locked = FALSE]
  /\ UNCHANGED <<batch, hist>>

\* A bug: a single entry waits for a second one.
GetEntries_Several ==
  /\ Free /\ ~w.flushing /\ Len(w.entries) > 1
  /\ batch' = w.entries /\ w' = [w EXCEPT !.entries = <<>>, !.flushing = TRUE]
  /\ UNCHANGED hist

\* Flush(): swap under m_, then each entry; a closed stream takes none and
\* fails; then ASSERT(!file_.fail()).
GetEntries ==
  /\ Free /\ ~w.flushing /\ w.entries # <<>>
  /\ batch' = w.entries /\ w' = [w EXCEPT !.entries = <<>>, !.flushing = TRUE]
  /\ UNCHANGED hist

FlushEntry ==
  /\ ~w.aborted /\ batch # <<>>
  /\ w' = IF w.open /\ ~w.fail THEN [w EXCEPT !.file = Append(@, Head(batch))]
          ELSE [w EXCEPT !.fail = TRUE]
  /\ batch' = Tail(batch)
  /\ UNCHANGED hist

FlushCheck ==
  /\ ~w.aborted /\ w.flushing /\ batch = <<>>
  /\ w' = [w EXCEPT !.flushing = FALSE, !.aborted = w.fail]
  /\ UNCHANGED <<batch, hist>>

Flush == GetEntries \/ FlushEntry \/ FlushCheck

Next == Write \/ ResetClose \/ ResetOpen \/ Flush

\* The thread of Flush() runs, and Reset() ends.
Spec == Init /\ [][Next]_vars /\ WF_vars(Flush) /\ WF_vars(ResetOpen)

-----------------------------------------------------------------------------
\* The entries since the last Reset() are in the file, the batch and the queue,
\* each once and in order, and before them only entries that this Reset() found
\* in the batch; and only if it found some does the process abort.
EntriesConserved ==
  LET all == w.file \o batch \o w.entries
      old == SelectSeq(all, LAMBDA n : n <= hist.before)
  IN  /\ Free => /\ all = old \o [i \in 1 .. hist.written - hist.before |-> hist.before + i]
                 /\ ToSet(old) \subseteq hist.torn
                 /\ \A i \in 2 .. Len(old) : old[i - 1] < old[i]
      /\ w.aborted => hist.torn # {}

\* An entry reaches the file, unless a Reset() comes after it or the process
\* has aborted.
EntriesReachFile ==
  \A n \in 1 .. MaxEntries :
    hist.written >= n ~> n \in ToSet(w.file) \/ hist.before >= n \/ w.aborted
=============================================================================
