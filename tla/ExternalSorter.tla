--------------------------- MODULE ExternalSorter ---------------------------
(***************************************************************************)
(* The external merge sort that feeds the bulk loader                      *)
(* (src/xrtree/BulkLoader.cc). Records are inserted into a buffer; a full  *)
(* buffer is sorted and written to a temporary file, a run; sort() merges  *)
(* at most BufferPages runs at a time until one file is left;              *)
(* getNextRecord() then hands the records out one by one.                  *)
(*                                                                         *)
(* A record is known by its number in the order of insertion, which leads  *)
(* to its sort key; what else it holds is only carried along. A run is     *)
(* what is left to read of its file, with the end-of-file flag of the      *)
(* reader, which is set when a read fails and not when the last record is  *)
(* read.                                                                   *)
(***************************************************************************)
EXTENDS Integers, Sequences, SequencesExt, Functions

CONSTANTS
  Key,          \* the sort keys
  PageSize,     \* m_u32PageSize: records per page
  BufferPages,  \* m_u32BufferPages
  Inputs        \* bound: the keys of the records inserted, in order

ASSUME KeyAssumption == Key \subseteq Int
ASSUME SizeAssumption == PageSize \in Nat \ {0} /\ BufferPages \in Nat \ {0}

VARIABLES
  phase,       \* "insertion", "merging" (inside sort()), "sorted"
  buffer,      \* m_buffer, from m_stI on
  runs,        \* m_runs
  sortedFile,  \* m_sortedFile
  pass,        \* the merge pass in progress
  inserted,    \* the keys of the records; m_u64TotalEntries of them
  \* for the properties only:
  returned,    \* what getNextRecord returned
  ended        \* getNextRecord has reported the end

vars == <<phase, buffer, runs, sortedFile, pass, inserted, returned, ended>>

NoFile == [unread |-> <<>>, eof |-> TRUE]
NoPass == [heads |-> <<>>, buffers |-> <<>>, out |-> <<>>]

Record == 1 .. Len(inserted)
Capacity == PageSize * BufferPages

(* std::sort: one of the orders in which no record comes before a smaller. *)
IsAscending(s, keys) == \A i, j \in DOMAIN s : i < j => keys[s[i]] <= keys[s[j]]
Arranged(s) == {[i \in DOMAIN s |-> s[p[i]]] : p \in Bijection(DOMAIN s, DOMAIN s)}

(* A bug: the comparison is the wrong way round. *)
Descending(s, keys) ==
  {t \in Arranged(s) : \A i, j \in DOMAIN t : i < j => keys[t[j]] <= keys[t[i]]}

Ascending(s, keys) == {t \in Arranged(s) : IsAscending(t, keys)}

Run(s) == [unread |-> s, eof |-> FALSE]

(* k reads from a file, stopped by the first one that fails. *)
Got(file, k) == SubSeq(file.unread, 1, IF k <= Len(file.unread) THEN k ELSE Len(file.unread))
After(file, k) ==
  [unread |-> SubSeq(file.unread, Len(Got(file, k)) + 1, Len(file.unread)),
   eof |-> file.eof \/ Len(file.unread) < k]

Init ==
  /\ phase = "insertion"
  /\ buffer = <<>>
  /\ runs = <<>>
  /\ sortedFile = NoFile
  /\ pass = NoPass
  /\ inserted = <<>>
  /\ returned = <<>>
  /\ ended = FALSE

-----------------------------------------------------------------------------
(* insert: a buffer of BufferPages pages becomes a run. *)
Insert(key) ==
  /\ phase = "insertion"
  /\ inserted' = Append(inserted, key)
  /\ \E input \in Inputs : IsPrefix(inserted', input)      \* bound
  /\ LET filled == Append(buffer, Len(inserted'))
     IN IF Len(filled) >= Capacity
        THEN /\ \E sorted \in Ascending(filled, inserted') : runs' = Append(runs, Run(sorted))
             /\ buffer' = <<>>
        ELSE buffer' = filled /\ UNCHANGED runs
  /\ UNCHANGED <<phase, sortedFile, pass, returned, ended>>

(* sort() when no run was written. *)
SortInMemory ==
  /\ phase = "insertion"
  /\ runs = <<>>
  /\ buffer' \in Ascending(buffer, inserted)
  /\ phase' = "sorted"
  /\ UNCHANGED <<runs, sortedFile, pass, inserted, returned, ended>>

(* sort() otherwise: the rest of the buffer is the last run, and a single  *)
(* run is the sorted file.                                                 *)
(* A bug: the bucket that is not full is forgotten. *)
FullRuns(rest) == runs
LastRuns(rest) == IF rest = <<>> THEN runs ELSE Append(runs, Run(rest))

SortRuns ==
  /\ phase = "insertion"
  /\ runs # <<>>
  /\ buffer' = <<>>
  /\ \E rest \in Ascending(buffer, inserted) :
       IF Len(LastRuns(rest)) = 1
       THEN phase' = "sorted" /\ sortedFile' = LastRuns(rest)[1] /\ runs' = <<>>
       ELSE phase' = "merging" /\ runs' = LastRuns(rest) /\ UNCHANGED sortedFile
  /\ UNCHANGED <<pass, inserted, returned, ended>>

-----------------------------------------------------------------------------
(* A merge pass over the first runs: a page of each is read, its first     *)
(* record goes into the priority queue.                                    *)
(* A bug: one buffer page is set aside for the output. *)
MergedLess == IF Len(runs) < BufferPages THEN Len(runs) ELSE BufferPages - 1
Merged == IF Len(runs) <= BufferPages THEN Len(runs) ELSE BufferPages

(* A bug: a whole page is buffered besides the record in the queue. *)
BeginPassMore ==
  /\ phase = "merging"
  /\ pass = NoPass
  /\ pass' = [heads |-> [i \in 1 .. Merged |-> <<Head(runs[i].unread)>>],
              buffers |-> [i \in 1 .. Merged |-> Tail(Got(runs[i], PageSize + 1))],
              out |-> <<>>]
  /\ runs' = [i \in 1 .. Len(runs) |->
                IF i <= Merged THEN After(runs[i], PageSize + 1) ELSE runs[i]]
  /\ UNCHANGED <<phase, buffer, sortedFile, inserted, returned, ended>>

BeginPass ==
  /\ phase = "merging"
  /\ pass = NoPass
  /\ pass' = [heads |-> [i \in 1 .. Merged |-> <<Head(runs[i].unread)>>],
              buffers |-> [i \in 1 .. Merged |-> Tail(Got(runs[i], PageSize))],
              out |-> <<>>]
  /\ runs' = [i \in 1 .. Len(runs) |->
                IF i <= Merged THEN After(runs[i], PageSize) ELSE runs[i]]
  /\ UNCHANGED <<phase, buffer, sortedFile, inserted, returned, ended>>

(* The priority queue: at most one record of each run. Its comparison is   *)
(* "less than", so its top is the largest.                                 *)
Queued == {i \in DOMAIN pass.heads : pass.heads[i] # <<>>}
Top(i) == i \in Queued /\ \A j \in Queued : inserted[pass.heads[j][1]] <= inserted[pass.heads[i][1]]

(* Whether the buffer of run i is to be read again from its file. *)
Refills(i) == ~runs[i].eof /\ pass.buffers[i] = <<>>

(* A bug: the next record is looked for before the buffer is read again. *)
MergeStepDrops(i) ==
  /\ phase = "merging"
  /\ Top(i)
  /\ LET page == pass.buffers[i]
         more == page # <<>>
     IN pass' = [heads |-> [pass.heads EXCEPT ![i] = IF more THEN <<Head(page)>> ELSE <<>>],
                 buffers |-> [pass.buffers EXCEPT ![i] = IF more THEN Tail(page) ELSE Got(runs[i], PageSize)],
                 out |-> Append(pass.out, pass.heads[i][1])]
  /\ runs' = IF Refills(i) THEN [runs EXCEPT ![i] = After(@, PageSize)] ELSE runs
  /\ UNCHANGED <<phase, buffer, sortedFile, inserted, returned, ended>>

(* One turn of the loop: the top is written, the buffer of its run refilled *)
(* if it is empty, and the next record of that run queued.                 *)
MergeStep(i) ==
  /\ phase = "merging"
  /\ Top(i)
  /\ LET page == IF Refills(i) THEN Got(runs[i], PageSize) ELSE pass.buffers[i]
         more == page # <<>>
     IN pass' = [heads |-> [pass.heads EXCEPT ![i] = IF more THEN <<Head(page)>> ELSE <<>>],
                 buffers |-> [pass.buffers EXCEPT ![i] = IF more THEN Tail(page) ELSE <<>>],
                 out |-> Append(pass.out, pass.heads[i][1])]
  /\ runs' = IF Refills(i) THEN [runs EXCEPT ![i] = After(@, PageSize)] ELSE runs
  /\ UNCHANGED <<phase, buffer, sortedFile, inserted, returned, ended>>

(* The merged runs go; the result is the sorted file, or one more run. *)
EndPass ==
  /\ phase = "merging"
  /\ pass # NoPass
  /\ Queued = {}
  /\ pass' = NoPass
  /\ LET rest == SubSeq(runs, Merged + 1, Len(runs))
     IN IF rest = <<>>
        THEN phase' = "sorted" /\ sortedFile' = Run(pass.out) /\ runs' = <<>>
        ELSE phase' = phase /\ runs' = Append(rest, Run(pass.out)) /\ UNCHANGED sortedFile
  /\ UNCHANGED <<buffer, inserted, returned, ended>>

-----------------------------------------------------------------------------
(* getNextRecord, from memory or from the sorted file. *)
FromFile == sortedFile # NoFile

GetNextRecord ==
  /\ phase = "sorted"
  /\ IF FromFile
     THEN /\ sortedFile.unread # <<>>
          /\ returned' = Append(returned, Head(sortedFile.unread))
          /\ sortedFile' = After(sortedFile, 1)
          /\ UNCHANGED buffer
     ELSE /\ buffer # <<>>
          /\ returned' = Append(returned, Head(buffer))
          /\ buffer' = Tail(buffer)
          /\ UNCHANGED sortedFile
  /\ UNCHANGED <<phase, runs, pass, inserted, ended>>

EndOfStream ==
  /\ phase = "sorted"
  /\ IF FromFile THEN sortedFile.unread = <<>> ELSE buffer = <<>>
  /\ ended' = TRUE
  /\ UNCHANGED <<phase, buffer, runs, sortedFile, pass, inserted, returned>>

SortStep == BeginPass \/ (\E i \in 1 .. Len(runs) : MergeStep(i)) \/ EndPass

Next ==
  \/ \E key \in Key : Insert(key)
  \/ SortInMemory
  \/ SortRuns
  \/ SortStep
  \/ GetNextRecord
  \/ EndOfStream

(* sort() is a loop of one thread: once called it goes on. *)
Spec == Init /\ [][Next]_vars /\ WF_vars(SortStep)

-----------------------------------------------------------------------------
(* Properties *)

File == [unread : Seq(Record), eof : BOOLEAN]

TypeOK ==
  /\ phase \in {"insertion", "merging", "sorted"}
  /\ inserted \in Seq(Key)
  /\ buffer \in Seq(Record)
  /\ runs \in Seq(File) /\ sortedFile \in File
  /\ pass \in [heads : Seq(Seq(Record)), buffers : Seq(Seq(Record)), out : Seq(Record)]
  /\ Len(pass.heads) <= BufferPages /\ Len(pass.buffers) = Len(pass.heads)
  /\ \A i \in DOMAIN pass.heads : Len(pass.heads[i]) <= 1 /\ Len(pass.buffers[i]) < PageSize
  /\ returned \in Seq(Record)
  /\ ended \in BOOLEAN

(* Where records are. *)
Holders ==
  {"buffer", "file", "out", "returned"} \X {0}
  \cup {"run"} \X DOMAIN runs
  \cup {"head", "page"} \X DOMAIN pass.heads
Held ==
  [h \in Holders |->
     CASE h[1] = "buffer" -> buffer
       [] h[1] = "file" -> sortedFile.unread
       [] h[1] = "out" -> pass.out
       [] h[1] = "returned" -> returned
       [] h[1] = "run" -> runs[h[2]].unread
       [] h[1] = "head" -> pass.heads[h[2]]
       [] h[1] = "page" -> pass.buffers[h[2]]]

(* Each of these records stands in one place, and only they do. *)
Places(held) == UNION {{h} \X DOMAIN held[h] : h \in DOMAIN held}
Once(held, records) ==
  [p \in Places(held) |-> held[p[1]][p[2]]] \in Bijection(Places(held), records)

(* Every record is in one place at a time: in the buffer, unread in a run  *)
(* or in the sorted file, in the page read from a run, in the queue, in    *)
(* the output of the pass, or returned. A run that leaves the queue too    *)
(* early would be dropped with its unread records at the end of the pass.  *)
NothingLost == Once(Held, Record)

(* What getNextRecord returned is complete when it reports the end:        *)
(* createLevel sizes its nodes by getTotalEntries and stops at the end.    *)
EndMeansAll == ended => returned \in Bijection(DOMAIN returned, Record)

(* Input that fits in one buffer comes out in order, also when it fills    *)
(* the buffer exactly and goes through a file.                             *)
OneBufferSorted == Len(inserted) <= Capacity => IsAscending(returned, inserted)

(* Input of any size comes out in order, as the comment in insert says:    *)
(* "this will create the initial, sorted buckets before the external merge *)
(* sort."                                                                  *)
Sorted == IsAscending(returned, inserted)

(* sort() ends: every pass leaves fewer runs than it found. With one       *)
(* buffer page it would merge one run into one for ever; the bulk loader   *)
(* asks for 2000.                                                          *)
SortEnds == phase = "merging" ~> phase = "sorted"
=============================================================================
