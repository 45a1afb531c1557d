---------------------------- MODULE QueryThreads ----------------------------
(***************************************************************************)
(* Which catalog a thread reads. Every thread has a sqlite connection of   *)
(* its own, opened when it first needs one under the name that dbfile,     *)
(* shared by the process, holds at that moment; conn_init keeps an open    *)
(* one whatever name it is given. The disk storage manager gives it the    *)
(* name of the store without .sqlite when it looks for the files. The main *)
(* thread opens stores and clones them for the query threads (class MTQ),  *)
(* then waits for these; each releases its connection at its end. The      *)
(* process may end and start again; files stay.                            *)
(*                                                                         *)
(* All stores have trajectories under the same ids, so a catalog into      *)
(* which two are loaded keeps the rows of the first. Threads that assign   *)
(* dbfile at once assign the same name.                                    *)
(***************************************************************************)
EXTENDS FiniteSets

CONSTANTS
  Store,   \* names of stores
  Worker,  \* query threads
  Nobody   \* no name, no connection, no rows

VARIABLES
  dbfile,    \* the name for the next connection
  conn,      \* db of each thread, the main thread included
  rows,      \* whose trajectories a catalog file lists
  made,      \* the catalog files there are
  saved,     \* the stores whose other files are there
  nextTraj,  \* next_traj: whose last id it is
  open,      \* the stores of the main thread
  prepared,  \* those with clones and their trees
  job,       \* the store a query thread works on
  pc,        \* of a query thread: "off", "start", "connect", "read"
  path,      \* its argument of conn_init
  used,      \* history: the stores this process has opened
  cloned,    \* history: the store cloned, if none was opened since
  mixed      \* history: stores opened by a process that had used another

main == <<dbfile, rows, made, saved, nextTraj, open, prepared>>
history == <<used, cloned, mixed>>
threads == <<main, conn, job, pc, path, history>>

Main == "main"
File == Store \X {"sqlite", "bare"}
Sqlite(s) == <<s, "sqlite">>
Bare(s) == <<s, "bare">>

ASSUME ThreadAssumption == Nobody \notin Store /\ Nobody \notin File /\ Main \notin Worker

Idle == [w \in Worker |-> Nobody]
Unconnected == [t \in Worker \cup {Main} |-> Nobody]

ThreadsInit ==
  /\ dbfile = Nobody
  /\ conn = Unconnected
  /\ rows = [f \in File |-> Nobody]
  /\ made = {}
  /\ saved = {}
  /\ nextTraj = Nobody
  /\ open = {}
  /\ prepared = {}
  /\ job = Idle
  /\ pc = [w \in Worker |-> "off"]
  /\ path = Idle
  /\ used = {}
  /\ cloned = Nobody
  /\ mixed = {}

Waiting == \A w \in Worker : pc[w] = "off"

-----------------------------------------------------------------------------
(* The main thread. The connection comes first, so a catalog file is there *)
(* when the files are looked for, if this opened it. A store whose files   *)
(* are not all there is loaded, into the catalog that is connected.        *)
OpenStore(s) ==
  /\ Waiting
  /\ s \notin open
  /\ open' = open \cup {s}
  /\ conn' = [conn EXCEPT ![Main] = IF @ = Nobody THEN Sqlite(s) ELSE @]
  /\ made' = made \cup {conn'[Main]}
  /\ IF s \in saved /\ Sqlite(s) \in made'
     THEN UNCHANGED <<rows, nextTraj>>
     ELSE /\ rows' = [rows EXCEPT ![conn'[Main]] = IF @ = Nobody THEN s ELSE @]
          /\ nextTraj' = s
  /\ saved' = saved \cup {s}
  /\ dbfile' = Bare(s)
  /\ used' = used \cup {s}
  /\ mixed' = IF used \subseteq {s} THEN mixed ELSE mixed \cup {s}
  /\ cloned' = Nobody
  /\ UNCHANGED <<prepared, job, pc, path>>

(* prepareTrees: a tree is built or loaded, from a stream that asks for    *)
(* the last id, and the store is cloned for every thread.                  *)
(* A bug: clone() trusts the name the store was opened under. *)
PrepareTreesOnly(s) ==
  /\ Waiting
  /\ s \in open
  /\ prepared' = prepared \cup {s}
  /\ nextTraj' = IF nextTraj = Nobody THEN rows[conn[Main]] ELSE nextTraj
  /\ cloned' = s
  /\ UNCHANGED <<dbfile, conn, rows, made, saved, open, job, pc, path, used, mixed>>

PrepareTrees(s) ==
  /\ Waiting
  /\ s \in open
  /\ prepared' = prepared \cup {s}
  /\ nextTraj' = IF nextTraj = Nobody THEN rows[conn[Main]] ELSE nextTraj
  /\ dbfile' = Sqlite(s)
  /\ cloned' = s
  /\ UNCHANGED <<conn, rows, made, saved, open, job, pc, path, used, mixed>>

RunQueries(s) ==
  /\ Waiting
  /\ s \in prepared
  /\ job' = [w \in Worker |-> s]
  /\ pc' = [w \in Worker |-> "start"]
  /\ UNCHANGED <<main, conn, path, history>>

CloseStore(s) ==
  /\ Waiting
  /\ s \in open
  /\ open' = open \ {s}
  /\ prepared' = prepared \ {s}
  /\ UNCHANGED <<dbfile, rows, made, saved, nextTraj, conn, job, pc, path, history>>

EndProcess ==
  /\ Waiting
  /\ dbfile' = Nobody
  /\ conn' = Unconnected
  /\ nextTraj' = Nobody
  /\ open' = {}
  /\ prepared' = {}
  /\ used' = {}
  /\ cloned' = Nobody
  /\ UNCHANGED <<rows, made, saved, job, pc, path, mixed>>

-----------------------------------------------------------------------------
(* A query thread looks up its first trajectory, without a connection yet: *)
(* the name is copied, then assigned to itself and opened.                 *)
CopyName(w) ==
  /\ pc[w] = "start"
  /\ path' = [path EXCEPT ![w] = dbfile]
  /\ pc' = [pc EXCEPT ![w] = "connect"]
  /\ UNCHANGED <<main, conn, job, history>>

Connect(w) ==
  /\ pc[w] = "connect"
  /\ dbfile' = path[w]
  /\ conn' = [conn EXCEPT ![w] = path[w]]
  /\ made' = made \cup {path[w]}
  /\ pc' = [pc EXCEPT ![w] = "read"]
  /\ UNCHANGED <<rows, saved, nextTraj, open, prepared, job, path, history>>

(* dbt.release() *)
Release(w) ==
  /\ pc[w] = "read"
  /\ conn' = [conn EXCEPT ![w] = Nobody]
  /\ pc' = [pc EXCEPT ![w] = "off"]
  /\ job' = [job EXCEPT ![w] = Nobody]
  /\ path' = [path EXCEPT ![w] = Nobody]
  /\ UNCHANGED <<main, history>>

ThreadsNext ==
  \/ \E s \in Store : OpenStore(s) \/ PrepareTrees(s) \/ RunQueries(s) \/ CloseStore(s)
  \/ EndProcess
  \/ \E w \in Worker : CopyName(w) \/ Connect(w) \/ Release(w)

ThreadsSpec == ThreadsInit /\ [][ThreadsNext]_threads

-----------------------------------------------------------------------------
ThreadsTypeOK ==
  /\ dbfile \in File \cup {Nobody}
  /\ conn \in [Worker \cup {Main} -> File \cup {Nobody}]
  /\ rows \in [File -> Store \cup {Nobody}]
  /\ made \subseteq File /\ saved \subseteq Store
  /\ nextTraj \in Store \cup {Nobody}
  /\ prepared \subseteq open /\ open \subseteq used /\ used \subseteq Store
  /\ \A w \in Worker : (pc[w] = "read") <=> (conn[w] # Nobody)
  /\ \A w \in Worker : (pc[w] = "off") <=> (job[w] = Nobody)
  /\ cloned \in Store \cup {Nobody} /\ mixed \subseteq Store

(* A query thread, whenever it connects, reads the catalog of the store    *)
(* its clone was made of, unless another store was opened or cloned since; *)
(* the name is neither the one the disk storage manager left nor one that  *)
(* another thread is putting in its place. The rows are those of its       *)
(* store, and of the main thread too, as is the last id a bulk load runs   *)
(* up to, unless the store met a process that had used another.            *)
ThreadsReadTheirStore ==
  /\ \A w \in Worker :
       pc[w] = "read" /\ job[w] = cloned =>
         /\ conn[w] = Sqlite(job[w])
         /\ job[w] \in mixed \/ rows[conn[w]] = job[w]
  /\ \A s \in open :
       used = {s} /\ s \notin mixed =>
         /\ rows[conn[Main]] = s
         /\ nextTraj \in {Nobody, s}
=============================================================================
