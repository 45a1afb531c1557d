------------------------------ MODULE PageMap ------------------------------
(***************************************************************************)
(* What a page store promises its clients (IStorageManager, as the disk    *)
(* storage manager and xStore offer it): a map from the page ids the       *)
(* client holds to what it stored there, of which the part that has been   *)
(* flushed and not touched since survives the death of the process. Only   *)
(* the id the client is rewriting changes its content.                     *)
(*                                                                         *)
(* Nothing is said of how ids are chosen, of free lists or of files.       *)
(***************************************************************************)
CONSTANTS
  Page,    \* the page ids
  Content  \* what a page can hold

VARIABLES
  store,   \* store[p]: what a load of p returns, for the ids the client holds
  saved,   \* the ids held at the end of the last flush
  kept,    \* those of them not rewritten and not freed since
  rewriting,  \* the id whose record the client is replacing, if any
  phase    \* "down", "up", "sync" (a flush is being written), "torn" (one has
           \* failed, and the process goes on), "void"

abstractVars == <<store, saved, kept, rewriting, phase>>

Held == DOMAIN store

EmptyMap == [p \in {} |-> p]

TypeOK ==
  /\ Held \subseteq Page
  /\ \A p \in Held : store[p] \in Content
  /\ saved \subseteq Page
  /\ kept \subseteq saved \cap Held
  /\ rewriting \subseteq Held
  /\ phase \in {"down", "up", "sync", "torn", "void"}

Init ==
  /\ store = EmptyMap
  /\ saved = {}
  /\ kept = {}
  /\ rewriting = {}
  /\ phase = "down"

(* A store created from nothing, whatever files were there before. *)
Create ==
  /\ phase \in {"down", "void"}
  /\ phase' = "up"
  /\ store' = EmptyMap
  /\ saved' = {}
  /\ kept' = {}
  /\ rewriting' = {}

Open ==
  /\ phase = "down"
  /\ phase' = "up"
  /\ UNCHANGED <<store, saved, kept, rewriting>>

Serving == phase \in {"up", "torn"}

(* A new record never gets an id the client still holds. *)
Alloc(p, c) ==
  /\ Serving
  /\ p \notin Held
  /\ store' = [q \in Held \cup {p} |-> IF q = p THEN c ELSE store[q]]
  /\ UNCHANGED <<saved, kept, rewriting, phase>>

BeginRewrite(p) ==
  /\ Serving
  /\ rewriting = {}
  /\ p \in Held
  /\ rewriting' = {p}
  /\ UNCHANGED <<store, saved, kept, phase>>

(* The content changes under the id the client named, and under no other;  *)
(* a rewrite may fail, and then it is over.                                *)
Rewrite(p, c) ==
  /\ Serving
  /\ p \in rewriting
  /\ store' = [store EXCEPT ![p] = c]
  /\ kept' = kept \ {p}
  /\ rewriting' \in {rewriting, {}}
  /\ UNCHANGED <<saved, phase>>

EndRewrite ==
  /\ Serving
  /\ rewriting # {}
  /\ rewriting' = {}
  /\ UNCHANGED <<store, saved, kept, phase>>

Free(p) ==
  /\ Serving
  /\ p \in Held \ rewriting
  /\ store' = [q \in Held \ {p} |-> store[q]]
  /\ kept' = kept \ {p}
  /\ UNCHANGED <<saved, rewriting, phase>>

BeginSync ==
  /\ phase = "up"
  /\ rewriting = {}
  /\ phase' = "sync"
  /\ UNCHANGED <<store, saved, kept, rewriting>>

(* The end of a flush, and of the process when the flush is its last act. *)
EndSync ==
  /\ phase = "sync"
  /\ phase' \in {"up", "down"}
  /\ saved' = Held
  /\ kept' = Held
  /\ UNCHANGED <<store, rewriting>>

(* A flush that fails half way: the process keeps what it holds. *)
SyncFails ==
  /\ phase = "sync"
  /\ phase' = "torn"
  /\ UNCHANGED <<store, saved, kept, rewriting>>

(* The ids of the last flush come back, the untouched ones with their      *)
(* contents.                                                               *)
Crash ==
  /\ phase = "up"
  /\ phase' = "down"
  /\ DOMAIN store' = saved
  /\ \A p \in kept : store'[p] = store[p]
  /\ rewriting' = {}
  /\ UNCHANGED <<saved, kept>>

(* The flush rewrites its file in place: a process that dies inside one,   *)
(* or after one that failed, leaves a store of which nothing is promised   *)
(* until it is created anew.                                               *)
CrashInSync ==
  /\ phase \in {"sync", "torn"}
  /\ phase' = "void"

Void ==
  /\ phase = "void"
  /\ phase' = "void"

Next ==
  \/ Create
  \/ Open
  \/ \E p \in Page, c \in Content : Alloc(p, c) \/ Rewrite(p, c)
  \/ \E p \in Page : BeginRewrite(p) \/ Free(p)
  \/ EndRewrite
  \/ BeginSync
  \/ EndSync
  \/ SyncFails
  \/ Crash
  \/ CrashInSync
  \/ Void

Spec == Init /\ [][Next]_abstractVars
=============================================================================
