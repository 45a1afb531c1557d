----------------------------- MODULE MCStorage -----------------------------
(* Instances of LayeredStorage and QueryThreads for TLC. The two share     *)
(* nothing; a behaviour is of one of them.                                 *)
EXTENDS LayeredStorage, QueryThreads

SomeLayers ==
  [kind : {"buffer"}, capacity : 0 .. 2, writeThrough : BOOLEAN]
  \cup [kind : {"cache"}, capacity : 0 .. 2, writeThrough : {FALSE}]

VARIABLE part  \* which of the two (never changes)

MCInit ==
  /\ part \in {"layers", "threads"}
  /\ Init
  /\ part = "threads" => layer = [kind |-> "cache", capacity |-> 0, writeThrough |-> FALSE]
  /\ ThreadsInit

MCNext ==
  /\ UNCHANGED part
  /\ \/ part = "layers" /\ Next /\ UNCHANGED threads
     \/ part = "threads" /\ ThreadsNext /\ UNCHANGED vars

MCSpec == MCInit /\ [][MCNext]_<<part, vars, threads>>
=============================================================================
