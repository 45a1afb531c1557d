--------------------------- MODULE IStorageManager ---------------------------
(***************************************************************************)
(* What a tree expects of the storage it is given (IStorageManager,        *)
(* whatever stands behind it: a manager, a buffer, a cache): every page    *)
(* kept returns what was last stored on it, a page is new when it is given *)
(* out, and a page not kept is an invalid one. A storage that is misused   *)
(* may break for good.                                                     *)
(***************************************************************************)
CONSTANTS Page, Value

VARIABLES
  kept,    \* what is on the pages stored and not deleted
  answer,  \* of the last call
  misused  \* its user has done what this storage forbids

vars == <<kept, answer, misused>>

Nothing == [call |-> "none"]

Init ==
  /\ kept = <<>>
  /\ answer = Nothing
  /\ misused \in BOOLEAN

Working == answer.call # "undefined"

StoreNew(p, v) ==
  /\ Working
  /\ p \in Page \ DOMAIN kept
  /\ kept' = [q \in DOMAIN kept \cup {p} |-> IF q = p THEN v ELSE kept[q]]
  /\ answer' = [call |-> "stored", page |-> p]
  /\ UNCHANGED misused

Overwrite(p, v) ==
  /\ Working
  /\ p \in DOMAIN kept
  /\ kept' = [kept EXCEPT ![p] = v]
  /\ answer' = [call |-> "stored", page |-> p]
  /\ UNCHANGED misused

Load(p) ==
  /\ Working
  /\ p \in DOMAIN kept
  /\ answer' = [call |-> "loaded", page |-> p, value |-> kept[p]]
  /\ UNCHANGED <<kept, misused>>

Delete(p) ==
  /\ Working
  /\ p \in DOMAIN kept
  /\ kept' = [q \in DOMAIN kept \ {p} |-> kept[q]]
  /\ answer' = [call |-> "deleted", page |-> p]
  /\ UNCHANGED misused

Invalid(p) ==
  /\ Working
  /\ p \in Page \ DOMAIN kept
  /\ answer' = [call |-> "InvalidPageException", page |-> p]
  /\ UNCHANGED <<kept, misused>>

Break ==
  /\ misused
  /\ answer' = [call |-> "undefined"]
  /\ UNCHANGED <<kept, misused>>

Misuse ==
  /\ misused' \in BOOLEAN
  /\ UNCHANGED <<kept, answer>>

Next ==
  \/ \E p \in Page :
       \/ \E v \in Value : StoreNew(p, v) \/ Overwrite(p, v)
       \/ Load(p) \/ Delete(p) \/ Invalid(p)
  \/ Break
  \/ Misuse

Spec == Init /\ [][Next]_vars
=============================================================================
