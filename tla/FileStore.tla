----------------------------- MODULE FileStore -----------------------------
(***************************************************************************)
(* What a module that keeps files beside rows promises, whichever table the  *)
(* rows are in: a file is stored before the row that refers to it, goes only *)
(* after that row, and files without a row are owed to failures alone.       *)
(***************************************************************************)
EXTENDS Naturals, FiniteSets

CONSTANT File  \* storage keys

VARIABLES
    files,  \* keys of the files in the storage
    rows,   \* keys that a row refers to
    lost    \* how many requests a failure has cut off

storeVars == <<files, rows, lost>>

Init == files = {} /\ rows = {} /\ lost = 0

Store(f) == files' = files \cup {f} /\ UNCHANGED <<rows, lost>>

Refer(f) == f \in files \ rows /\ rows' = rows \cup {f} /\ UNCHANGED <<files, lost>>

Release(f) == f \in rows /\ rows' = rows \ {f} /\ UNCHANGED <<files, lost>>

Discard(f) == f \in files \ rows /\ files' = files \ {f} /\ UNCHANGED <<rows, lost>>

CutOff == lost' = lost + 1 /\ UNCHANGED <<files, rows>>

Next ==
    \/ \E f \in File : Store(f) \/ Refer(f) \/ Release(f) \/ Discard(f)
    \/ CutOff

Orphans == files \ rows

Spec == Init /\ [][Next]_storeVars /\ <>[](Cardinality(Orphans) <= lost)
=============================================================================
