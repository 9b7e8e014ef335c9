---------------------------- MODULE BackupStore ----------------------------
(***************************************************************************)
(* What the backup tools promise, whoever runs them and whatever fails:    *)
(* snapshots are taken once each, and a copy that a backup run finished    *)
(* stays as it is.  The lineage of the copies is a forest: a copy was made *)
(* from nothing (a full send) or from another finished copy (an            *)
(* incremental send).                                                      *)
(***************************************************************************)
EXTENDS FiniteSets

CONSTANTS Snaps,    \* names of snapshots
          NoSnap    \* the base of a full copy

VARIABLES taken,    \* snapshots that were ever taken
          lineage   \* for every finished copy, the copy it was derived from

vars == <<taken, lineage>>

stored == DOMAIN lineage

Init == taken = {} /\ lineage = [s \in {} |-> NoSnap]

Take(s) ==
    /\ s \notin taken
    /\ taken' = taken \union {s}
    /\ UNCHANGED lineage

Store(s, b) ==
    /\ s \in taken \ stored
    /\ b \in stored \union {NoSnap}
    /\ lineage' = [t \in stored \union {s} |-> IF t = s THEN b ELSE lineage[t]]
    /\ UNCHANGED taken

Next == \E s \in Snaps : Take(s) \/ \E b \in Snaps \union {NoSnap} : Store(s, b)

Spec == Init /\ [][Next]_vars

TypeOK ==
    /\ taken \subseteq Snaps
    /\ stored \subseteq taken
    /\ lineage \in [stored -> stored \union {NoSnap}]
=============================================================================
