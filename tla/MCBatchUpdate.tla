--------------------------- MODULE MCBatchUpdate ---------------------------
(* Two users whose balance rises or falls and whose usage is recorded, the *)
(* updater, failing UPDATEs and one restart.                               *)
EXTENDS BatchUpdate

MCInitial == [t \in Types |-> [id \in Rows |-> 2]]
MCUserDeltas == {-1, 2}
=============================================================================
