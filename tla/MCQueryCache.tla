----------------------------- MODULE MCQueryCache -----------------------------
(* QueryCache on small instances. *)
EXTENDS QueryCache

CONSTANTS author, book

MCTables == {author, book}
MCCapacities == {0, 1, 2}
MCAllKinds == Kinds
MCTracked == {"tracked"}
MCBulk == {"bulk"}

=============================================================================
