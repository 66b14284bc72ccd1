--------------------------- MODULE MCCollections ---------------------------
(* An instance of Collections: three days, the last of them in a new month. *)
EXTENDS Collections

MCMonthOf == [d \in 0..LastDay |-> IF d < LastDay THEN 1 ELSE 2]
=============================================================================
