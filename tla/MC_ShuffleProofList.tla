------------------------- MODULE MC_ShuffleProofList -------------------------
EXTENDS ShuffleProofList

(* Every list of at most three proofs, each verifying or not. *)
MC_ProofLists == UNION {[1..m -> BOOLEAN] : m \in 0..3}

(* percent -1/2, 0, 1/2, 1 and 3/2. *)
MC_Percents == {<<-1, 2>>, <<0, 1>>, <<1, 2>>, <<1, 1>>, <<3, 2>>}

=============================================================================
