--------------------------- MODULE MC_ShuffleProofs ---------------------------
(* Lists of two responses with two encrypted attributes each, over the    *)
(* group of order 5.                                                       *)
EXTENDS ShuffleProofs

(* Encryptions of the records under H = 2 with randomness 1 or 2. *)
MC_Ct(m, r) == EncryptInt(m, r, 2)
MC_Inputs ==
    { << <<MC_Ct(1, 1), MC_Ct(0, 2)>>, <<MC_Ct(1, 2), MC_Ct(1, 1)>> >>,
      << <<MC_Ct(0, 1), MC_Ct(1, 1)>>, <<MC_Ct(1, 1), MC_Ct(0, 1)>> >> }
(* The same lists and the empty list of a survey without responses. *)
MC_InputsWithEmpty == MC_Inputs \cup {<<>>}
MC_Challenge == <<2, 3>>
=============================================================================
