------------------------- MODULE MC_ShufflingPlusDDT -------------------------
(* A ring of three conodes over the group of order 5, two responses of one *)
(* encrypted grouping attribute each.                                       *)
EXTENDS ShufflingPlusDDT

CONSTANTS n1, n2, n3

MC_NodeList == <<n1, n2, n3>>
MC_Priv == (n1 :> 1) @@ (n2 :> 3) @@ (n3 :> 3)
MC_SurveySecret == (n1 :> 2) @@ (n2 :> 3) @@ (n3 :> 4)

(* Two responses, equal or distinct, with one grouping attribute each. *)
MC_Records == {<<<<1>>, <<1>>>>, <<<<1>>, <<2>>>>}

(* Nodes given precomputed rerandomisation pairs made for the aggregate    *)
(* key: none, the first node after the root (which receives that key), or  *)
(* the last node before the root.                                          *)
MC_PrecomputeNone == {}
MC_PrecomputeFirst == {n2}
MC_PrecomputeLast == {n3}
=============================================================================
