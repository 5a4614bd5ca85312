----------------------------- MODULE MC_TestData -----------------------------
(* The shapes handle_data_test.go uses: no clear attributes, two encrypted *)
(* grouping attributes, one encrypted where and one encrypted aggregating  *)
(* attribute; two data providers.                                          *)
EXTENDS TestData

(* numType arguments: two of the right length, one of the wrong length. *)
MC_NumTypes == {<<1, 2>>, <<2, 1>>, <<2>>}

(* A response no generated data holds: its aggregating value is 7. *)
MC_Extra ==
    [GroupByClear |-> <<>>, GroupByEnc |-> <<0, 0>>, WhereClear |-> <<>>,
     WhereEnc |-> <<1>>, AggregatingAttributesClear |-> <<>>,
     AggregatingAttributesEnc |-> <<7>>]
=============================================================================
