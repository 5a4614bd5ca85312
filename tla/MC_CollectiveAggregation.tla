---------------------- MODULE MC_CollectiveAggregation ----------------------
(* Instances of the collective aggregation protocol for TLC: a three-level *)
(* tree r -> {a, b}, a -> c, two grouping keys and vectors of length 1..3. *)
EXTENDS CollectiveAggregation

CONSTANTS r, a, b, c, k1, k2

MC_Parent == [n \in {a, b, c} |-> IF n = c THEN a ELSE r]
MC_KeyByteLen == [k \in {k1, k2, ""} |-> IF k = "" THEN 0 ELSE 2]

(* Data references.  A group is [gb |-> len(GroupByEnc), aa |-> plaintexts]. *)
Grp(aa) == [gb |-> 1, aa |-> aa]
Grouped(m) == [grouped |-> m, simple |-> NoData]
Simple(s) == [grouped |-> NoData, simple |-> s]
Neither == [grouped |-> NoData, simple |-> NoData]

(* Non-root nodes all hold groups of one shape (one GroupByEnc ciphertext, *)
(* two aggregating attributes); the root's vectors are shorter or longer,  *)
(* or it holds flat SimpleData, so that the padding on merge is exercised.  *)
Uniform2 ==
    { Grouped(k1 :> Grp(<<1, 1>>)), Grouped(k2 :> Grp(<<1, 1>>)),
      Grouped(k1 :> Grp(<<1, 1>>) @@ k2 :> Grp(<<1, 1>>)) }
RootInputs ==
    { Grouped(k1 :> Grp(<<1>>)), Grouped(k1 :> Grp(<<1, 1, 1>>) @@ k2 :> Grp(<<1>>)),
      Simple(<<1>>) }
InputsUniform == [n \in {r, a, b, c} |-> IF n = r THEN RootInputs ELSE Uniform2]

(* A node may hold no group at all (an empty SimpleData). *)
InputsWithEmpty ==
    [n \in {r, a, b, c} |-> IF n = b THEN {Simple(<<>>), Grouped(k1 :> Grp(<<1, 1>>))}
                            ELSE IF n = r THEN {Grouped(k1 :> Grp(<<1>>))}
                            ELSE {Grouped(k1 :> Grp(<<1, 1>>))}]

(* The leaf c may be given no data reference, or groups of two shapes.    *)
InputsChildError ==
    [n \in {r, a, b, c} |-> IF n = c THEN {Neither, Grouped(k1 :> Grp(<<1>>) @@ k2 :> Grp(<<1, 1>>))}
                            ELSE {Grouped(k1 :> Grp(<<1, 1>>))}]
=============================================================================
