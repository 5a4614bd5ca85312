------------------------- MODULE AggregationAbstract -------------------------
(***************************************************************************)
(* What a collective aggregation round promises its caller (spec 4.4, 8):  *)
(* once, and eventually, the caller receives for every grouping key held   *)
(* by some conode the column-wise sum of all the conodes' aggregating      *)
(* attributes for that key, each vector read as zero beyond its end.  The  *)
(* data each conode holds does not change during the round.  Vectors are   *)
(* of plaintexts, as in CollectiveAggregation.                             *)
(***************************************************************************)
EXTENDS Naturals, Sequences, FiniteSetsExt

CONSTANTS Node, NoData

VARIABLES
    local,    \* local[n]: the group map conode n aggregates: key -> vector
    delivered \* the map the caller received, or NoData

Holders(k) == {n \in Node : k \in DOMAIN local[n]}
TotalKeys == UNION {DOMAIN local[n] : n \in Node}
TotalLen(k) == CHOOSE l \in {Len(local[n][k]) : n \in Holders(k)} :
                   \A n \in Holders(k) : Len(local[n][k]) <= l
Column(k, i) ==
    MapThenSumSet(LAMBDA n : IF i <= Len(local[n][k]) THEN local[n][k][i] ELSE 0,
                  Holders(k))
Total == [k \in TotalKeys |-> [i \in 1..TotalLen(k) |-> Column(k, i)]]

Init == delivered = NoData

Deliver ==
    /\ delivered = NoData
    /\ delivered' = Total
    /\ UNCHANGED local

Spec == Init /\ [][Deliver]_<<local, delivered>> /\ WF_<<local, delivered>>(Deliver)

=============================================================================
