------------------------ MODULE CollectiveAggregation ------------------------
(***************************************************************************)
(* The collective (tree) aggregation protocol of                           *)
(* protocols/collective_aggregation_protocol.go.                           *)
(*                                                                         *)
(* The root's Start sends a DataReferenceMessage to its children; every    *)
(* non-root node is instantiated by that message, checks its data          *)
(* reference (checkData), forwards the announcement to its own children,   *)
(* waits until every child has sent a CADBLengthMessage and a              *)
(* ChildAggregatedDataBytesMessage, merges the children's groups into its  *)
(* own map, and sends its map to its parent as a length header followed   *)
(* by the payload.  The root delivers its merged map on FeedbackChannel.   *)
(*                                                                         *)
(* Abstraction of the data: a ciphertext is represented by the plaintext   *)
(* it encrypts (the homomorphic CipherVector.Add is column-wise +, and     *)
(* EncryptInt(Aggregate, 0) is 0).  A FilteredResponse is the record       *)
(* [gb |-> len(GroupByEnc), aa |-> AggregatingAttributes].  The byte       *)
(* payload of a child message is represented by the map it encodes, and    *)
(* FromBytes by what it does with the header it is paired with.           *)
(***************************************************************************)
EXTENDS Naturals, Sequences, FiniteSets, SequencesExt, TLC

CONSTANTS
    Node,               \* the conodes of the roster
    Root,               \* the root of the tree
    Parent,             \* Parent[n] for every n # Root: the spanning tree
    Key,                \* grouping keys (libunlynx.GroupingKey) other than EMPTYKEY
    EMPTYKEY,           \* the key given to flat SimpleData
    KeyByteLen,         \* KeyByteLen[k]: byte length of key k (DtbLength)
    CipherTextByteSize, \* libunlynx.CipherTextByteSize()
    InputsOf,           \* InputsOf[n]: the data references [grouped, simple]
                        \* the caller may set at node n
    Proofs,             \* p.Proofs
    ProofFuncSet,       \* p.ProofFunc is not nil
    NoData              \* a nil pointer / no value yet

ASSUME Root \in Node /\ EMPTYKEY \notin Key /\ Proofs \in BOOLEAN /\ ProofFuncSet \in BOOLEAN

VARIABLES
    input,   \* the data reference the caller put in GroupedData / SimpleData
    grouped, \* *p.GroupedData after checkData (NoData before)
    pc,      \* where each node's Dispatch is
    started, \* the root's Start has run
    annc,    \* annc[n]: a DataReferenceMessage has reached n
    lenQ,    \* lenQ[n]: CADBLengthMessages from n's children, in arrival order
    dataQ,   \* dataQ[n]: ChildAggregatedDataBytesMessages, in arrival order
    result,  \* the CothorityAggregatedData read from the root's FeedbackChannel
    cvMap,   \* cvMap[n]: key -> the columns of ciphertexts to aggregate, for the proofs
    hook     \* hook[n]: the (data, dataRes) of n's ProofFunc call, per key, or NoData

vars == <<input, grouped, pc, started, annc, lenQ, dataQ, result, cvMap, hook>>

-----------------------------------------------------------------------------
(* The tree (onet.Tree) *)
Children(n) == {c \in Node \ {Root} : Parent[c] = n}

AllKeys == Key \cup {EMPTYKEY}
EmptyMap == [k \in {} |-> NoData]

(* checkData: exactly one of GroupedData and SimpleData must be given; a   *)
(* flat SimpleData becomes the EMPTYKEY bucket, unless it is empty.        *)
CheckDataOk(in) == (in.grouped = NoData) # (in.simple = NoData)
CheckData(in) ==
    IF in.grouped # NoData THEN in.grouped
    ELSE IF Len(in.simple) > 0
         THEN [k \in {EMPTYKEY} |-> [gb |-> 0, aa |-> in.simple]]
         ELSE EmptyMap

(* Merging one child group into the local map: when the key is present    *)
(* the shorter AggregatingAttributes is padded with encryptions of zero    *)
(* and the two are added column-wise; otherwise the child's is adopted.    *)
PadTo(v, n) == [i \in 1..n |-> IF i <= Len(v) THEN v[i] ELSE 0]
(* Mutant: the child's vector subtracted instead of added. *)
AddCV_Sub(a, b) == [i \in 1..Len(a) |-> a[i] - b[i]]
AddCV(a, b) == [i \in 1..Len(a) |-> a[i] + b[i]]
(* Mutant: only the child's vector is padded, to the local length, so a   *)
(* longer child vector is cut to the local one.                            *)
MergeEntry_NoPadLocal(m, k, fr) ==
    IF k \in DOMAIN m
    THEN [m EXCEPT ![k].aa = AddCV(m[k].aa, PadTo(fr.aa, Len(m[k].aa)))]
    ELSE [x \in DOMAIN m \cup {k} |-> IF x = k THEN fr ELSE m[x]]
MergeEntry(m, k, fr) ==
    IF k \in DOMAIN m
    THEN LET n == IF Len(m[k].aa) > Len(fr.aa) THEN Len(m[k].aa) ELSE Len(fr.aa)
         IN  [m EXCEPT ![k].aa = AddCV(PadTo(m[k].aa, n), PadTo(fr.aa, n))]
    ELSE [x \in DOMAIN m \cup {k} |-> IF x = k THEN fr ELSE m[x]]
MergeChild(m, data) ==
    FoldSet(LAMBDA k, acc : MergeEntry(acc, k, data[k]), m, DOMAIN data)

(* FilteredResponseDet.FormatAggregationProofs(cvMap), which is not in the *)
(* repository: following spec 4.5 (the proof hook sees the pre- and      *)
(* post-aggregation ciphertexts of each group), column j of key k         *)
(* collects the j-th attribute of every contribution to k.                *)
FormatAggregationProofs(cv, k, aa) ==
    LET old == IF k \in DOMAIN cv THEN cv[k] ELSE <<>>
        w   == IF Len(old) > Len(aa) THEN Len(old) ELSE Len(aa)
        col == [j \in 1..w |-> (IF j <= Len(old) THEN old[j] ELSE <<>>)
                               \o (IF j <= Len(aa) THEN <<aa[j]>> ELSE <<>>)]
    IN  [x \in DOMAIN cv \cup {k} |-> IF x = k THEN col ELSE cv[x]]
(* Proof generation (a): the node's own groups. *)
CollectLocal(m) ==
    FoldSet(LAMBDA k, acc : FormatAggregationProofs(acc, k, m[k].aa), EmptyMap, DOMAIN m)
(* The groups of one child, collected as they are merged.         *)
(* Mutant: the children's contributions left out of cvMap.         *)
CollectChild_None(cv, data) == cv
CollectChild(cv, data) ==
    FoldSet(LAMBDA k, acc : FormatAggregationProofs(acc, k, data[k].aa), cv, DOMAIN data)

(* The lengths FilteredResponseDet.ToBytes reports for one group, and the  *)
(* header ChildAggregatedDataMessage.ToBytes sends: the lengths written by *)
(* whichever per-group goroutine took the mutex last.                      *)
Shape(k, fr) == [gacb |-> fr.gb, aab |-> Len(fr.aa), dtb |-> KeyByteLen[k]]
ZeroHeader == [gacb |-> 0, aab |-> 0, dtb |-> 0]
Headers(m) ==
    IF DOMAIN m = {} THEN {ZeroHeader} ELSE {Shape(k, m[k]) : k \in DOMAIN m}

(* ChildAggregatedDataMessage.FromBytes cuts the payload into             *)
(* len(data) / elementLength elements of the header's length and decodes   *)
(* each; it returns an error only when an element does not decode.  A     *)
(* zero element length or an empty payload gives no groups and no error.   *)
(* When every group has the header's shape the groups come back; when     *)
(* not, no element fits in the payload (no groups, no error), or the       *)
(* elements are cut across groups and either fail to decode or decode to   *)
(* groups that are not the sender's, which the model represents by none   *)
(* of the sender's groups arriving.                                        *)
ElementLength(h) == h.gacb * CipherTextByteSize + h.aab * CipherTextByteSize + h.dtb
ByteLength(data) == MapThenSumSet(LAMBDA k : ElementLength(Shape(k, data[k])), DOMAIN data)
Decoded(groups) == [err |-> FALSE, groups |-> groups]
DecodeError == [err |-> TRUE, groups |-> EmptyMap]
FromBytes(data, h) ==
    IF ElementLength(h) = 0 \/ DOMAIN data = {} THEN {Decoded(EmptyMap)}
    ELSE IF \A k \in DOMAIN data : Shape(k, data[k]) = h THEN {Decoded(data)}
    ELSE IF ByteLength(data) \div ElementLength(h) = 0 THEN {Decoded(EmptyMap)}
    ELSE {DecodeError, Decoded(EmptyMap)}

-----------------------------------------------------------------------------
Init ==
    /\ input \in [Node -> UNION {InputsOf[n] : n \in Node}]
    /\ \A n \in Node : input[n] \in InputsOf[n]
    /\ grouped = [n \in Node |-> NoData]
    /\ pc = [n \in Node |-> "check"]
    /\ started = FALSE
    /\ annc = [n \in Node |-> FALSE]
    /\ lenQ = [n \in Node |-> <<>>]
    /\ dataQ = [n \in Node |-> <<>>]
    /\ result = NoData
    /\ cvMap = [n \in Node |-> EmptyMap]
    /\ hook = [n \in Node |-> NoData]

(* Start, at the root: send the DataReferenceMessage to the children. *)
Start ==
    /\ ~started
    /\ started' = TRUE
    /\ annc' = [n \in Node |-> annc[n] \/ n \in Children(Root)]
    /\ UNCHANGED <<input, grouped, pc, lenQ, dataQ, result, cvMap, hook>>

(* Dispatch begins with checkData; a non-root node only exists once the    *)
(* announcement has reached it.                                            *)
CheckDataStep(n) ==
    /\ pc[n] = "check"
    /\ n = Root \/ annc[n]
    /\ IF CheckDataOk(input[n])
       THEN /\ grouped' = [grouped EXCEPT ![n] = CheckData(input[n])]
            /\ pc' = [pc EXCEPT ![n] = IF n = Root THEN "ascend" ELSE "announce"]
       ELSE /\ pc' = [pc EXCEPT ![n] = "failed"]
            /\ UNCHANGED grouped
    /\ UNCHANGED <<input, started, annc, lenQ, dataQ, result, cvMap, hook>>

(* aggregationAnnouncementPhase: forward the announcement to the children. *)
(* Its timeout branch cannot fire: the message that instantiated the node  *)
(* is already in DataReferenceChannel.                                     *)
(* Mutant: the announcement is received but not sent to the children. *)
Announce_NoForward(n) ==
    /\ pc[n] = "announce"
    /\ annc[n]
    /\ pc' = [pc EXCEPT ![n] = "ascend"]
    /\ UNCHANGED <<input, grouped, started, annc, lenQ, dataQ, result, cvMap, hook>>
Announce(n) ==
    /\ pc[n] = "announce"
    /\ annc[n]
    /\ annc' = [m \in Node |-> annc[m] \/ m \in Children(n)]
    /\ pc' = [pc EXCEPT ![n] = "ascend"]
    /\ UNCHANGED <<input, grouped, started, lenQ, dataQ, result, cvMap, hook>>

(* ascendingAggregationPhase up to the sends.  An inner node blocks, with  *)
(* no timeout, until onet hands it one length message and one data message *)
(* per child; the i-th length is used to decode the i-th payload, and the  *)
(* first decoding error is returned.  With Proofs, cvMap is filled from    *)
(* the node's own groups and then from each child's groups as they are    *)
(* merged.                                                                 *)
Ascend(n) ==
    /\ pc[n] = "ascend"
    /\ Len(lenQ[n]) = Cardinality(Children(n))
    /\ Len(dataQ[n]) = Cardinality(Children(n))
    /\ LET cs == 1..Len(lenQ[n])
       IN \E d \in [cs -> UNION {FromBytes(dataQ[n][i], lenQ[n][i]) : i \in cs}] :
          LET merged == FoldLeft(LAMBDA acc, i : MergeChild(acc, d[i].groups),
                                 grouped[n], [i \in cs |-> i])
              cv     == FoldLeft(LAMBDA acc, i : CollectChild(acc, d[i].groups),
                                 CollectLocal(grouped[n]), [i \in cs |-> i])
          IN /\ \A i \in cs : d[i] \in FromBytes(dataQ[n][i], lenQ[n][i])
             /\ cvMap' = [cvMap EXCEPT ![n] = IF Proofs THEN cv ELSE EmptyMap]
             /\ IF \A i \in cs : ~d[i].err
                THEN /\ grouped' = [grouped EXCEPT ![n] = merged]
                     /\ pc' = [pc EXCEPT ![n] = IF n = Root THEN "prove" ELSE "sendLen"]
                ELSE /\ pc' = [pc EXCEPT ![n] = "failed"]
                     /\ UNCHANGED grouped
    /\ lenQ' = [lenQ EXCEPT ![n] = <<>>]
    /\ dataQ' = [dataQ EXCEPT ![n] = <<>>]
    /\ UNCHANGED <<input, started, annc, result, hook>>

(* A non-root node serialises its map (the header is the last writer's     *)
(* shape), decodes the payload again as a check, returning a decoding      *)
(* error and dropping what it decoded otherwise, and then                   *)
(* SendToParent(&CADBLengthMessage{...}).                                  *)
SendLen(n) ==
    /\ pc[n] = "sendLen"
    /\ \E h \in Headers(grouped[n]) : \E d \in FromBytes(grouped[n], h) :
          IF d.err
          THEN /\ pc' = [pc EXCEPT ![n] = "failed"]
               /\ UNCHANGED lenQ
          ELSE /\ lenQ' = [lenQ EXCEPT ![Parent[n]] = Append(@, h)]
               /\ pc' = [pc EXCEPT ![n] = "sendData"]
    /\ UNCHANGED <<input, grouped, started, annc, dataQ, result, cvMap, hook>>

(* SendToParent(&message): the payload, the end of the ascending phase. *)
SendData(n) ==
    /\ pc[n] = "sendData"
    /\ dataQ' = [dataQ EXCEPT ![Parent[n]] = Append(@, grouped[n])]
    /\ pc' = [pc EXCEPT ![n] = "prove"]
    /\ UNCHANGED <<input, grouped, started, annc, lenQ, result, cvMap, hook>>

(* Proof generation (b): with Proofs, p.ProofFunc(data, dataRes) is called *)
(* with the columns of cvMap and the aggregated attributes of the same     *)
(* keys, appended in one pass over cvMap, so data[i] goes with dataRes[i]; *)
(* a nil ProofFunc panics.  Then the root reports and Dispatch returns.   *)
HookCall(n) == [k \in DOMAIN cvMap[n] |-> [data |-> cvMap[n][k], dataRes |-> grouped[n][k].aa]]
Prove(n) ==
    /\ pc[n] = "prove"
    /\ IF Proofs /\ ~ProofFuncSet
       THEN /\ pc' = [pc EXCEPT ![n] = "panicked"]
            /\ UNCHANGED hook
       ELSE /\ hook' = IF Proofs THEN [hook EXCEPT ![n] = HookCall(n)] ELSE hook
            /\ pc' = [pc EXCEPT ![n] = IF n = Root THEN "report" ELSE "done"]
    /\ UNCHANGED <<input, grouped, started, annc, lenQ, dataQ, result, cvMap>>

(* The root puts its map on FeedbackChannel, read once by the caller. *)
Report ==
    /\ pc[Root] = "report"
    /\ result' = grouped[Root]
    /\ pc' = [pc EXCEPT ![Root] = "done"]
    /\ UNCHANGED <<input, grouped, started, annc, lenQ, dataQ, cvMap, hook>>

NodeStep(n) ==
    \/ CheckDataStep(n) \/ Announce(n) \/ Ascend(n)
    \/ SendLen(n) \/ SendData(n) \/ Prove(n)

Next ==
    \/ Start
    \/ Report
    \/ \E n \in Node : NodeStep(n)

(* Every node's Dispatch runs in its own goroutine and onet delivers every *)
(* message sent, so each enabled step is eventually taken.                 *)
Spec == Init /\ [][Next]_vars /\ WF_vars(Start) /\ WF_vars(Report)
        /\ \A n \in Node : WF_vars(NodeStep(n))

-----------------------------------------------------------------------------
(* Properties *)

IsFR(fr) == fr \in [gb : Nat, aa : Seq(Nat)]
IsGroupMap(m) == DOMAIN m \subseteq AllKeys /\ \A k \in DOMAIN m : IsFR(m[k])
Header == [gacb : Nat, aab : Nat, dtb : Nat]

TypeOK ==
    /\ pc \in [Node -> {"check", "announce", "ascend", "sendLen", "sendData",
                        "prove", "report", "done", "failed", "panicked"}]
    /\ \A n \in Node : grouped[n] = NoData \/ IsGroupMap(grouped[n])
    /\ started \in BOOLEAN
    /\ annc \in [Node -> BOOLEAN]
    /\ lenQ \in [Node -> Seq(Header)]
    /\ \A n \in Node : \A i \in DOMAIN dataQ[n] : IsGroupMap(dataQ[n][i])
    /\ result = NoData \/ IsGroupMap(result)

(* The abstract round, seen through the data each node holds after       *)
(* checkData and the AggregatingAttributes of the delivered map.           *)
LocalData(n) == CheckData(input[n])
AbsLocal == [n \in Node |-> [k \in DOMAIN LocalData(n) |-> LocalData(n)[k].aa]]
AbsDelivered == IF result = NoData THEN NoData ELSE [k \in DOMAIN result |-> result[k].aa]
Abs == INSTANCE AggregationAbstract WITH local <- AbsLocal, delivered <- AbsDelivered

(* Aggregation correctness (spec 8): whatever the tree shape, the arrival  *)
(* order of the children's messages and the vector lengths, the map the    *)
(* root delivers holds, for every grouping key of any node, the sum of all *)
(* the nodes' AggregatingAttributes for that key, padded column-wise.      *)
ResultCorrect ==
    result # NoData => AbsDelivered = Abs!Total

(* The protocol implements the abstract round: every step either leaves   *)
(* the caller's view unchanged or delivers the total once, and under the  *)
(* fairness of the node goroutines the total is eventually delivered.     *)
AggregationRefines == Abs!Spec

(* The proof hook is called with aligned lists: for every group, data has *)
(* one column per aggregated attribute, and the contributions in column j *)
(* (the node's own and its children's) add up to the j-th attribute of   *)
(* the node's aggregate, padding included.                                *)
SumCol(col) == FoldLeft(LAMBDA x, y : x + y, 0, col)
ProofHookAligned ==
    \A n \in Node : hook[n] # NoData =>
        \A k \in DOMAIN hook[n] :
            /\ Len(hook[n][k].data) = Len(hook[n][k].dataRes)
            /\ \A j \in DOMAIN hook[n][k].data : SumCol(hook[n][k].data[j]) = hook[n][k].dataRes[j]

(* The round ends: the root's Dispatch eventually returns, with a result   *)
(* or an error, rather than blocking forever on LengthNodeChannel.         *)
RoundEnds == <>(pc[Root] \in {"done", "failed"})

=============================================================================
