--------------------------- MODULE ShufflingPlusDDT ---------------------------
(***************************************************************************)
(* The shuffling + distributed deterministic tagging ring protocol of      *)
(* protocols/shuffling+ddt_protocol.go, with the tag step of               *)
(* lib/deterministic_tag/deterministic_tag.go.                             *)
(*                                                                         *)
(* The ring is Tree().List(): every node sends to the node after it, the   *)
(* last one to the root.  The root's Start sends the ciphertexts and the   *)
(* roster's aggregate key to the next node.  Every node, when the data     *)
(* reaches it, (1) shuffles and rerandomises the list under the key it     *)
(* received, (2) adds SurveySecretKey*B to every C, (3) applies            *)
(* DeterministicTag with its private key and SurveySecretKey, and then     *)
(* forwards the list with the key minus its own public key; the root,      *)
(* which processes last, delivers the C components as the tags.            *)
(*                                                                         *)
(* The group is that of CipherAlgebra (exponents modulo Q); the tag step  *)
(* is that of DeterministicTagLib.                                         *)
(***************************************************************************)
EXTENDS DeterministicTagLib, FiniteSets, SequencesExt, TLC

CONSTANTS
    NodeList,     \* Tree().List(): the ring order, the root first
    Priv,         \* Priv[n]: the private key of node n (p.Private())
    SurveySecret, \* SurveySecret[n]: *p.SurveySecretKey at node n
    Records,      \* possible plaintext records (one vector per response)
    EncRandom,    \* random scalars the clients may encrypt with
    Blinding,     \* blinding scalars ShuffleSequence may draw
    Proofs,       \* p.Proofs: proofs are created at every step
    VPARALLELIZE, \* libunlynx.VPARALLELIZE: responses per step-3 goroutine
    Precompute,   \* nodes whose p.Precomputed is set; as in the simulations,
                  \* it is computed under Roster().Aggregate
    NoData        \* no message / no result yet

Node == Range(NodeList)
N == Len(NodeList)
Root == NodeList[1]

ASSUME /\ N >= 1 /\ Q > 1
       /\ \A n \in Node : Priv[n] \in ZQ /\ SurveySecret[n] \in ZQ \ {0}
       /\ Proofs \in BOOLEAN /\ Precompute \subseteq Node /\ VPARALLELIZE >= 1

VARIABLES
    clear,    \* the plaintext records the clients encrypted (never changes)
    target,   \* *p.TargetData at the root: the encrypted records
    started,  \* the root's Start has run
    pc,       \* pc[n]: "wait" in Dispatch, "done" or "failed"
    msg,      \* msg[n]: the data (and key) that reached n, or NoData; the
              \* CVLengths message sent with it always matches the data
    result,   \* the tag list the root put on FeedbackChannel, or NoData
    perr,     \* perr[n]: Dispatch's err at n holds a proof-creation error
    tproof    \* tproof[n]: the step-3 creation proofs made at n, by the
              \* index of their response, or NoData

vars == <<clear, target, started, pc, msg, result, perr, tproof>>

-----------------------------------------------------------------------------
Public(n) == Priv[n]                 \* p.Public() = Priv[n] * B
Aggregate ==                         \* Roster.Aggregate: sum of the public keys
    MapThenSumSet(Public, Node) % Q

(* The position of n in Tree().List() and the next node of the circuit,   *)
(* chosen in NewShufflingPlusDDTProtocol.                                  *)
IndexOf(n) == CHOOSE i \in 1..N : NodeList[i] = n
NextNodeInCircuit(n) == NodeList[(IndexOf(n) % N) + 1]

(* The key the rerandomisation of node n is done under: the shuffling key *)
(* received, or, with p.Precomputed set, the key the precomputed pairs     *)
(* (beta*B, beta*K) were made for, whatever key has been received.         *)
ShuffleKey(n, key) == IF n \in Precompute THEN Aggregate ELSE key

(* The responses whose step-3 proof creation fails: any, and only when    *)
(* proofs are created.                                                      *)
TagFailures(idx) == IF Proofs THEN SUBSET idx ELSE {{}}

(* Step 3 runs one goroutine per chunk of VPARALLELIZE responses; on an   *)
(* error the goroutine returns before its copy(shuffledData[i+j], vAft),   *)
(* so response i keeps its untagged vector when a response of its chunk   *)
(* at or before it failed.                                                  *)
(* Mutant: every response copied, as if the goroutine went on.             *)
Chunk(i) == (i - 1) \div VPARALLELIZE
LeftUntagged_None(i, failed) == FALSE
LeftUntagged(i, failed) == \E f \in failed : Chunk(f) = Chunk(i) /\ f <= i

(* Step 2: C + SurveySecretKey*B. *)
AddSecret(ct, s) == [K |-> ct.K, C |-> PAdd(ct.C, s)]

(* The shuffling key forwarded by a non-root node: ShuffKey - p.Public(). *)
(* Mutant: the key forwarded unchanged.                                   *)
ForwardKey_NoSub(key, n) == key
ForwardKey(key, n) == PSub(key, Public(n))

(* The root's result: the C point of every tagged ciphertext. *)
(* Mutant: the K point of every ciphertext delivered instead.  *)
TagsOf_KPoint(tagged) == [i \in DOMAIN tagged |-> [j \in DOMAIN tagged[i] |-> tagged[i][j].K]]
TagsOf(tagged) == [i \in DOMAIN tagged |-> [j \in DOMAIN tagged[i] |-> tagged[i][j].C]]

-----------------------------------------------------------------------------
R == Len(CHOOSE rec \in Records : TRUE)          \* responses per list
Cols == Len((CHOOSE rec \in Records : TRUE)[1])  \* ciphertexts per response

Init ==
    /\ clear \in Records
    /\ \E r \in [1..R -> [1..Cols -> EncRandom]] :
          target = [i \in 1..R |-> [j \in 1..Cols |-> EncryptInt(clear[i][j], r[i][j], Aggregate)]]
    /\ started = FALSE
    /\ pc = [n \in Node |-> "wait"]
    /\ msg = [n \in Node |-> NoData]
    /\ result = NoData
    /\ perr = [n \in Node |-> FALSE]
    /\ tproof = [n \in Node |-> NoData]

(* Start, at the root: send the length message and the data, with the     *)
(* roster's aggregate key as shuffling key, to the next node.              *)
Start ==
    /\ ~started
    /\ started' = TRUE
    /\ msg' = [msg EXCEPT ![NextNodeInCircuit(Root)] =
                  [data |-> target, key |-> Aggregate]]
    /\ UNCHANGED <<clear, target, pc, result, perr, tproof>>

(* Dispatch at n once the length message and the data have arrived, when  *)
(* the shuffle proof (step 1) or an addition proof (step 2) fails: the     *)
(* error is returned and nothing is sent.                                   *)
ProofError(n) ==
    /\ pc[n] = "wait"
    /\ msg[n] # NoData
    /\ Proofs
    /\ pc' = [pc EXCEPT ![n] = "failed"]
    /\ perr' = [perr EXCEPT ![n] = TRUE]
    /\ UNCHANGED <<clear, target, started, msg, result, tproof>>

(* Dispatch at n once the length message and the data have arrived and    *)
(* steps 1 and 2 succeed: steps 1 to 3, then the result at the root, or   *)
(* the list with key - Public(n) sent to the next node.  Under p.Proofs   *)
(* step 3 creates a proof per response with the arguments (vBef, vAft,    *)
(* p.Public(), SurveySecretKey, p.Private()); an error of it is stored in *)
(* err, which is not read again, and leaves the rest of its chunk         *)
(* untagged.                                                               *)
Process(n) ==
    /\ pc[n] = "wait"
    /\ msg[n] # NoData
    /\ LET in == msg[n].data
       IN \E failed \in TagFailures(DOMAIN in), pi \in SetToSeqs(DOMAIN in),
             beta \in [DOMAIN in -> [1..Cols -> Blinding]] :
          LET shuffled == ShuffleSequence(in, ShuffleKey(n, msg[n].key), pi, beta)
              added    == [i \in DOMAIN shuffled |->
                              [j \in DOMAIN shuffled[i] |-> AddSecret(shuffled[i][j], SurveySecret[n])]]
              tagged   == [i \in DOMAIN added |->
                              IF LeftUntagged(i, failed) THEN added[i]
                              ELSE DeterministicTagSequence(added[i], Priv[n], SurveySecret[n])]
              proved   == {i \in DOMAIN added : ~LeftUntagged(i, failed)}
          IN /\ perr' = [perr EXCEPT ![n] = failed # {}]
             /\ tproof' = IF Proofs
                          THEN [tproof EXCEPT ![n] = [i \in proved |->
                                  DeterministicTagCrListProofCreation(added[i], tagged[i],
                                      Public(n), SurveySecret[n], Priv[n])]]
                          ELSE tproof
             /\ IF n = Root
                THEN /\ result' = TagsOf(tagged)
                     /\ UNCHANGED msg
                ELSE /\ msg' = [msg EXCEPT ![NextNodeInCircuit(n)] =
                                  [data |-> tagged, key |-> ForwardKey(msg[n].key, n)]]
                     /\ UNCHANGED result
    /\ pc' = [pc EXCEPT ![n] = "done"]
    /\ UNCHANGED <<clear, target, started>>

(* The root's Dispatch runs from the protocol's creation and gives up      *)
(* after libunlynx.TIMEOUT if the ring has not come back by then.  A       *)
(* non-root node is created by the length message, and the data follows    *)
(* on the same connection, so its waits do not time out.                   *)
Timeout ==
    /\ pc[Root] = "wait"
    /\ msg[Root] = NoData
    /\ pc' = [pc EXCEPT ![Root] = "failed"]
    /\ UNCHANGED <<clear, target, started, msg, result, perr, tproof>>

Next ==
    \/ Start
    \/ Timeout
    \/ \E n \in Node : Process(n) \/ ProofError(n)

(* The properties checked of the ring are safety properties, so the      *)
(* specification carries no fairness.                                      *)
Spec == Init /\ [][Next]_vars

-----------------------------------------------------------------------------
(* Properties *)

(* The order in which the nodes tag: the ring after the root, then the    *)
(* root.  Tagging at node n maps the plaintext m to s_n * (m + s_n).       *)
RingOrder == Tail(NodeList) \o <<Root>>
TagOfPrefix(m, k) ==
    FoldLeft(LAMBDA acc, n : PMul(SurveySecret[n], PAdd(acc, SurveySecret[n])), m,
             SubSeq(RingOrder, 1, k))
RefTag(m) == TagOfPrefix(m, N)
TagAll(recs, k) == [i \in DOMAIN recs |-> [j \in DOMAIN recs[i] |-> TagOfPrefix(recs[i][j], k)]]

(* ElGamal decryption of ct under a key whose secret is the sum of the    *)
(* private keys behind `key`.                                              *)
Decrypt(ct, key) == PSub(ct.C, PMul(key, ct.K))

(* Tag correctness (spec 4.3, 8 "tagging determinism"): the tags the root *)
(* delivers are, as a multiset, exactly the reference tags of the clear   *)
(* records -- whatever permutation and blinding every node drew -- so     *)
(* equal grouping attributes get equal tags and distinct ones distinct    *)
(* tags.                                                                   *)
TagsCorrect ==
    result # NoData => ToBag(result) = ToBag(TagAll(clear, N))

(* The nodes that have run their steps, and whether every one of them     *)
(* made all its step-3 tag proofs.                                         *)
Processed == {n \in Node : pc[n] = "done"}
NoTagFailure == \A n \in Processed : ~perr[n]

(* Tag correctness of the rounds in which every tag proof was created:     *)
(* proofs that succeed change nothing in the data, so, whatever node uses  *)
(* precomputed values made for the key it received and whatever the       *)
(* permutations and blindings, the root delivers the reference tags.  (A   *)
(* round with a failed tag proof delivers untagged responses: run          *)
(* ddt_tagproof_error.)                                                    *)
ProvedTagsCorrect == NoTagFailure => TagsCorrect

(* The ring invariant: the list in flight to a waiting node n is          *)
(* encrypted under the key it carries, that key is the sum of the public  *)
(* keys of the nodes that have not tagged yet, and it decrypts to the     *)
(* clear records tagged by the nodes that have, in ring order.  This ties *)
(* the propagated shuffling key (ShuffKey - Public) to the ring's progress, *)
(* in every round whose tag proofs have all been created so far.          *)
RingInvariant ==
    \A n \in Node :
        NoTagFailure /\ pc[n] = "wait" /\ msg[n] # NoData =>
            /\ msg[n].key = MapThenSumSet(Public, Node \ Processed) % Q
            /\ ToBag([i \in DOMAIN msg[n].data |->
                        [j \in DOMAIN msg[n].data[i] |-> Decrypt(msg[n].data[i][j], msg[n].key)]])
               = ToBag(TagAll(clear, Cardinality(Processed)))

(* Every step-3 creation proof a node makes verifies against the vectors *)
(* before and after its tag step and its public key (spec 4.3: the proof  *)
(* lets any verifier confirm the node performed its step honestly).        *)
TagProofsVerify ==
    \A n \in Node : tproof[n] # NoData => \A i \in DOMAIN tproof[n] : TagProofVerifies(tproof[n][i])

=============================================================================
