--------------------------- MODULE ShuffleProofList ---------------------------
(***************************************************************************)
(* Lists of shuffle proofs, lib/shuffle/shuffle_proofs.go:                 *)
(* ShuffleListProofCreation fills Pslp with one goroutine per chunk of     *)
(* VPARALLELIZE indices, and ShuffleListProofVerification verifies the     *)
(* first ceil(percent * n) proofs, one goroutine each, and ANDs the        *)
(* results.                                                                *)
(*                                                                         *)
(* Proof i of a list is the proof ShuffleProofCreation makes for the i-th  *)
(* original list, and is identified by that index; whether it verifies is *)
(* valid[i+1], what ShuffleProofVerification (module ShuffleProofs)        *)
(* returns for it.  Indices are Go's, from 0.  percent is a fraction       *)
(* <<num, den>>: the float product percent*n is modelled by the exact one, *)
(* which it equals for the fractions a caller writes (0, 1/2, 1, ...).    *)
(***************************************************************************)
EXTENDS Integers, Sequences

CONSTANTS
    ProofLists,    \* for each list of proofs, which of them verify
    Percents,      \* the percent arguments, as <<num, den>>
    VPARALLELIZE,
    NoData

VARIABLES
    valid,     \* valid[i+1]: proof i verifies
    Pslp,      \* listProofs.Pslp: index -> the index of the list it proves, or NoData
    j,         \* j[g]: the loop counter of the creation goroutine of chunk g
    pc,        \* "create", "verify", "verifying", "done" or "panicked"
    percent,   \* the percent argument of the verification, or NoData
    results,   \* results: index -> verdict of that proof, or NoData
    verdict    \* what ShuffleListProofVerification returned, or NoData

vars == <<valid, Pslp, j, pc, percent, results, verdict>>

n == Len(valid)
Idx == 0..(n - 1)

(* The chunks: for i := 0; i < nbrProofsToCreate; i += VPARALLELIZE. *)
Chunks == {i \in Idx : i % VPARALLELIZE = 0}

(* The inner loop condition of a creation goroutine. *)
(* Mutant: the chunk's last index left out.          *)
LoopGuard_Short(g, k) == k < VPARALLELIZE - 1 /\ g + k < n
LoopGuard(g, k) == k < VPARALLELIZE /\ g + k < n

(* nbrProofsToVerify := int(math.Ceil(percent * float64(len(Pslp)))).   *)
(* Mutants: the product truncated instead of rounded up, and rounded up  *)
(* as truncation plus one, which overshoots an exact product.            *)
NbrProofsToVerify_Floor(p, m) == (p[1] * m) \div p[2]
NbrProofsToVerify_FloorPlusOne(p, m) == (p[1] * m) \div p[2] + 1
NbrProofsToVerify(p, m) == (p[1] * m + p[2] - 1) \div p[2]

-----------------------------------------------------------------------------
Init ==
    /\ valid \in ProofLists
    /\ Pslp = [i \in Idx |-> NoData]
    /\ j = [g \in Chunks |-> 0]
    /\ pc = "create"
    /\ percent = NoData
    /\ results = NoData
    /\ verdict = NoData

(* One iteration of the creation goroutine of chunk g:                    *)
(* Pslp[g+k] = ShuffleProofCreation(originalList[g+k], ...).              *)
CreateStep(g) ==
    /\ pc = "create"
    /\ LoopGuard(g, j[g])
    /\ Pslp' = [Pslp EXCEPT ![g + j[g]] = g + j[g]]
    /\ j' = [j EXCEPT ![g] = @ + 1]
    /\ UNCHANGED <<valid, pc, percent, results, verdict>>

(* wg.Wait(): every creation goroutine has left its loop. *)
CreateWait ==
    /\ pc = "create"
    /\ \A g \in Chunks : ~LoopGuard(g, j[g])
    /\ pc' = "verify"
    /\ UNCHANGED <<valid, Pslp, j, percent, results, verdict>>

(* ShuffleListProofVerification(listProofs, seed, percent) up to the      *)
(* goroutines: results has nbrProofsToVerify entries, and the loop that   *)
(* starts the goroutines reads listProofs.Pslp[i] for every one of them, *)
(* which panics (index out of range) past the end of the list; a negative *)
(* count panics in StartParallelize and make.                             *)
StartVerify ==
    /\ pc = "verify"
    /\ \E p \in Percents :
          LET nbr == NbrProofsToVerify(p, n)
          IN  /\ percent' = p
              /\ IF nbr > n \/ nbr < 0
                 THEN /\ pc' = "panicked"
                      /\ UNCHANGED results
                 ELSE /\ pc' = "verifying"
                      /\ results' = [i \in 0..(nbr - 1) |-> NoData]
    /\ UNCHANGED <<valid, Pslp, j, verdict>>

(* The goroutine of index i: results[i] = ShuffleProofVerification(v). *)
VerifyOne(i) ==
    /\ pc = "verifying"
    /\ i \in DOMAIN results
    /\ results[i] = NoData
    /\ results' = [results EXCEPT ![i] = valid[Pslp[i] + 1]]
    /\ UNCHANGED <<valid, Pslp, j, pc, percent, verdict>>

(* EndParallelize, then finalResult = finalResult && v over results. *)
Finish ==
    /\ pc = "verifying"
    /\ \A i \in DOMAIN results : results[i] # NoData
    /\ verdict' = \A i \in DOMAIN results : results[i]
    /\ pc' = "done"
    /\ UNCHANGED <<valid, Pslp, j, percent, results>>

Next ==
    \/ \E g \in Chunks : CreateStep(g)
    \/ CreateWait
    \/ StartVerify
    \/ \E i \in Idx : VerifyOne(i)
    \/ Finish

Spec == Init /\ [][Next]_vars

-----------------------------------------------------------------------------
(* Properties *)

(* ShuffleListProofCreation: once its goroutines are joined, slot i of    *)
(* Pslp holds the proof of the i-th list, for every i, whatever the        *)
(* interleaving of the chunks.                                             *)
ListProofsInOrder ==
    pc \in {"verify", "verifying", "done"} => \A i \in Idx : Pslp[i] = i

(* The fraction of a batch verification is rounded up (spec 4.2): the     *)
(* least number c of proofs with c >= percent * n, so a request for 100%  *)
(* checks every proof.                                                     *)
RoundedUp(p, m) ==
    CHOOSE c \in 0..m : /\ c * p[2] >= p[1] * m
                        /\ \A d \in 0..m : d * p[2] >= p[1] * m => c <= d

(* A batch verification that returns true has verified at least the      *)
(* requested fraction of the proofs, rounded up: all of them verify.      *)
BatchVerdictSound ==
    verdict = TRUE => \A i \in 1..RoundedUp(percent, n) : valid[i]

(* ShuffleListProofVerification only panics when asked for a fraction     *)
(* outside [0, 1]: a fraction of at most one never reads past the list,   *)
(* and a negative one whose rounded-up count is 0 verifies nothing.       *)
PanicsOnlyBeyondAll ==
    pc = "panicked" => percent[1] > percent[2] \/ percent[1] < 0

=============================================================================
