------------------------- MODULE DeterministicTagLib -------------------------
(***************************************************************************)
(* The deterministic tag library, lib/deterministic_tag/                   *)
(* deterministic_tag.go, over the group of CipherAlgebra: the tag step on  *)
(* a ciphertext and on a vector, and CipherVectorToDeterministicTag, which *)
(* tags a vector, creates the creation proof of the step and turns the C   *)
(* points into a GroupingKey.                                              *)
(*                                                                         *)
(* A creation proof (DeterministicTagCrListProofCreation, not under src/) *)
(* is modelled by its statement (the vector before, the vector after, the *)
(* public key K) and the witnesses it was computed from (the private key  *)
(* and the secret contribution).  Following spec 4.3, it verifies when     *)
(* the witnesses show that the statement is one honest tag step: K is the *)
(* public key of the private key and the vector after is the tag of the   *)
(* vector before under the two witnesses.                                 *)
(***************************************************************************)
EXTENDS CipherAlgebra

(* DeterministicTag: K' = s*K, C' = s*(C - private*K). *)
(* Mutant: the contribution private*K subtracted after the multiplication *)
(* by s, C' = s*C - private*K.                                              *)
DeterministicTag_SubAfterMul(ct, private, secretContrib) ==
    [K |-> PMul(secretContrib, ct.K),
     C |-> PSub(PMul(secretContrib, ct.C), PMul(private, ct.K))]
DeterministicTag(ct, private, secretContrib) ==
    [K |-> PMul(secretContrib, ct.K),
     C |-> PMul(secretContrib, PSub(ct.C, PMul(private, ct.K)))]

(* DeterministicTagSequence: the tag of every ciphertext, in place; the   *)
(* VPARALLELIZE chunks write disjoint indices.                             *)
DeterministicTagSequence(cv, private, secretContrib) ==
    [j \in DOMAIN cv |-> DeterministicTag(cv[j], private, secretContrib)]

(* DeterministicTagCrListProofCreation(vBef, vAft, K, privKey, secContrib) *)
(* and the verification of what it returns.                                *)
DeterministicTagCrListProofCreation(vBef, vAft, K, privKey, secContrib) ==
    [vBef |-> vBef, vAft |-> vAft, K |-> K, k |-> privKey, s |-> secContrib]
TagProofVerifies(pr) ==
    /\ pr.K = PMul(pr.k, 1)
    /\ pr.vAft = DeterministicTagSequence(pr.vBef, pr.k, pr.s)

(* DeterministCipherVector.Key(): the C points of the vector, in order. *)
Key(dcv) == dcv

(* CipherVectorToDeterministicTag(vBef, privKey, secContrib, K, proofs),  *)
(* with proofErr the outcome of the proof creation: the GroupingKey, the   *)
(* proof (NoProof when none is made) and whether an error was returned.    *)
(* On an error the key is the empty GroupingKey, no point at all.         *)
CipherVectorToDeterministicTag(vBef, privKey, secContrib, K, proofs, proofErr, NoProof) ==
    LET vAft == DeterministicTagSequence(vBef, privKey, secContrib)
    IN  IF proofs /\ proofErr
        THEN [key |-> <<>>, proof |-> NoProof, err |-> TRUE]
        ELSE [key   |-> Key([j \in DOMAIN vAft |-> vAft[j].C]),
              proof |-> IF proofs
                        THEN DeterministicTagCrListProofCreation(vBef, vAft, K, privKey, secContrib)
                        ELSE NoProof,
              err   |-> FALSE]

=============================================================================
