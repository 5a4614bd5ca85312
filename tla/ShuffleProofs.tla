---------------------------- MODULE ShuffleProofs ----------------------------
(***************************************************************************)
(* Creation and verification of a shuffle proof, lib/shuffle/              *)
(* shuffle_proofs.go.  A conode shuffles a list of CipherVectors and       *)
(* publishes a PublishedShufflingProof; a verifier checks it.              *)
(*                                                                         *)
(* ShuffleProofCreation compresses every row of the original and of the    *)
(* shuffled list into one ciphertext, weighting column j by the challenge  *)
(* e[j] = CipherVectorTag(h)[j], compresses the blinding matrix the same   *)
(* way, and proves with kyber's PairShuffle that the compressed shuffled   *)
(* list is a rerandomised permutation of the compressed original.  The     *)
(* PairShuffle argument and the Fiat-Shamir hash (kyber, not in the         *)
(* repository) are modelled by what they establish: ps.Prove receives only *)
(* the compressed original (Xhat, Yhat), pi and the compressed blinding,   *)
(* and its transcript binds the shuffled pair it computes from them; the   *)
(* XhatBar/YhatBar the creation compresses are never passed to it.  A     *)
(* verifier's HashVerify succeeds when the compressed lists it recomputes  *)
(* are the ones the transcript binds.  A conode that does not              *)
(* follow the protocol may publish the proof with another shuffled list   *)
(* (Tamper): the roster is mutually distrusting.                          *)
(***************************************************************************)
EXTENDS CipherAlgebra, FiniteSets, SequencesExt

CONSTANTS
    Inputs,      \* the original lists a conode may be asked to shuffle
    H,           \* the key the list is encrypted under (h)
    Challenge,   \* CipherVectorTag(h): one scalar per column
    Blinding,    \* blinding scalars ShuffleSequence may draw
    Alteration,  \* amounts a dishonest conode may add to a C point
    NoData

VARIABLES
    orig,     \* the original list
    out,      \* the list ShuffleSequence returned, or NoData
    psp,      \* the published proof [orig, shuffled, h, hashProof], or NoData
    pc,       \* "shuffle", "published", "panicked" or "verified"
    verdict   \* what ShuffleProofVerification returned, or NoData

vars == <<orig, out, psp, pc, verdict>>

-----------------------------------------------------------------------------
(* compressCipherVector: sum_i e[i] * cv[i] (every row here has as many *)
(* ciphertexts as the challenge has scalars, so its length check holds).  *)
compressCipherVector(cv, e) ==
    FoldLeft(CAdd, CZero, [i \in DOMAIN cv |-> CMul(cv[i], e[i])])

(* compressListCipherVector: the K and the C points of every compressed   *)
(* row, returned in that order.                                            *)
compressListCipherVector(rows, e) ==
    <<[i \in DOMAIN rows |-> compressCipherVector(rows[i], e).K],
      [i \in DOMAIN rows |-> compressCipherVector(rows[i], e).C]>>

(* compressBeta: sum_j beta[i][j] * e[j] for every row i. *)
(* Mutant: the row's challenge used for every column.    *)
compressBeta_RowIndex(beta, e) ==
    [i \in DOMAIN beta |-> FoldLeft(PAdd, 0, [j \in DOMAIN beta[i] |-> PMul(beta[i][j], e[i])])]
compressBeta(beta, e) ==
    [i \in DOMAIN beta |-> FoldLeft(PAdd, 0, [j \in DOMAIN beta[i] |-> PMul(beta[i][j], e[j])])]

(* What ps.Prove(pi, nil, h, b, X, Y) binds: the input pair and the       *)
(* output it computes, output i being input pi[i] rerandomised with b[i]   *)
(* (g = nil is the base point).                                            *)
PairShuffleProve(X, Y, h, pi, b) ==
    [X |-> X, Y |-> Y,
     Xbar |-> [i \in DOMAIN X |-> PAdd(X[pi[i]], b[i])],
     Ybar |-> [i \in DOMAIN Y |-> PAdd(Y[pi[i]], PMul(b[i], h))]]

(* The compressed statement of a proof: Xhat, Yhat, XhatBar, YhatBar. *)
Statement(original, shuffled, e) ==
    LET x == compressListCipherVector(original, e)
        y == compressListCipherVector(shuffled, e)
    IN  [X |-> x[1], Y |-> x[2], Xbar |-> y[1], Ybar |-> y[2]]

Perms(rows) == SetToSeqs(DOMAIN rows)
Betas(rows) == [DOMAIN rows -> [1..Len(Challenge) -> Blinding]]

-----------------------------------------------------------------------------
Init ==
    /\ orig \in Inputs
    /\ out = NoData
    /\ psp = NoData
    /\ pc = "shuffle"
    /\ verdict = NoData

(* ShuffleSequence, then ShuffleProofCreation(orig, shuffled, B, h, beta,  *)
(* pi).  The creation first reads originalList[0] for CipherVectorTag, an  *)
(* index out of range on an empty list.  Otherwise it compresses the rows  *)
(* and the blinding and publishes the transcript of ps.Prove, which sees   *)
(* neither the shuffled list nor its compression and so cannot fail on    *)
(* them.                                                                    *)
ShuffleAndProveEmpty ==
    /\ pc = "shuffle"
    /\ Len(orig) = 0
    /\ out' = orig
    /\ pc' = "panicked"
    /\ UNCHANGED <<orig, psp, verdict>>
ShuffleAndProve ==
    /\ pc = "shuffle"
    /\ Len(orig) > 0
    /\ \E pi \in Perms(orig), beta \in Betas(orig) :
          LET shuffled == ShuffleSequence(orig, H, pi, beta)
              e        == Challenge
              x        == compressListCipherVector(orig, e)
          IN  /\ out' = shuffled
              /\ psp' = [orig |-> orig, shuffled |-> shuffled, h |-> H,
                         hashProof |-> PairShuffleProve(x[1], x[2], H, pi, compressBeta(beta, e))]
    /\ pc' = "published"
    /\ UNCHANGED <<orig, verdict>>

(* A dishonest conode publishes the proof with the C points of one row of *)
(* the shuffled list changed.                                              *)
Tamper ==
    /\ pc = "published"
    /\ psp.shuffled = out
    /\ \E i \in DOMAIN psp.shuffled, d \in [1..Len(Challenge) -> Alteration] :
          psp' = [psp EXCEPT !.shuffled[i] =
                     [j \in DOMAIN @ |-> [K |-> @[j].K, C |-> PAdd(@[j].C, d[j])]]]
    /\ UNCHANGED <<orig, out, pc, verdict>>

(* ShuffleProofVerification(psp, h): recompute the compression of both    *)
(* lists with CipherVectorTag(seed) and HashVerify the transcript, which   *)
(* succeeds when it was made for the same compressed statement.            *)
Verify ==
    /\ pc = "published"
    /\ verdict' = (Statement(psp.orig, psp.shuffled, Challenge) = psp.hashProof)
    /\ pc' = "verified"
    /\ UNCHANGED <<orig, out, psp>>

Next == ShuffleAndProveEmpty \/ ShuffleAndProve \/ Tamper \/ Verify

Spec == Init /\ [][Next]_vars

-----------------------------------------------------------------------------
(* Properties *)

(* The list was produced by ShuffleSequence from the original under h. *)
IsShuffleOf(shuffled, original, h) ==
    \E pi \in Perms(original), beta \in [DOMAIN original -> [1..Len(Challenge) -> ZQ]] :
        shuffled = ShuffleSequence(original, h, pi, beta)

(* Completeness (spec 4.2): ShuffleProofVerification accepts the proof    *)
(* published with the list ShuffleSequence produced.  Creation and         *)
(* verification compress different things -- the prover the original and  *)
(* the blinding matrix, the verifier both lists -- so this holds only if   *)
(* compressing the rerandomised rows column by column gives the            *)
(* compressed original rerandomised by the compressed blinding.            *)
HonestProofVerifies ==
    pc = "verified" /\ psp.shuffled = out => verdict = TRUE

(* Soundness (spec 2 "proving no record was added, dropped, or altered"): *)
(* a proof that verifies is a proof of a list that is a shuffle of the    *)
(* original.                                                               *)
VerifiedIsShuffle ==
    verdict = TRUE => IsShuffleOf(psp.shuffled, psp.orig, psp.h)

=============================================================================
