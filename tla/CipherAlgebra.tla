---------------------------- MODULE CipherAlgebra ----------------------------
(***************************************************************************)
(* The ciphertext algebra the protocols and the proofs share, over the     *)
(* exponents of the group: a point is a residue modulo the prime Q, the    *)
(* base point B is 1, point addition is + mod Q and scalar multiplication  *)
(* is * mod Q.  This keeps the algebra of ElGamal encryption,              *)
(* rerandomisation, tagging and proof compression exact; only the hardness *)
(* of the discrete logarithm is lost, which no property uses.  The kyber   *)
(* and libunlynx operations modelled here are not part of src/.            *)
(***************************************************************************)
EXTENDS Integers, Sequences

CONSTANT Q   \* the (prime) order of the group

ZQ == 0..(Q - 1)
CipherText == [K : ZQ, C : ZQ]

PAdd(p, q) == (p + q) % Q
PSub(p, q) == (p - q) % Q
PMul(s, p) == (s * p) % Q

(* CipherText.Add and MulCipherTextbyScalar: pointwise. *)
CAdd(a, b) == [K |-> PAdd(a.K, b.K), C |-> PAdd(a.C, b.C)]
CMul(ct, s) == [K |-> PMul(s, ct.K), C |-> PMul(s, ct.C)]
CZero == [K |-> 0, C |-> 0]

(* EncryptInt(h, m) with random r: (r*B, m*B + r*h). *)
EncryptInt(m, r, h) == [K |-> r, C |-> PAdd(m, PMul(r, h))]

(* ShuffleSequence(data, B, h, nil): output i is input pi[i] with every    *)
(* ciphertext rerandomised by adding (beta*B, beta*h).                      *)
Rerandomize(ct, beta, h) == [K |-> PAdd(ct.K, beta), C |-> PAdd(ct.C, PMul(beta, h))]
ShuffleSequence(data, h, pi, beta) ==
    [i \in DOMAIN data |->
        [j \in DOMAIN data[pi[i]] |-> Rerandomize(data[pi[i]][j], beta[i][j], h)]]

=============================================================================
