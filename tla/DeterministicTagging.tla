------------------------- MODULE DeterministicTagging -------------------------
(***************************************************************************)
(* A conode turning the encrypted grouping attributes of its clients into  *)
(* GroupingKeys with CipherVectorToDeterministicTag, one call per client   *)
(* vector, in any order.  The vectors are encrypted under the conode's     *)
(* public key K = Priv*B, the situation of the last tag step of a chain    *)
(* (and of a conode tagging alone); the conode uses its private key and   *)
(* the secret contribution of the query.                                   *)
(***************************************************************************)
EXTENDS DeterministicTagLib, FiniteSets

CONSTANTS
    Clients,    \* the clients whose vectors are tagged
    Cols,       \* ciphertexts per vector
    Plain,      \* the plaintext values a grouping attribute may take
    EncRandom,  \* random scalars the clients may encrypt with
    Priv,       \* the conode's private key
    Secret,     \* secContrib, the query's secret contribution
    Proofs,     \* the proofs argument
    NoData, NoProof

ASSUME Priv \in ZQ /\ Secret \in ZQ \ {0} /\ Proofs \in BOOLEAN

VARIABLES
    plain,   \* plain[c]: the attributes client c encrypted
    ct,      \* ct[c]: its encrypted vector
    out      \* out[c]: what CipherVectorToDeterministicTag returned, or NoData

vars == <<plain, ct, out>>

(* Proof creation may fail only when proofs are created. *)
ProofOutcomes == IF Proofs THEN BOOLEAN ELSE {FALSE}

Init ==
    /\ plain \in [Clients -> [1..Cols -> Plain]]
    /\ \E r \in [Clients -> [1..Cols -> EncRandom]] :
          ct = [c \in Clients |-> [j \in 1..Cols |-> EncryptInt(plain[c][j], r[c][j], Priv)]]
    /\ out = [c \in Clients |-> NoData]

Tag(c) ==
    /\ out[c] = NoData
    /\ \E proofErr \in ProofOutcomes :
          out' = [out EXCEPT ![c] =
                     CipherVectorToDeterministicTag(ct[c], Priv, Secret, Priv, Proofs, proofErr, NoProof)]
    /\ UNCHANGED <<plain, ct>>

Next == \E c \in Clients : Tag(c)

Spec == Init /\ [][Next]_vars

-----------------------------------------------------------------------------
(* Properties *)

(* Tagging determinism (spec 8), the reason a GroupingKey can be a bucket *)
(* key: two vectors tagged without error get the same GroupingKey exactly *)
(* when they encrypt the same attributes, whatever randomness the clients  *)
(* encrypted with.                                                         *)
TagDeterminism ==
    \A c, d \in Clients :
        (out[c] # NoData /\ out[d] # NoData /\ ~out[c].err /\ ~out[d].err)
            => (out[c].key = out[d].key <=> plain[c] = plain[d])

=============================================================================
