------------------------- MODULE MCCredentialBroker -------------------------
(* Instances of CredentialBroker for TLC. *)
EXTENDS CredentialBroker, TLC

CONSTANTS h1, h2, m1, i1, i2, c1, c2, l1, n1, n2

\* A mission that expires, and one that starts later and does not.
MCWindowEnds == m1 :> [notBefore |-> 0, expiresAt |-> 3]
MCWindowOpen == m1 :> [notBefore |-> 1, expiresAt |-> 0]

Symmetry ==
    UNION {Permutations(S) : S \in {Handlers, ProjectionIds, CredentialIds, Nonces}}
=============================================================================
