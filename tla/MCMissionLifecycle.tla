------------------------- MODULE MCMissionLifecycle -------------------------
(* Instances of MissionLifecycle for TLC. *)
EXTENDS MissionLifecycle, TLC

CONSTANTS h1, h2, m1, m2, m3, q1, x1, x2, read, write

MCTerms(a, n, e, p, d) ==
    [authority |-> a, notBefore |-> n, expiresAt |-> e,
     permitted |-> p, maxDepth |-> d]

\* A proposal that may be delegated twice over and expires after time 1; in
\* the second version it also starts at time 1 only.
MCTermsOfOne == q1 :> MCTerms({read}, 0, 1, TRUE, 2)
MCTermsOfLate == q1 :> MCTerms({read}, 1, 1, TRUE, 0)

MCAskOf == x1 :> {write} @@ x2 :> {read, write}
MCAskOfOne == x1 :> {write}

\* A child that inherits its expiry and may delegate without bound, one that
\* asks to outlive its parent, and one that asks for what an expansion grants.
MCDelegationNone == {}
MCDelegationBounds == {MCTerms({read}, 0, 0, TRUE, 0), MCTerms({read}, 0, 2, TRUE, 0)}
MCDelegationWrite == {MCTerms({write}, 0, 0, FALSE, 0), MCTerms({read}, 0, 2, TRUE, 0)}

Symmetry == Permutations(Handlers) \cup Permutations(Refs)
=============================================================================
