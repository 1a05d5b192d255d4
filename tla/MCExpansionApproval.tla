------------------------- MODULE MCExpansionApproval -------------------------
(* Instances of ExpansionApproval for TLC. *)
EXTENDS ExpansionApproval, TLC

CONSTANTS h1, h2, x1, ann, bob, cat, k1

\* One approver suffices, but only bob may be it; two of all must agree.
MCOneThenTwo == <<[matches |-> {x1}, required |-> 1, allowed |-> {bob}],
                  [matches |-> ExpansionIds, required |-> 2, allowed |-> Approvers]>>

\* A narrow rule that is listed before a wide one.
MCNarrowFirst == <<[matches |-> {x1}, required |-> 2, allowed |-> {bob, cat}],
                   [matches |-> ExpansionIds, required |-> 2, allowed |-> Approvers]>>
=============================================================================
