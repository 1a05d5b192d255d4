--------------------------- MODULE MissionContract ---------------------------
(***************************************************************************)
(* What a mission promises whoever reads it, as one atomic change at a     *)
(* time: it is created active at version 1; every change is one version;   *)
(* authority only grows, and only while the mission is active; a suspended *)
(* mission never comes back; completed, revoked and expired are final.     *)
(***************************************************************************)
EXTENDS Integers

CONSTANTS Refs, Actions

VARIABLE missions

Final == {"completed", "revoked", "expired"}
Unborn == [state |-> "none", version |-> 0, authority |-> {}]

Write(r, s, a) ==
    missions' = [missions EXCEPT ![r] =
        [state |-> s, version |-> missions[r].version + 1, authority |-> a]]

Create(r) ==
    /\ missions[r] = Unborn
    /\ \E a \in SUBSET Actions : Write(r, "active", a)

Grant(r) ==
    /\ missions[r].state = "active"
    /\ \E a \in SUBSET Actions :
          Write(r, "active", missions[r].authority \cup a)

Suspend(r) ==
    /\ missions[r].state = "active"
    /\ Write(r, "suspended", missions[r].authority)

Close(r) ==
    /\ missions[r].state \in {"active", "suspended"}
    /\ \E s \in Final : Write(r, s, missions[r].authority)

Init == missions = [r \in Refs |-> Unborn]
Next == \E r \in Refs : Create(r) \/ Grant(r) \/ Suspend(r) \/ Close(r)
Spec == Init /\ [][Next]_missions
=============================================================================
