---------------------------- MODULE DeliveryInbox ----------------------------
(***************************************************************************)
(* What the sender of webhooks may rely on, however often it repeats a     *)
(* delivery: the delivery is recorded once, with the content it had then,  *)
(* is announced at most once and as it was recorded, and once recorded it  *)
(* is announced in the end unless the announcement is dropped.             *)
(***************************************************************************)
CONSTANTS DeliveryIds, EventIds, Nothing

VARIABLES
    received,   \* what is recorded of every delivery
    announced,  \* the events that announced it, with what they said of it
    dropped     \* deliveries whose announcement will not come

inbox == <<received, announced, dropped>>

Init ==
    /\ received = [d \in DeliveryIds |-> Nothing]
    /\ announced = [d \in DeliveryIds |-> {}]
    /\ dropped = {}

Receive(d) ==
    /\ received[d] = Nothing /\ received'[d] # Nothing
    /\ received' = [received EXCEPT ![d] = received'[d]]
    /\ UNCHANGED <<announced, dropped>>

Announce(d) ==
    /\ received[d] # Nothing /\ announced[d] = {} /\ d \notin dropped
    /\ \E e \in EventIds : announced' = [announced EXCEPT ![d] = {<<e, received[d]>>}]
    /\ UNCHANGED <<received, dropped>>

Drop(D) ==
    /\ D # {}
    /\ \A d \in D : received[d] # Nothing /\ announced[d] = {}
    /\ dropped' = dropped \cup D
    /\ UNCHANGED <<received, announced>>

Next ==
    \/ \E d \in DeliveryIds : Receive(d) \/ Announce(d)
    \/ \E D \in SUBSET DeliveryIds : Drop(D)

Announces ==
    \A d \in DeliveryIds :
        received[d] # Nothing ~> (announced[d] # {} \/ d \in dropped)

Spec == Init /\ [][Next]_inbox /\ Announces
=============================================================================
