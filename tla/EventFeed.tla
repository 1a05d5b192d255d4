----------------------------- MODULE EventFeed -----------------------------
(***************************************************************************)
(* What the ledger promises whoever follows it: an event is recorded once, *)
(* is handed over at most once and only after it was recorded, and is      *)
(* handed over in the end unless it is lost on the way.  The detailed      *)
(* ledger with its outbox and publisher is EventLedger.                    *)
(***************************************************************************)
EXTENDS Naturals, Sequences

CONSTANT EventIds

VARIABLES
    log,     \* the events recorded
    handed,  \* the events handed over, in the order in which they were
    lost     \* events that left the outbox and were not handed over

feed == <<log, handed, lost>>

Settled == {handed[k] : k \in DOMAIN handed} \cup lost

Init == log = {} /\ handed = << >> /\ lost = {}

Record(e) ==
    /\ e \notin log
    /\ log' = log \cup {e}
    /\ UNCHANGED <<handed, lost>>

Hand(e) ==
    /\ e \in log \ Settled
    /\ handed' = Append(handed, e)
    /\ UNCHANGED <<log, lost>>

Lose(E) ==
    /\ E \subseteq log \ Settled
    /\ lost' = lost \cup E
    /\ UNCHANGED <<log, handed>>

Next ==
    \/ \E e \in EventIds : Record(e) \/ Hand(e)
    \/ \E E \in SUBSET EventIds : Lose(E)

\* Nothing stays in the outbox for good.
Delivers == \A e \in EventIds : e \in log ~> e \in Settled

Spec == Init /\ [][Next]_feed /\ Delivers
=============================================================================
