----------------------------- MODULE EventLedger -----------------------------
(***************************************************************************)
(* The event ledger of both stores, the outbox of the database with the    *)
(* publisher that empties it, and an administrator paging through the      *)
(* list of events.                                                         *)
(*                                                                         *)
(* Memory keeps events in the order in which they are appended.  The       *)
(* database sorts them by the time the handler read from its clock, which  *)
(* may be before events that are already there.                            *)
(***************************************************************************)
EXTENDS Names, Integers, SequencesExt

CONSTANTS
    Missions,                \* the missions the store knows
    EventIds,                \* names events can have
    BatchSize,               \* outbox rows the publisher takes at once
    DefaultCollectionLimit,  \* page of a list unless the query gives one
    MaxCollectionLimit

ASSUME LedgerAssumption ==
    /\ BatchSize \in Nat \ {0}
    /\ DefaultCollectionLimit \in Nat \ {0} /\ MaxCollectionLimit \in Nat \ {0}

VARIABLES
    store,      \* "memory" or "postgres", chosen when the process starts
    ledger,     \* the events in the order in which the store returns them
    outbox,     \* ids of the outbox rows not processed yet
    batch,      \* ids the publisher took and has not logged yet
    published,  \* ids the publisher logged
    lost,       \* ids that were taken and will never be logged
    reader      \* an administrator paging through the events

Ids(entries) == {entries[k].id : k \in DOMAIN entries}

ledgerVars == <<store, ledger, outbox, batch, published, lost, reader>>

\* An event about a mission the database does not know is refused, and no
\* handler looks at the error.
Keeps(e) == store = "memory" \/ e.mission \in Missions \cup {""}

\* Somewhere after the events that were there when the handler read its clock.
appendEventTx(e, since) ==
    \E k \in 0..Len(ledger) :
        /\ \A l \in (k + 1)..Len(ledger) : ledger[l].id \notin since
        /\ ledger' = InsertAt(ledger, k + 1, e)

\* Seeded defect: the row of the outbox is left to another transaction.
AppendWithoutOutbox(e, since) ==
    IF Keeps(e)
    THEN /\ IF store = "memory" THEN ledger' = Append(ledger, e) ELSE appendEventTx(e, since)
         /\ UNCHANGED outbox
    ELSE UNCHANGED <<ledger, outbox>>

AppendEvent(e, since) ==
    IF Keeps(e)
    THEN /\ IF store = "memory" THEN ledger' = Append(ledger, e) ELSE appendEventTx(e, since)
         /\ outbox' = IF store = "memory" THEN outbox ELSE outbox \cup {e.id}
    ELSE UNCHANGED <<ledger, outbox>>

-----------------------------------------------------------------------------
(* The publisher.                                                          *)

\* The rows that wait longer than a row.
Position(id) == CHOOSE k \in DOMAIN ledger : ledger[k].id = id
Older(id) == {o \in outbox : Position(o) < Position(id)}

\* The n rows that wait longest, in order.
Oldest(n) ==
    LET taken == {id \in outbox : Cardinality(Older(id)) < n}
    IN  [k \in 1..Cardinality(taken) |->
            CHOOSE id \in outbox : Cardinality(Older(id)) = k - 1]

\* One statement marks the rows and returns them; when the rows cannot be read
\* back they stay marked.
PublishOutboxEvents ==
    /\ store = "postgres" /\ batch = << >> /\ outbox # {}
    /\ outbox' = outbox \ ToSet(Oldest(BatchSize))
    /\ \/ batch' = Oldest(BatchSize) /\ UNCHANGED lost
       \/ lost' = lost \cup ToSet(Oldest(BatchSize)) /\ UNCHANGED batch
    /\ UNCHANGED <<store, ledger, published, reader>>

OutboxPublisherStart ==
    /\ batch # << >>
    /\ published' = Append(published, Head(batch))
    /\ batch' = Tail(batch)
    /\ UNCHANGED <<store, ledger, outbox, lost, reader>>

-----------------------------------------------------------------------------
(* Lists in pages.                                                         *)

tenantMatches(filter, tenant) == filter = "" \/ Lower(filter) = Lower(tenant)

\* The events of a tenant, and the ones of them the store returns after an entry.
Listed(from, tenant) == {k \in DOMAIN from : tenantMatches(tenant, from[k].tenant)}
Newer(from, tenant, k) == {l \in Listed(from, tenant) : k < l}

\* The newest event first.
ListEvents(from, tenant) ==
    [i \in 1..Cardinality(Listed(from, tenant)) |->
        from[CHOOSE k \in Listed(from, tenant) : Cardinality(Newer(from, tenant, k)) = i - 1]]

PageLimit(limit) ==
    LET wanted == IF limit <= 0 THEN DefaultCollectionLimit ELSE limit
    IN  IF wanted > MaxCollectionLimit THEN MaxCollectionLimit ELSE wanted

\* Seeded defect: the cursor of the next page skips an item.
PaginateSkipping(items, start, limit) ==
    LET end == IF start + PageLimit(limit) < Len(items) THEN start + PageLimit(limit)
               ELSE Len(items)
    IN  [valid |-> start <= Len(items), items |-> SubSeq(items, start + 1, end),
         next |-> IF end < Len(items) THEN end + 1 ELSE 0]

\* A page and the offset of the next one, 0 when there is none.
paginate(items, start, limit) ==
    LET end == IF start + PageLimit(limit) < Len(items) THEN start + PageLimit(limit)
               ELSE Len(items)
    IN  [valid |-> start <= Len(items), items |-> SubSeq(items, start + 1, end),
         next |-> IF end < Len(items) THEN end ELSE 0]

NotReading == [state |-> "idle"]

StartReading(tenant, limit) ==
    /\ reader = NotReading
    /\ reader' = [state |-> "reading", tenant |-> tenant, limit |-> limit, next |-> 0,
                  owed |-> Ids(ListEvents(ledger, tenant)), seen |-> {}, failed |-> FALSE]
    /\ UNCHANGED <<store, ledger, outbox, batch, published, lost>>

\* The rows Events returns: all of them, or the ones that were read when the
\* database failed, which nobody is told.
Events == {ledger} \cup IF store = "memory" THEN {}
                        ELSE {SubSeq(ledger, 1, n) : n \in 0..(Len(ledger) - 1)}

ReadPage ==
    /\ reader.state = "reading"
    /\ \E from \in Events :
         LET page == paginate(ListEvents(from, reader.tenant), reader.next, reader.limit)
         IN  reader' = [reader EXCEPT
                !.state = IF ~page.valid THEN "refused"
                          ELSE IF page.next = 0 THEN "finished" ELSE "reading",
                !.next = page.next,
                !.seen = @ \cup (IF page.valid THEN Ids(page.items) ELSE {}),
                !.failed = @ \/ from # ledger]
    /\ UNCHANGED <<store, ledger, outbox, batch, published, lost>>

-----------------------------------------------------------------------------
LedgerInit(s) ==
    /\ store = s
    /\ ledger = << >> /\ outbox = {} /\ batch = << >>
    /\ published = << >> /\ lost = {}
    /\ reader = NotReading

\* Memory has no outbox to follow.
Queued == IF store = "postgres" THEN Ids(ledger) ELSE {}

Feed == INSTANCE EventFeed WITH log <- Queued, handed <- published

\* Whoever follows the outbox sees EventFeed: an event is recorded once, handed
\* over at most once and only after it was recorded, and in the end it is handed
\* over or lost with a batch (appendEventTx, PublishOutboxEvents, Start).
FeedSpec == Feed!Spec

\* Following the next cursors from the first page to the last, an administrator
\* is shown every event of the tenant that was there when the first page was
\* served, whatever is appended in between and wherever the store puts it; no
\* cursor the service gave out is refused (ListEvents, paginate).  Only a failure
\* of the database, which Events hides, breaks this.
PagesCoverLedger ==
    reader # NotReading /\ ~reader.failed =>
        /\ reader.state # "refused"
        /\ reader.state = "finished" => reader.owed \subseteq reader.seen
=============================================================================
