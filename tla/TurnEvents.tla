------------------------------ MODULE TurnEvents -----------------------------
(***************************************************************************)
(* The events of the turn coordinator on their way to a client             *)
(* (ride-codex-turn-coordinator.ts): a queue of bounded size that a timer  *)
(* flushes in batches of one turn, and for a client that has not taken its *)
(* last batch yet a second, bounded, list of batches that wait.            *)
(*                                                                         *)
(* Turns are numbered; a turn starts, streams and ends, and its recovery   *)
(* may fail afterwards.  A "delta" stands for every event that is text of  *)
(* an item; its text is the numbers of the deltas it joins.  Patches,      *)
(* plans, diffs, usage and the server's warnings travel as an item's start *)
(* does.  The size of a delta is that of its text, any other event and     *)
(* what surrounds a batch have size 1.  Counts of losses are flags.        *)
(***************************************************************************)
EXTENDS Naturals, Sequences, SequencesExt, FiniteSets, FiniteSetsExt

CONSTANTS
    MaxTurn,            \* bound on the turns
    MaxDeltas,          \* bound on the deltas
    MaxItemEvents,      \* bound on the items' starts and ends
    MaxRetained,        \* maxRetainedItems
    MaxText,            \* maxItemBytes
    MaxQueued,          \* maxQueuedBytes
    MaxBatchEvents,     \* maxBatchEvents
    MaxPending          \* MAX_CLIENT_PENDING_BATCHES, 4 in the code

VARIABLES
    turn, phase, failed,    \* the latest turn, its phase, whether its recovery failed
    said,                   \* the turns of the deltas there were
    items,                  \* #retainedItems, in its order: [item, open]
    begun,                  \* how many items were started or completed
    queue,                  \* #queue: entries [id, event]
    meta,                   \* #queueMetadata, in its order
    flush,                  \* #flushHandle
    client,                 \* the client's record
    shown,                  \* what was delivered: entries [id, event]
    silenced                \* history: turns of which a loss was recorded no more

vars == <<turn, phase, failed, said, items, begun, queue, meta, flush, client, shown, silenced>>

Event(type) == [type |-> type, item |-> 0, text |-> <<>>]
Delta(item, n) == [type |-> "delta", item |-> item, text |-> <<n>>]
DropWarning == Event("drop")
TruncationWarning == Event("truncated")

\* isProtectedQueueEvent.
IsProtected(e) == e.type \in {"started", "terminal", "failed"}

Init ==
    /\ turn = 0 /\ phase = "none" /\ failed = FALSE /\ said = <<>>
    /\ items = <<>> /\ begun = 0
    /\ queue = <<>> /\ meta = <<>> /\ flush = FALSE
    /\ client = [connected |-> TRUE, inFlight |-> FALSE, inId |-> 0, pending |-> <<>>,
                 dropped |-> FALSE]
    /\ shown = <<>> /\ silenced = {}

-----------------------------------------------------------------------------
(* Sizes                                                                   *)

Size(e) == IF e.type = "delta" THEN Len(e.text) ELSE 1
EventsBytes(events) == FoldLeft(LAMBDA sum, e : sum + Size(e), 0, events)
BatchBytes(events) == 1 + EventsBytes(events)
PendingBytes(pending) == FoldLeft(LAMBDA sum, b : sum + BatchBytes(b.events), 0, pending)

Of(q, id) == SelectSeq(q, LAMBDA e : e.id = id)
Ids(q) == {q[i].id : i \in DOMAIN q}
MetaOf(m, id) == SelectSeq(m, LAMBDA d : d.id = id)

\* queueMetadataBudgetEvents.
MetaEvents(m, id) ==
    LET d == MetaOf(m, id)
    IN  IF d = <<>> THEN 0
        ELSE (IF d[1].dropped THEN 1 ELSE 0) + (IF d[1].truncated THEN 1 ELSE 0)

\* queuedEntriesBytes: of each turn its events, its warnings to come and its batches.
QueuedBytes(q, m) ==
    MapThenSumSet(
        LAMBDA id : LET events == Of(q, id)
                        number == Len(events) + MetaEvents(m, id)
                    IN  EventsBytes([i \in DOMAIN events |-> events[i].event])
                          + MetaEvents(m, id)
                          + (number + MaxBatchEvents - 1) \div MaxBatchEvents,
        Ids(q))

-----------------------------------------------------------------------------
(* The queue.  A state s of it is [q, m, silent].                          *)

FirstOrdinary(s) ==
    IF \A i \in DOMAIN s.q : IsProtected(s.q[i].event) THEN 0
    ELSE Min({i \in DOMAIN s.q : ~IsProtected(s.q[i].event)})

\* A record of losses that is given up while there is something in it.
WithoutMeta(s, id) ==
    [s EXCEPT !.m = SelectSeq(@, LAMBDA d : d.id # id),
              !.silent = IF MetaOf(s.m, id) = <<>> THEN @ ELSE @ \cup {id}]

\* #metadataFor, #addDropMetadata.
Record(s, id, dropped, truncated) ==
    IF MetaOf(s.m, id) = <<>>
    THEN [s EXCEPT !.m = Append(@, [id |-> id, dropped |-> dropped, truncated |-> truncated])]
    ELSE [s EXCEPT !.m = [i \in DOMAIN @ |->
             IF @[i].id # id THEN @[i]
             ELSE [@[i] EXCEPT !.dropped = @ \/ dropped, !.truncated = @ \/ truncated]]]

Recorded(s) == {d \in DOMAIN s.m : s.m[d].id \in Ids(s.q)}

\* #trimQueueToBudget: ordinary events go first, then the records.
RECURSIVE Trimming(_)
Trimming(s) ==
    IF QueuedBytes(s.q, s.m) <= MaxQueued THEN s
    ELSE IF FirstOrdinary(s) # 0
    THEN LET i == FirstOrdinary(s)
         IN  Trimming(Record([s EXCEPT !.q = RemoveAt(@, i)], s.q[i].id, TRUE, FALSE))
    ELSE IF Recorded(s) # {} THEN Trimming(WithoutMeta(s, s.m[Min(Recorded(s))].id))
    ELSE s

TrimToBudget(s) ==
    LET t == Trimming(s)
        gone == {t.m[i].id : i \in DOMAIN t.m \ Recorded(t)}
    IN  [t EXCEPT !.m = SelectSeq(@, LAMBDA d : d.id \notin gone), !.silent = @ \cup gone]

Fits(s, entry) == QueuedBytes(Append(s.q, entry), s.m) <= MaxQueued

\* All of another turn, the one whose events are the oldest.
WithoutOldestOther(s, id) ==
    LET other == s.q[Min({i \in DOMAIN s.q : s.q[i].id # id})].id
    IN  [WithoutMeta(s, other) EXCEPT !.q = SelectSeq(@, LAMBDA e : e.id # other),
                                      !.silent = @ \cup {other}]

\* #makeRoomForBoundary: records go first, then ordinary events, then other turns.
RECURSIVE RoomForBoundary(_, _)
RoomForBoundary(s, entry) ==
    IF Fits(s, entry) THEN s
    ELSE IF MetaOf(s.m, entry.id) # <<>> THEN RoomForBoundary(WithoutMeta(s, entry.id), entry)
    ELSE IF Recorded(s) # {}
    THEN RoomForBoundary(WithoutMeta(s, s.m[Min(Recorded(s))].id), entry)
    ELSE IF FirstOrdinary(s) # 0
    THEN LET i == FirstOrdinary(s)
             id == s.q[i].id
             less == [s EXCEPT !.q = RemoveAt(@, i)]
             noted == Record(less, id, TRUE, FALSE)
         IN  IF id # entry.id /\ id \notin Ids(less.q)
             THEN RoomForBoundary([less EXCEPT !.silent = @ \cup {id}], entry)
             ELSE RoomForBoundary(IF Fits(noted, entry) THEN noted ELSE WithoutMeta(noted, id),
                                  entry)
    ELSE IF Ids(s.q) \ {entry.id} # {}
    THEN RoomForBoundary(WithoutOldestOther(s, entry.id), entry)
    ELSE s

\* #makeRoomForReservedRecovery: the same, and nothing is recorded.
RECURSIVE RoomForRecovery(_, _)
RoomForRecovery(s, entry) ==
    IF Fits(s, entry) THEN s
    ELSE IF s.m # <<>>
    THEN RoomForRecovery([s EXCEPT !.m = <<>>,
                                   !.silent = @ \cup {s.m[i].id : i \in DOMAIN s.m}], entry)
    ELSE IF FirstOrdinary(s) # 0
    THEN LET i == FirstOrdinary(s)
         IN  RoomForRecovery([s EXCEPT !.q = RemoveAt(@, i), !.silent = @ \cup {s.q[i].id}],
                             entry)
    ELSE IF Ids(s.q) \ {entry.id} # {}
    THEN RoomForRecovery(WithoutOldestOther(s, entry.id), entry)
    ELSE s

\* #enqueue.
Enqueue(s, id, event) ==
    LET entry == [id |-> id, event |-> event]
        room == CASE event.type = "failed" -> RoomForRecovery(s, entry)
                  [] event.type \in {"started", "terminal"} -> RoomForBoundary(s, entry)
                  [] OTHER -> s
    IN  IF Fits(room, entry) THEN [room EXCEPT !.q = Append(@, entry)]
        ELSE IF event.type = "failed" THEN room
        ELSE TrimToBudget(Record(room, id, TRUE, FALSE))

\* #enqueueCoalesced: a delta joins the last one, if it is of the same item and there is
\* room; what exceeds the limit of an item is cut off.
Coalesce(s, id, event) ==
    LET n == Len(s.q)
        combined == s.q[n].event.text \o event.text
        merged == SubSeq(combined, 1, Min({MaxText, Len(combined)}))
        joined == [s EXCEPT !.q[n].event.text = merged]
        joins == /\ n > 0 /\ s.q[n].id = id /\ s.q[n].event.type = "delta"
                 /\ s.q[n].event.item = event.item
                 /\ QueuedBytes(joined.q, s.m) <= MaxQueued
    IN  IF ~joins THEN Enqueue(s, id, event)
        ELSE IF merged = combined THEN joined
        ELSE TrimToBudget(Record(joined, id, FALSE, TRUE))

Held == [q |-> queue, m |-> meta, silent |-> silenced]
Holds(s) == queue' = s.q /\ meta' = s.m /\ silenced' = s.silent

-----------------------------------------------------------------------------
(* What the coordinator has to say                                         *)

Speaks(event) == Holds(Enqueue(Held, turn, event)) /\ flush' = TRUE

\* #establishTurn.
StartTurn ==
    /\ turn < MaxTurn /\ phase \in {"none", "terminal"}
    /\ turn' = turn + 1 /\ phase' = "started" /\ failed' = FALSE
    /\ Holds(Enqueue(Held, turn + 1, Event("started"))) /\ flush' = TRUE
    /\ UNCHANGED <<said, items, begun, client, shown>>

\* #onActiveNotification: an item starts and completes once, as long as it is remembered.
StateOf(item) == SelectSeq(items, LAMBDA x : x.item = item)
Retained(s) == IF Len(s) > MaxRetained THEN Tail(s) ELSE s
ItemStarts(item) ==
    /\ phase = "started" /\ begun < MaxItemEvents /\ begun' = begun + 1
    /\ StateOf(item) = <<>>
    /\ items' = Retained(Append(items, [item |-> item, open |-> TRUE]))
    /\ Speaks([Event("item-started") EXCEPT !.item = item])
    /\ UNCHANGED <<turn, phase, failed, said, client, shown>>

ItemCompletes(item) ==
    LET closed == [item |-> item, open |-> FALSE]
    IN  /\ phase = "started" /\ begun < MaxItemEvents /\ begun' = begun + 1
        /\ ~Contains(items, closed)
        /\ items' = IF StateOf(item) = <<>> THEN Retained(Append(items, closed))
                    ELSE ReplaceAll(items, StateOf(item)[1], closed)
        /\ Speaks([Event("item-completed") EXCEPT !.item = item])
        /\ UNCHANGED <<turn, phase, failed, said, client, shown>>

\* #enqueueDelta, of an item that is open.
Streams(item) ==
    /\ phase = "started" /\ Len(said) < MaxDeltas /\ said' = Append(said, turn)
    /\ Contains(items, [item |-> item, open |-> TRUE])
    /\ Holds(Coalesce(Held, turn, Delta(item, Len(said) + 1))) /\ flush' = TRUE
    /\ UNCHANGED <<turn, phase, failed, items, begun, client, shown>>

\* #finishActive.
EndTurn ==
    /\ phase = "started" /\ phase' = "terminal" /\ items' = <<>>
    /\ Speaks(Event("terminal"))
    /\ UNCHANGED <<turn, failed, said, begun, client, shown>>

\* #enqueueDiagnostic: of each turn the recovery fails once.
RecoveryFails ==
    /\ phase = "terminal" /\ ~failed /\ failed' = TRUE
    /\ Speaks(Event("failed"))
    /\ UNCHANGED <<turn, phase, said, items, begun, client, shown>>

-----------------------------------------------------------------------------
(* The client                                                              *)

LastOrdinary(events) ==
    IF \A i \in DOMAIN events : IsProtected(events[i]) THEN 0
    ELSE Max({i \in DOMAIN events : ~IsProtected(events[i])})

BatchFits(events) == Len(events) <= MaxBatchEvents /\ BatchBytes(events) <= MaxQueued

\* Ordinary events go, the last ones first, until the event fits too.
RECURSIVE RoomFor(_, _)
RoomFor(events, e) ==
    IF BatchFits(Append(events, e)) \/ LastOrdinary(events) = 0 THEN events
    ELSE RoomFor(RemoveAt(events, LastOrdinary(events)), e)

BeforeTerminal(events, e) ==
    LET ends == {i \in DOMAIN events : events[i].type = "terminal"}
    IN  IF ends = {} THEN Append(events, e) ELSE InsertAt(events, Min(ends), e)

\* mergeBatches.
MergeBatches(current, incoming) ==
    LET all == current \o incoming
        candidates == SelectSeq(all, LAMBDA e : e.type # "drop")
        Take(events, e) == IF BatchFits(Append(events, e)) THEN Append(events, e) ELSE events
        Prefer(events, e) == IF Contains(events, e) THEN events ELSE Take(RoomFor(events, e), e)
        taken == FoldLeft(Take, <<>>, candidates)
        events == FoldLeft(Prefer, taken, SelectSeq(candidates, IsProtected))
        warned == RoomFor(events, DropWarning)
    IN  IF events = all THEN events
        ELSE IF BatchFits(Append(warned, DropWarning)) THEN BeforeTerminal(warned, DropWarning)
        ELSE warned

\* The loop of #queueClientDelivery: ordinary events go first, then whole turns that are
\* neither in flight nor the batch's own.
RECURSIVE Shrink(_, _)
Shrink(c, id) ==
    LET Ordinary == {k \in DOMAIN c.pending :
                        \E i \in DOMAIN c.pending[k].events : ~IsProtected(c.pending[k].events[i])}
        k == Min(Ordinary)
        events == c.pending[k].events
        i == Min({j \in DOMAIN events : ~IsProtected(events[j])})
        Others == {j \in DOMAIN c.pending : c.pending[j].id \notin {id, c.inId}}
    IN  IF Len(c.pending) <= MaxPending /\ PendingBytes(c.pending) <= MaxQueued THEN c
        ELSE IF Ordinary # {}
        THEN Shrink([c EXCEPT !.dropped = TRUE,
                              !.pending = IF Len(events) = 1 THEN RemoveAt(@, k)
                                          ELSE [@ EXCEPT ![k].events = RemoveAt(@, i)]], id)
        ELSE IF Others # {}
        THEN LET other == c.pending[Min(Others)].id
             IN  Shrink([c EXCEPT !.dropped = TRUE,
                                  !.pending = SelectSeq(@, LAMBDA b : b.id # other)], id)
        ELSE c

HasFailed(b) == \E i \in DOMAIN b.events : b.events[i].type = "failed"

\* #queueClientDelivery.
QueueDelivery(c, b) ==
    LET n == Len(c.pending)
        merges == n > 0 /\ c.pending[n].id = b.id /\ ~HasFailed(b)
        merged == [c.pending[n] EXCEPT !.events = MergeBatches(@, b.events)]
        told == HasFailed(b) /\ \E k \in 1..n : c.pending[k].id = b.id /\ HasFailed(c.pending[k])
    IN  IF told THEN c
        ELSE Shrink(IF merges THEN [c EXCEPT !.pending[n] = merged]
                    ELSE [c EXCEPT !.pending = Append(@, b)], b.id)

\* #withClientDropWarning: whether a warning of what the client missed fits, and the batch.
Warns(c, events) == c.dropped /\ BatchFits(Append(RoomFor(events, DropWarning), DropWarning))
WithDropWarning(c, b) ==
    IF ~Warns(c, b.events) THEN b
    ELSE [b EXCEPT !.events = BeforeTerminal(RoomFor(@, DropWarning), DropWarning)]

\* #drainClient: the next batch is in flight.
Drained(c) ==
    LET b == c.pending[1]
    IN  [c EXCEPT !.pending = Tail(@), !.inFlight = TRUE, !.inId = b.id,
                  !.dropped = @ /\ ~Warns(c, b.events)]

Delivered(b) == shown \o [i \in DOMAIN b.events |-> [id |-> b.id, event |-> b.events[i]]]

Gone == [client EXCEPT !.connected = FALSE, !.pending = <<>>, !.inFlight = FALSE,
                       !.inId = 0, !.dropped = FALSE]

\* #disconnect: the turn that the client owns is interrupted.
Disconnects(s, owns) ==
    /\ client' = Gone
    /\ LET ends == owns /\ phase = "started"
       IN  /\ phase' = IF ends THEN "terminal" ELSE phase
           /\ items' = IF ends THEN <<>> ELSE items
           /\ Holds(IF ends THEN Enqueue(s, turn, Event("terminal")) ELSE s)

\* The client has taken its batch: it gets the next one, or throws it back.
Acknowledges ==
    /\ client.connected /\ client.inFlight
    /\ IF client.pending = <<>>
       THEN client' = [client EXCEPT !.inFlight = FALSE, !.inId = 0] /\ UNCHANGED shown
       ELSE /\ client' = Drained(client)
            /\ shown' = Delivered(WithDropWarning(client, client.pending[1]))
    /\ UNCHANGED <<turn, phase, failed, said, items, begun, queue, meta, flush, silenced>>

\* The client goes, or a delivery to it fails.
Leaves(owns) ==
    /\ client.connected /\ Disconnects(Held, owns)
    /\ flush' = (flush \/ phase' # phase)
    /\ UNCHANGED <<turn, failed, said, begun, shown>>

\* dispose: nothing is said any more.
Dispose ==
    /\ phase # "disposed" /\ phase' = "disposed"
    /\ client' = Gone /\ items' = <<>>
    /\ queue' = <<>> /\ meta' = <<>> /\ flush' = FALSE
    /\ UNCHANGED <<turn, failed, said, begun, shown, silenced>>

-----------------------------------------------------------------------------
(* The flush                                                               *)

\* The batch of the first turn's events, and its record (<<>> or <<d>>) after them: what
\* does not fit beside the warnings is cut off, the last ordinary event first.
RECURSIVE Cut(_, _)
Cut(events, d) ==
    LET warnings == (IF d.dropped THEN 1 ELSE 0) + (IF d.truncated THEN 1 ELSE 0)
    IN  IF Len(events) + warnings <= MaxBatchEvents \/ LastOrdinary(events) = 0
        THEN [events |-> events, d |-> d]
        ELSE Cut(RemoveAt(events, LastOrdinary(events)), [d EXCEPT !.dropped = TRUE])

\* A warning is added if it fits; one that fits in no batch is given up.
Warned(b, flag, warning) ==
    LET events == Append(b.events, warning)
        added == b.d[flag] /\ BatchFits(events)
        lost == b.d[flag] /\ b.events = <<>>
    IN  [events |-> IF added THEN events ELSE b.events,
         d |-> [b.d EXCEPT ![flag] = @ /\ ~added /\ ~lost]]

Batch(id, taken) ==
    LET d == MetaOf(meta, id)
        full == Warned(Warned(Cut(taken, d[1]), "dropped", DropWarning),
                       "truncated", TruncationWarning)
    IN  IF d = <<>> THEN [events |-> taken, d |-> [dropped |-> FALSE, truncated |-> FALSE]]
        ELSE full

\* The queue after the batch: the record lasts while there is something in it and there are
\* more events of the turn.
After(id, b, left) ==
    LET more == id \in Ids(left) /\ b.events # <<>>
        others == SelectSeq(meta, LAMBDA d : d.id # id)
        kept == [i \in DOMAIN meta |-> IF meta[i].id = id THEN b.d ELSE meta[i]]
        untold == b.d.dropped \/ b.d.truncated
    IN  [q |-> left, m |-> IF more /\ untold THEN kept ELSE others,
         silent |-> IF ~more /\ untold THEN silenced \cup {id} ELSE silenced]

\* #flush, and #deliver of its batch: a client that has not taken its last one queues it,
\* and one that throws is disconnected.
Flush(throws, owns) ==
    /\ flush /\ queue # <<>>
    /\ LET id == queue[1].id
           events == Of(queue, id)
           number == Min({MaxBatchEvents, Len(events)})
           b == Batch(id, [i \in 1..number |-> events[i].event])
           s == After(id, b, SubSeq(queue, number + 1, Len(queue)))
           batch == [id |-> id, events |-> b.events]
           sends == client.connected /\ ~client.inFlight /\ b.events # <<>>
       IN  /\ throws => sends
           /\ IF throws THEN Disconnects(s, owns)
              ELSE /\ client' = IF sends THEN [client EXCEPT !.inFlight = TRUE, !.inId = id]
                                ELSE IF client.connected /\ b.events # <<>>
                                THEN QueueDelivery(client, batch) ELSE client
                   /\ Holds(s) /\ UNCHANGED <<phase, items>>
           /\ shown' = IF sends /\ ~throws THEN Delivered(batch) ELSE shown
           /\ flush' = (queue' # <<>>)
    /\ UNCHANGED <<turn, failed, said, begun>>

FlushesNothing ==
    /\ flush /\ queue = <<>> /\ flush' = FALSE
    /\ meta' = <<>> /\ silenced' = silenced \cup {meta[i].id : i \in DOMAIN meta}
    /\ UNCHANGED <<turn, phase, failed, said, items, begun, queue, client, shown>>

Next ==
    \/ StartTurn \/ EndTurn \/ RecoveryFails
    \/ \E item \in 1..2 : ItemStarts(item) \/ Streams(item) \/ ItemCompletes(item)
    \/ \E throws, owns \in BOOLEAN : (owns => throws) /\ Flush(throws, owns)
    \/ FlushesNothing
    \/ Acknowledges
    \/ \E owns \in BOOLEAN : Leaves(owns)
    \/ Dispose

Spec == Init /\ [][Next]_vars

-----------------------------------------------------------------------------
(* Properties                                                              *)

Turn == 0..MaxTurn
TypeOK ==
    /\ turn \in Turn /\ phase \in {"none", "started", "terminal", "disposed"} /\ failed \in BOOLEAN
    /\ begun \in 0..MaxItemEvents /\ Len(items) <= MaxRetained
    /\ said \in Seq(1..MaxTurn) /\ flush \in BOOLEAN
    /\ Ids(queue) \cup Ids(meta) \cup Ids(shown) \cup silenced \subseteq Turn
    /\ client.connected \in BOOLEAN /\ client.inFlight \in BOOLEAN /\ client.inId \in Turn
    /\ client.dropped \in BOOLEAN

\* What the client was given, what waits for it and what is queued, in this order.
Waiting == FlattenSeq([k \in DOMAIN client.pending |->
    LET b == client.pending[k]
    IN  [i \in DOMAIN b.events |-> [id |-> b.id, event |-> b.events[i]]]])
Stream == shown \o Waiting \o queue
Kept(id, type) == \E i \in DOMAIN Stream : Stream[i].id = id /\ Stream[i].event.type = type

\* However fast the server speaks and however slowly the client takes it, the queue stays
\* within its limit and so does the client's list, unless it holds only boundaries, of the
\* turn in flight and of the newest one (#enqueue, #queueClientDelivery).
Unremovable(b) ==
    /\ b.id \in {client.inId, Last(client.pending).id}
    /\ \A i \in DOMAIN b.events : IsProtected(b.events[i])
LimitsHold ==
    /\ QueuedBytes(queue, meta) <= MaxQueued
    /\ Len(client.pending) <= MaxPending
    /\ \/ PendingBytes(client.pending) <= MaxQueued
       \/ \A k \in DOMAIN client.pending : Unremovable(client.pending[k])

\* What is dropped is never the beginning or the end of the newest turn, as long as the
\* client stays (#makeRoomForBoundary, mergeBatches).
BoundariesArrive ==
    client.connected =>
        /\ phase # "none" => Kept(turn, "started")
        /\ phase = "terminal" => Kept(turn, "terminal")

\* The client sees turns in their order, and of each turn the beginning, its deltas in
\* their order, and the end.
Texts(id) == FlattenSeq([i \in DOMAIN Of(Stream, id) |-> Of(Stream, id)[i].event.text])
InOrder ==
    /\ \A i, j \in DOMAIN Stream : i < j => Stream[i].id <= Stream[j].id
    /\ \A id \in Ids(Stream) :
           LET events == Of(Stream, id)
               At(type) == {i \in DOMAIN events : events[i].event.type = type}
           IN  /\ \A i \in At("started") : i = 1
               /\ \A i \in At("terminal"), j \in At("delta") : j < i
               /\ \A i \in At("failed"), j \in At("terminal") : j < i
               /\ \A i, j \in DOMAIN Texts(id) : i < j => Texts(id)[i] < Texts(id)[j]

\* When all is quiet a client that stayed has been warned of a loss (maybe of a later turn,
\* with an earlier one's batch), unless its record was given up for a boundary or the
\* warning is still to come with the next batch.
LossIsTold ==
    client.connected /\ queue = <<>> /\ ~client.inFlight =>
        \A n \in DOMAIN said :
            \/ \E i \in DOMAIN shown : n \in ToSet(shown[i].event.text)
            \/ \E i \in DOMAIN shown : shown[i].event.type \in {"drop", "truncated"}
            \/ said[n] \in silenced \/ client.dropped
=============================================================================
