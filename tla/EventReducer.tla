----------------------------- MODULE EventReducer ----------------------------
(***************************************************************************)
(* The browser's side of a turn (ride-codex-event-reducer.ts): batches of  *)
(* events wait for an animation frame in a queue of bounded size, which is *)
(* rebuilt with every batch, and a frame applies them to what is shown.    *)
(*                                                                         *)
(* "delta" stands for the events about items, the plan, the diff and the   *)
(* usage, and is numbered; "failed" is the recovery-failed diagnostic and  *)
(* "drop" the events-dropped warning.  An event has size 1 and so has what *)
(* surrounds a batch.  What parseSafeBatch refuses is not sent, and the    *)
(* limits on diagnostics and on retained bytes are left out.               *)
(***************************************************************************)
EXTENDS Naturals, Sequences, SequencesExt, FiniteSets

CONSTANTS
    Identity,           \* of turns: [gen, seq, turn], each from 1; a few of them
    MaxQueued,          \* maxQueuedBytes, at least RIDE_CODEX_MIN_QUEUED_BYTES
    MaxBatchEvents,     \* maxBatchEvents
    MaxText,            \* maxItemBytes
    MaxItems,           \* maxRetainedItems
    MaxFinalized,       \* MAX_FINALIZED_IDENTITIES
    MaxBatches          \* bound on the batches that are sent

VARIABLES
    pending,    \* #pending
    frame,      \* #frame
    turn,       \* what the reducer holds and, after a frame, shows
    disposed,   \* #disposed
    sent,       \* batches that were sent
    newest      \* history: what was accepted of the newest turn, and whether others waited

vars == <<pending, frame, turn, disposed, sent, newest>>

NoId == [gen |-> 0, seq |-> 0, turn |-> 0]

Event(type) == [type |-> type, n |-> 0]
Delta(n) == [type |-> "delta", n |-> n]

\* What a batch holds, the n-th that is sent: parts of a turn, from its start to the
\* diagnostics that follow its end.
Contents(n) ==
    {<<Event("started")>>, <<Event("started"), Delta(n)>>, <<Delta(n)>>,
     <<Delta(n), Delta(n + 1)>>, <<Delta(n), Event("terminal")>>,
     <<Event("terminal"), Event("failed")>>,
     <<Event("warning")>>, <<Event("failed")>>, <<Delta(n), Event("drop")>>}

Reset(t, id) ==
    [t EXCEPT !.id = id, !.status = "idle", !.items = <<>>, !.warned = {}, !.failed = FALSE]

Init ==
    /\ pending = <<>> /\ frame = FALSE /\ disposed = FALSE /\ sent = 0
    /\ turn = [id |-> NoId, status |-> "idle", items |-> <<>>, warned |-> {}, failed |-> FALSE,
               finalized |-> <<>>]
    /\ newest = [id |-> NoId, terminal |-> FALSE, failed |-> FALSE, deltas |-> <<>>,
                 crowded |-> FALSE]

-----------------------------------------------------------------------------
(* Events and batches                                                      *)

HasType(events, type) == \E i \in DOMAIN events : events[i].type = type
HasBoundary(events) == HasType(events, "started") \/ HasType(events, "terminal")
IsDiagnostic(e) == e.type \in {"warning", "failed", "drop"}
DiagnosticOnly(events) == \A i \in DOMAIN events : IsDiagnostic(events[i])
IsProtected(e) == e.type \in {"started", "terminal", "failed"}

Older(a, b) == a.gen < b.gen \/ (a.gen = b.gen /\ a.seq < b.seq)

Bytes(batches) ==
    Len(batches) + Cardinality(UNION {{k} \X DOMAIN batches[k].events : k \in DOMAIN batches})

\* packPendingBatches: chunks of at most MaxBatchEvents events.
Pack(id, events) ==
    LET From(k) == (k - 1) * MaxBatchEvents + 1
        To(k) == IF k * MaxBatchEvents < Len(events) THEN k * MaxBatchEvents ELSE Len(events)
    IN  [k \in 1..((Len(events) + MaxBatchEvents - 1) \div MaxBatchEvents) |->
            [id |-> id, events |-> SubSeq(events, From(k), To(k))]]

\* dedupeProtectedPendingEvents: of each protected type the first.
Dedupe(events) ==
    LET First(k) == \/ ~IsProtected(events[k])
                    \/ \A i \in 1..(k - 1) : events[i].type # events[k].type
        kept == SelectSeq([k \in DOMAIN events |-> <<events[k], First(k)>>], LAMBDA p : p[2])
    IN  [k \in DOMAIN kept |-> kept[k][1]]

WithoutDrops(events) == SelectSeq(events, LAMBDA e : e.type # "drop")

-----------------------------------------------------------------------------
(* The queue                                                               *)

\* #highestPendingAuthority: the turn that is held or the newest one that waits.
Authority ==
    LET Bounded == {k \in DOMAIN pending : HasBoundary(pending[k].events)}
        Ids == {pending[k].id : k \in Bounded} \cup {turn.id}
        id == CHOOSE a \in Ids : \A b \in Ids : ~Older(a, b)
    IN  [id |-> id,
         terminal |-> \/ id = turn.id /\ turn.status = "terminal"
                      \/ \E k \in DOMAIN pending :
                           pending[k].id = id /\ HasType(pending[k].events, "terminal")]

\* #isAuthorizedForPending.
IsAuthorized(b) ==
    LET held == Authority
    IN  IF held.id = NoId \/ Older(held.id, b.id) THEN HasBoundary(b.events)
        ELSE b.id = held.id /\ (~held.terminal \/ DiagnosticOnly(b.events))

\* Entries keep their place in the queue, at.
Entries ==
    [k \in DOMAIN pending |-> [at |-> k, id |-> pending[k].id, events |-> pending[k].events]]

\* compactOrdinaryPendingEntries.
Compact(entries) ==
    LET Protected(e) == [e EXCEPT !.events = SelectSeq(@, IsProtected)]
    IN  SelectSeq([k \in DOMAIN entries |-> Protected(entries[k])], LAMBDA e : e.events # <<>>)

\* Turns older than id are removed, the first ones first, until the rest fits with `size'.
RemoveOlder(entries, id, size) ==
    LET older == SelectSeq(entries, LAMBDA e : Older(e.id, id))
        Kept(k) == SelectSeq(entries, LAMBDA e : \A i \in 1..k : older[i].id # e.id)
        Fit == {k \in 0..Len(older) : Bytes(Kept(k)) + size <= MaxQueued}
    IN  IF Fit = {} THEN [fits |-> FALSE, entries |-> entries]
        ELSE [fits |-> TRUE, entries |-> Kept(CHOOSE k \in Fit : \A j \in Fit : k <= j)]

\* #rebuildPendingIdentity: the events of the batch join those of its turn.  What does not
\* fit is dropped: ordinary events of the turn, then those of others, then older turns.
Rebuilt(b) ==
    LET same == SelectSeq(Entries, LAMBDA e : e.id = b.id)
        rest == SelectSeq(Entries, LAMBDA e : e.id # b.id)
        place == IF same = <<>> THEN Len(pending) + 1 ELSE Head(same).at
        all == FlattenSeq([k \in DOMAIN same |-> same[k].events]) \o b.events
        joined == Dedupe(WithoutDrops(all))
        Over(c, others) == Bytes(others) + Bytes(Pack(b.id, c)) > MaxQueued
        kept == IF Over(joined, rest) THEN SelectSeq(joined, IsProtected) ELSE joined
        others == IF Over(kept, rest) THEN Compact(rest) ELSE rest
        removal == RemoveOlder(others, b.id, Bytes(Pack(b.id, kept)))
        left == removal.entries
        dropped == HasType(all, "drop") \/ kept # joined \/ left # rest
        warned == Append(kept, Event("drop"))
        final == IF dropped /\ ~Over(warned, left) THEN warned ELSE kept
        AsBatches(s) == [k \in DOMAIN s |-> [id |-> s[k].id, events |-> s[k].events]]
    IN  IF ~removal.fits \/ final = <<>> THEN pending
        ELSE AsBatches(SelectSeq(left, LAMBDA e : e.at < place)) \o Pack(b.id, final)
               \o AsBatches(SelectSeq(left, LAMBDA e : e.at >= place))

DeltasOf(events) == SelectSeq(events, LAMBDA e : e.type = "delta")

Accept(b) ==
    LET old == IF newest.id = b.id THEN newest
               ELSE [id |-> b.id, terminal |-> FALSE, failed |-> FALSE, deltas |-> <<>>,
                 crowded |-> FALSE]
    IN  [old EXCEPT !.terminal = @ \/ HasType(b.events, "terminal"),
                    !.failed = @ \/ HasType(b.events, "failed"),
                    !.deltas = @ \o DeltasOf(b.events)]

\* notifyMany, for a wire that parseSafeBatch takes.
NotifyMany(b) ==
    /\ ~disposed /\ sent < MaxBatches /\ sent' = sent + 1
    /\ IF IsAuthorized(b)
       THEN /\ pending' = Rebuilt(b)
            /\ frame' = (frame \/ pending' # <<>>)
            /\ newest' = [Accept(b) EXCEPT
                             !.crowded = @ \/ \E k \in DOMAIN pending' : pending'[k].id # b.id]
       ELSE UNCHANGED <<pending, frame, newest>>
    /\ UNCHANGED <<turn, disposed>>

-----------------------------------------------------------------------------
(* The frame                                                               *)

Warn(t, code) == [t EXCEPT !.warned = @ \cup {code}]

\* #append and the other item events: the text and the items are bounded.
AppendDelta(t, n) ==
    LET item == n % 2
        Own == {k \in DOMAIN t.items : t.items[k].item = item}
        k == CHOOSE k \in Own : TRUE
        grown == Append(t.items, [item |-> item, text |-> <<n>>])
    IN  IF Own = {}
        THEN IF Len(grown) > MaxItems THEN Warn([t EXCEPT !.items = Tail(grown)], "truncated")
             ELSE [t EXCEPT !.items = grown]
        ELSE IF Len(t.items[k].text) >= MaxText THEN Warn(t, "truncated")
        ELSE [t EXCEPT !.items[k].text = Append(@, n)]

\* #applyEvent: after the end only diagnostics count.
ApplyEvent(t, e) ==
    CASE e.type = "warning" -> Warn(t, "server")
      [] e.type = "drop" -> Warn(t, "dropped")
      [] e.type = "failed" -> [t EXCEPT !.failed = TRUE]
      [] t.status = "terminal" \/ (e.type = "started" /\ t.status # "idle") -> t
      [] e.type = "started" /\ t.status = "idle" -> [t EXCEPT !.status = "in-progress"]
      [] e.type = "terminal" -> [t EXCEPT !.status = "terminal"]
      [] e.type = "delta" -> AppendDelta(t, e.n)

\* #rememberFinalized.
Remember(t) ==
    IF t.status # "terminal" \/ Contains(t.finalized, t.id) THEN t
    ELSE LET f == Append(t.finalized, t.id)
         IN  [t EXCEPT !.finalized = IF Len(f) > MaxFinalized THEN Tail(f) ELSE f]

Apply(t, b) == Remember(FoldLeft(ApplyEvent, t, b.events))

\* #applyBatch.
ApplyBatch(t, b) ==
    IF b.id = t.id
    THEN IF Contains(t.finalized, b.id) /\ ~DiagnosticOnly(b.events) THEN t ELSE Apply(t, b)
    ELSE IF ~Older(t.id, b.id) \/ ~HasBoundary(b.events) \/ Contains(t.finalized, b.id) THEN t
    ELSE Apply(Reset(IF b.id.gen > t.id.gen THEN [t EXCEPT !.finalized = <<>>] ELSE t, b.id), b)

FlushFrame ==
    /\ frame /\ frame' = FALSE /\ pending' = <<>>
    /\ turn' = FoldLeft(ApplyBatch, turn, pending)
    /\ UNCHANGED <<disposed, sent, newest>>

\* What was shown is gone, and nobody listens any more: turn is left as it was.
Dispose ==
    /\ ~disposed /\ disposed' = TRUE
    /\ frame' = FALSE /\ pending' = <<>>
    /\ UNCHANGED <<turn, sent, newest>>

Next ==
    \/ \E id \in Identity : \E events \in Contents(2 * sent) :
          NotifyMany([id |-> id, events |-> events])
    \/ FlushFrame \/ Dispose

Spec == Init /\ [][Next]_vars

-----------------------------------------------------------------------------
(* Properties                                                              *)

TypeOK ==
    /\ \A k \in DOMAIN pending : Len(pending[k].events) \in 1..MaxBatchEvents
    /\ Bytes(pending) <= MaxQueued
    /\ turn.status \in {"idle", "in-progress", "terminal"}
    /\ Len(turn.finalized) <= MaxFinalized /\ Len(turn.items) <= MaxItems
    /\ frame \in BOOLEAN /\ disposed \in BOOLEAN /\ sent \in 0..MaxBatches

\* Batches that wait have a frame to come, which draws them.
WaitingHasFrame == pending # <<>> <=> frame

\* After a frame the newest turn of which a boundary was accepted is shown, with its end and
\* with the failure of its recovery, whatever else waited and had to be dropped.
NewestIsShown ==
    ~disposed /\ pending = <<>> /\ newest.id # NoId =>
        /\ turn.id = newest.id
        /\ newest.terminal => turn.status = "terminal"
        /\ newest.failed => turn.failed

Texts == {turn.items[k].text : k \in DOMAIN turn.items}

\* What is shown of an item is in the order in which it was sent.
TextIsInOrder == \A s \in Texts : \A i, j \in DOMAIN s : i < j => s[i] < s[j]

\* A loss is told: of the deltas that were accepted each is shown, or there is a warning,
\* unless older turns waited too: their boundaries may leave no room for the warning.
LossIsTold ==
    /\ ~disposed /\ pending = <<>> /\ ~newest.crowded
    /\ turn.warned \cap {"dropped", "truncated"} = {}
    => \A i \in DOMAIN newest.deltas : \E s \in Texts : Contains(s, newest.deltas[i].n)

\* What is shown never goes back to an older turn, and an ended turn gets no more items.
ShownGoesForward ==
    [][/\ ~Older(turn'.id, turn.id)
       /\ turn.status = "terminal" /\ turn'.id = turn.id =>
            turn'.status = "terminal" /\ turn'.items = turn.items]_vars
=============================================================================
