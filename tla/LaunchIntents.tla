---------------------------- MODULE LaunchIntents ----------------------------
(***************************************************************************)
(* LaunchIntentRouter of launch_intent.rs: activations of the desktop      *)
(* application (a second instance, an opened file) are queued until the    *)
(* frontend is ready and then emitted to it, each at most once and in the  *)
(* order of their arrival, by whichever threads brought them.  A thread    *)
(* takes its tickets under the lock, calls the window without it, and      *)
(* waits for its turn; a callback that panics gives the turn and the       *)
(* tickets of its batch up.  Identifiers and tickets may run out.          *)
(***************************************************************************)
EXTENDS Naturals, Sequences, FiniteSets

CONSTANTS
    Thread,
    MaxId,          \* u64::MAX
    MaxLength       \* of the queue

VARIABLES
    nextId,         \* LaunchIntentIdSource; 0 when it has run out
    ready, pending, seen, inFlight, consumed,       \* LaunchIntentQueue
    nextTicket, current,    \* 0 when they have run out
    cancelled,
    pc, batch,      \* of each thread: its scheduled <<ticket, id>>
    emitted,        \* history: the identifiers handed to the frontend, in order
    arrived         \* history: the identifiers queued, in order

queueVars == <<nextId, ready, pending, seen, inFlight, consumed>>
turnVars == <<current, cancelled>>
vars == <<queueVars, nextTicket, turnVars, pc, batch, emitted, arrived>>

Id == 1..MaxId
TypeOK ==
    /\ nextId \in 0..MaxId /\ nextTicket \in 0..MaxId /\ current \in 0..MaxId
    /\ ready \in BOOLEAN /\ pending \in Seq(Id) /\ Len(pending) <= MaxLength
    /\ seen \cup inFlight \cup consumed \subseteq Id /\ cancelled \subseteq Id
    /\ pc \in [Thread -> {"idle", "queue", "before", "wait", "emit", "done"}]
    /\ batch \in [Thread -> Seq(Id \X Id)]
    /\ emitted \in Seq(Id) /\ arrived \in Seq(Id)

\* The first intent, of the command line, may be queued from the beginning.
Init ==
    /\ \E initial \in {<<>>, <<1>>} :
         /\ pending = initial /\ arrived = initial /\ nextId = Len(initial) + 1
         /\ seen = {i \in Id : i \in 1..Len(initial)}
    /\ ready = FALSE /\ inFlight = {} /\ consumed = {}
    /\ nextTicket = 1 /\ current = 1 /\ cancelled = {}
    /\ pc = [t \in Thread |-> "idle"] /\ batch = [t \in Thread |-> <<>>]
    /\ emitted = <<>>

Following(n) == IF n = MaxId THEN 0 ELSE n + 1
-----------------------------------------------------------------------------
(* Queueing *)

\* LaunchIntentRouterState.schedule: one ticket each, while there are any.
Least(a, b) == IF a < b THEN a ELSE b
Left == IF nextTicket = 0 THEN 0 ELSE MaxId + 1 - nextTicket

Schedule(t, ids) ==
    LET n == Least(Len(ids), Left)
        dropped == {ids[i] : i \in n + 1 .. Len(ids)}
    IN  /\ batch' = [batch EXCEPT ![t] = [i \in 1..n |-> <<nextTicket + i - 1, ids[i]>>]]
        /\ nextTicket' = IF n = Left THEN 0 ELSE nextTicket + n
        /\ inFlight' = (inFlight \cup {ids[i] : i \in DOMAIN ids}) \ dropped
        /\ consumed' = consumed \cup dropped

\* An activation takes an identifier before it is parsed; most name no file.
TakesId(t) ==
    /\ pc[t] = "idle" /\ nextId # 0 /\ nextId' = Following(nextId)
    /\ \/ pc' = [pc EXCEPT ![t] = "queue"] /\ batch' = [batch EXCEPT ![t] = <<<<nextId, nextId>>>>]
       \/ pc' = [pc EXCEPT ![t] = "before"] /\ UNCHANGED batch
    /\ UNCHANGED <<ready, pending, seen, inFlight, consumed, nextTicket, turnVars, emitted, arrived>>

TakesNone(t) ==
    /\ pc[t] = "idle" /\ nextId = 0 /\ pc' = [pc EXCEPT ![t] = "before"]
    /\ UNCHANGED <<queueVars, nextTicket, turnVars, batch, emitted, arrived>>

\* The oldest one goes when the queue is full.
Room == IF Len(pending) = MaxLength THEN Tail(pending) ELSE pending

Enqueues(t) ==
    LET id == batch[t][1][2] IN
    /\ pc[t] = "queue" /\ pc' = [pc EXCEPT ![t] = "before"]
    /\ seen' = seen \cup {id} /\ arrived' = Append(arrived, id)
    /\ IF ready
       THEN Schedule(t, <<id>>) /\ UNCHANGED pending
       ELSE /\ pending' = Append(Room, id) /\ batch' = [batch EXCEPT ![t] = <<>>]
            /\ UNCHANGED <<inFlight, consumed, nextTicket>>
    /\ UNCHANGED <<nextId, ready, turnVars, emitted>>

\* frontend_ready may come again, from a frontend that was reloaded.
MarksReady(t) ==
    /\ pc[t] = "idle" /\ ready' = TRUE /\ Schedule(t, pending) /\ pending' = <<>>
    /\ pc' = [pc EXCEPT ![t] = "before"]
    /\ UNCHANGED <<nextId, seen, turnVars, emitted, arrived>>

\* The acknowledgement of the frontend, for any identifier.
Acknowledges(id) ==
    /\ id \in inFlight /\ inFlight' = inFlight \ {id} /\ consumed' = consumed \cup {id}
    /\ UNCHANGED <<nextId, ready, pending, seen, nextTicket, turnVars, pc, batch, emitted, arrived>>
-----------------------------------------------------------------------------
(* Delivery *)

Held(t) == {batch[t][i][1] : i \in DOMAIN batch[t]}

\* skip_cancelled: the next turn is the first ticket from c on that was not given up, 0 past
\* the last.
SkipsFrom(c, gone, next) ==
    \/ next = 0 /\ \A i \in Id : i >= c => i \in gone
    \/ next >= c /\ next \in Id \ gone /\ \A i \in Id : i >= c /\ i < next => i \in gone

TurnIs(c, gone) ==
    /\ current' \in Id \cup {0}
    /\ IF c = 0 THEN current' = 0 ELSE SkipsFrom(c, gone, current')
    /\ cancelled' = {i \in gone : current' # 0 /\ i > current'}

BatchIsCancelled(t) == TurnIs(current, cancelled \cup Held(t))

\* Focusing the window, before the delivery; a panic drops the batch.
Begins(t) ==
    /\ pc[t] = "before"
    /\ \/ pc' = [pc EXCEPT ![t] = "wait"] /\ UNCHANGED <<turnVars, batch>>
       \/ /\ pc' = [pc EXCEPT ![t] = "done"] /\ batch' = [batch EXCEPT ![t] = <<>>]
          /\ BatchIsCancelled(t)
    /\ UNCHANGED <<queueVars, nextTicket, emitted, arrived>>

IsItsTurn(t) == current = batch[t][1][1]

TakesTurn(t) ==
    /\ pc[t] = "wait" /\ batch[t] # <<>> /\ IsItsTurn(t) /\ pc' = [pc EXCEPT ![t] = "emit"]
    /\ UNCHANGED <<queueVars, nextTicket, turnVars, batch, emitted, arrived>>

\* The turn passes whatever emit did; what was emitted is acknowledged.
Emits(t) ==
    LET ticket == batch[t][1][1]  id == batch[t][1][2] IN
    /\ pc[t] = "emit" /\ emitted' = Append(emitted, id)
    /\ TurnIs(Following(ticket), cancelled)
    /\ \/ inFlight' = inFlight \ {id} /\ consumed' = consumed \cup {id}
       \/ UNCHANGED <<inFlight, consumed>>          \* an error: reported, never tried again
    /\ batch' = [batch EXCEPT ![t] = Tail(@)] /\ pc' = [pc EXCEPT ![t] = "wait"]
    /\ UNCHANGED <<nextId, ready, pending, seen, nextTicket, arrived>>

\* Emitting panics: the turn is completed and the rest of the batch cancelled.
Panics(t) ==
    /\ pc[t] = "emit" /\ pc' = [pc EXCEPT ![t] = "done"]
    /\ batch' = [batch EXCEPT ![t] = <<>>] /\ emitted' = Append(emitted, batch[t][1][2])
    /\ BatchIsCancelled(t)
    /\ UNCHANGED <<queueVars, nextTicket, arrived>>

Ends(t) ==
    /\ pc[t] = "wait" /\ batch[t] = <<>> /\ pc' = [pc EXCEPT ![t] = "done"]
    /\ UNCHANGED <<queueVars, nextTicket, turnVars, batch, emitted, arrived>>

DeliveryStep(t) == Enqueues(t) \/ Begins(t) \/ TakesTurn(t) \/ Emits(t) \/ Panics(t) \/ Ends(t)
Next ==
    \/ \E t \in Thread : TakesId(t) \/ TakesNone(t) \/ MarksReady(t) \/ DeliveryStep(t)
    \/ \E id \in Id : Acknowledges(id)

Spec == Init /\ [][Next]_vars /\ \A t \in Thread : WF_vars(DeliveryStep(t))
-----------------------------------------------------------------------------
Before(s, a, b) == \E i, j \in DOMAIN s : i < j /\ s[i] = a /\ s[j] = b

\* No intent is emitted twice, and none before one that arrived earlier, whichever threads
\* bring them; nothing in flight still waits in the queue.
IntentsInOrder ==
    /\ \A i, j \in DOMAIN emitted : emitted[i] = emitted[j] => i = j
    /\ \A a, b \in Id : Before(emitted, a, b) => Before(arrived, a, b)
    /\ \A i \in DOMAIN pending : pending[i] \notin inFlight \cup consumed

\* What has begun and must end, whatever callbacks panic or tickets run out: a delivery.
Duties == << \E t \in Thread : pc[t] \in {"before", "wait", "emit"} >>
=============================================================================
