---------------------------- MODULE GatewayEvents ----------------------------
(***************************************************************************)
(* startup_events of startup_gateway.rs: the browser follows the state of  *)
(* the backend over one event stream.  A task of its own moves the         *)
(* published states from the broadcast ring to a small channel, and the    *)
(* response body reads the channel.                                        *)
(***************************************************************************)
EXTENDS GatewayState, Sequences

CONSTANTS
    Ring,       \* states the broadcast channel retains (64)
    Channel     \* frames the response channel holds (4)

VARIABLES
    stream,     \* "none", "open", "ending" (the task is over), "closed"
    missed,     \* the receiver of the task lagged behind the ring
    ring,       \* the retained states the task has not received
    last,       \* the state the task sent last
    channel,    \* the frames the body has not read
    shown       \* the state the browser saw last

eventVars == <<stream, missed, ring, last, channel, shown>>
vars == <<gatewayVars, eventVars>>

Current == <<generation, phase>>
States == (0..MaxGeneration) \X Phases

TypeOK ==
    /\ GatewayTyped
    /\ stream \in {"none", "open", "ending", "closed"} /\ missed \in BOOLEAN
    /\ ring \in Seq(States) /\ Len(ring) <= Ring
    /\ channel \in Seq(States) /\ Len(channel) <= Channel
    /\ last \in States /\ shown \in States

Init ==
    /\ NewGateway
    /\ stream = "none" /\ missed = FALSE /\ ring = <<>> /\ channel = <<>>
    /\ last = Current /\ shown = Current

\* broadcast::Sender::send: a full ring overwrites the oldest state, and the receiver that
\* has not read it learns that it lagged.
Publishes ==
    LET sent == Append(ring, <<generation', phase'>>)
    IN  IF stream # "open" THEN UNCHANGED <<ring, missed>>
        ELSE IF Len(sent) <= Ring THEN ring' = sent /\ UNCHANGED missed
        ELSE ring' = Tail(sent) /\ missed' = TRUE

StateChanges ==
    /\ phase # "stopping"
    /\ \/ generation < MaxGeneration /\ MayBegin(generation) /\ Begins
       \/ ReadyAccepted(generation) /\ Readies
       \/ phase \in {"starting", "ready"} /\ Fails(generation)
       \/ ShutsDown
    /\ Publishes /\ UNCHANGED <<stream, last, channel, shown>>

\* subscribe_events takes the snapshot and the receiver under one lock.
Subscribes ==
    /\ stream = "none" /\ ring' = <<>> /\ missed' = FALSE
    /\ last' = Current /\ channel' = <<Current>>
    /\ stream' = IF phase = "stopping" THEN "ending" ELSE "open"
    /\ UNCHANGED <<gatewayVars, shown>>

\* What the task receives next: after a lag the current state, and then the retained ones.
Received == IF missed THEN Current ELSE Head(ring)
Changed(s) == s # last

\* A frame that does not fit ends the stream; so does the state "stopping".
Receives ==
    /\ stream = "open" /\ (missed \/ ring # <<>>)
    /\ missed' = FALSE /\ ring' = IF missed THEN ring ELSE Tail(ring)
    /\ \/ ~Changed(Received) /\ UNCHANGED <<last, channel>>
          /\ stream' = IF last[2] = "stopping" THEN "ending" ELSE "open"
       \/ Changed(Received) /\ Len(channel) = Channel
          /\ stream' = "ending" /\ UNCHANGED <<last, channel>>
       \/ Changed(Received) /\ Len(channel) < Channel
          /\ channel' = Append(channel, Received) /\ last' = Received
          /\ stream' = IF Received[2] = "stopping" THEN "ending" ELSE "open"
    /\ UNCHANGED <<gatewayVars, shown>>

BodyReads ==
    /\ channel # <<>> /\ stream # "closed"
    /\ shown' = Head(channel) /\ channel' = Tail(channel)
    /\ UNCHANGED <<gatewayVars, stream, missed, ring, last>>

\* The channel of a task that is over ends the body; EventSource connects again.
BodyEnds ==
    /\ stream = "ending" /\ channel = <<>> /\ stream' = "none"
    /\ UNCHANGED <<gatewayVars, missed, ring, last, channel, shown>>

\* The browser leaves, and the drop of the body cancels the task.
BrowserCloses ==
    /\ stream \in {"open", "ending"} /\ stream' = "closed" /\ channel' = <<>> /\ ring' = <<>>
    /\ missed' = FALSE /\ UNCHANGED <<gatewayVars, last, shown>>

EventStep == Receives \/ BodyReads \/ BodyEnds
Next == StateChanges \/ Subscribes \/ EventStep \/ BrowserCloses
Spec == Init /\ [][Next]_vars /\ WF_vars(Receives) /\ WF_vars(BodyReads \/ BodyEnds)
-----------------------------------------------------------------------------
\* A stream that stays open ends up showing the current state, although the ring lost
\* states on the way and the task read them out of order.
EventsArrive == <>[](stream = "open" => shown = Current)
=============================================================================
