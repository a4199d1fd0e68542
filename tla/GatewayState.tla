---------------------------- MODULE GatewayState ----------------------------
(***************************************************************************)
(* GatewayState of startup_gateway.rs: the generation of the backend and   *)
(* its phase, as the gateway publishes them.  The gateway and the          *)
(* supervisor of the backend process both extend this module.              *)
(* Every generation listens on the same port, so a lease is a generation.  *)
(***************************************************************************)
EXTENDS Naturals

CONSTANT MaxGeneration

VARIABLES generation, phase

gatewayVars == <<generation, phase>>
Generation == 1..MaxGeneration
Phases == {"failed", "starting", "ready", "stopping"}

GatewayTyped == generation \in 0..MaxGeneration /\ phase \in Phases

NewGateway == generation = 0 /\ phase = "failed"

\* begin_backend_start_after: only a failed backend is started, and a retry names the
\* generation that failed.
MayBegin(failed) == phase = "failed" /\ generation = failed /\ generation < MaxGeneration
Begins == generation' = generation + 1 /\ phase' = "starting"

\* backend_ready_if_current
ReadyAccepted(g) == generation = g /\ phase = "starting"
Readies == phase' = "ready" /\ UNCHANGED generation

\* fail_backend: an old generation, or a gateway that stops, is left alone.
Fails(g) ==
    /\ UNCHANGED generation
    /\ phase' = IF generation = g /\ phase \in {"starting", "ready"} THEN "failed" ELSE phase

ShutsDown == phase' = "stopping" /\ UNCHANGED generation

LeaseIsCurrent(g) == generation = g /\ phase = "ready"

\* published_result: what a waiter that came in generation `expected' is told.
PublishedResult(expected) ==
    CASE generation # expected -> "superseded"
      [] generation = expected /\ phase = "ready" -> "ready"
      [] generation = expected /\ phase = "failed" /\ generation > 0 -> "failed"
      [] generation = expected /\ phase = "stopping" -> "stopping"
      [] OTHER -> "none"
=============================================================================
