----------------------- MODULE AppServerHostRefinement ----------------------
(***************************************************************************)
(* The host implements SoleProcess.                                        *)
(***************************************************************************)
EXTENDS AppServerHost

\* A generation serves while #state says so.
Serving == IF state = "ready" THEN {connection} ELSE {}

Abstract == INSTANCE SoleProcess WITH
    Generation <- Gen,
    open <- ~disposed,
    live <- alive \cap published,
    started <- published,
    ended <- {g \in Gen : startPc[g] = "done"},
    serving <- Serving

\* Every behaviour of the host is one of the abstract sole process: one process
\* at a time, increasing generations, no second service, nothing after dispose.
ImplementsSoleProcess == Abstract!Spec
=============================================================================
