----------------------------- MODULE SoleProcess ----------------------------
(***************************************************************************)
(* What the App Server host promises its clients: generations of one       *)
(* process.  Generations are started one at a time with increasing         *)
(* numbers, a process is spawned only when no other one runs, a generation *)
(* serves at most once and only after its own start, and once the host is  *)
(* closed no process is ever spawned again.                                *)
(***************************************************************************)
EXTENDS Naturals

CONSTANT Generation     \* the generation numbers

VARIABLES
    open,       \* the host accepts work
    live,       \* generations whose process may run
    started,    \* generations that were ever spawned
    ended,      \* generations whose start ended, well or badly
    serving     \* the generation that answers requests, as a set

vars == <<open, live, started, ended, serving>>

Init ==
    /\ open = TRUE
    /\ live = {} /\ started = {} /\ ended = {} /\ serving = {}

\* A new process: nothing else runs and no earlier number is reused.
Spawn(g) ==
    /\ open
    /\ live = {} /\ serving = {}
    /\ \A h \in started : h < g /\ h \in ended
    /\ g \notin ended
    /\ live' = {g}
    /\ started' = started \cup {g}
    /\ UNCHANGED <<open, ended, serving>>

\* The handshake of a running process completes.
Serve(g) ==
    /\ open
    /\ g \in live \ ended
    /\ serving' = {g}
    /\ ended' = ended \cup {g}
    /\ UNCHANGED <<open, live, started>>

\* A start fails.
Fail(g) ==
    /\ g \notin ended
    /\ ended' = ended \cup {g}
    /\ UNCHANGED <<open, live, started, serving>>

\* The host stops a process, its breaker opens, or it is closed.
Retire ==
    /\ serving' = {}
    /\ open' \in {open, FALSE}
    /\ UNCHANGED <<live, started, ended>>

Exit ==
    /\ live' = {}
    /\ serving' \in {serving, {}}
    /\ UNCHANGED <<open, started, ended>>

Next ==
    \/ \E g \in Generation : Spawn(g) \/ Serve(g) \/ Fail(g)
    \/ Retire
    \/ Exit

Spec == Init /\ [][Next]_vars
=============================================================================
