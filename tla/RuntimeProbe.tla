---------------------------- MODULE RuntimeProbe ----------------------------
(***************************************************************************)
(* The probe of a Codex executable (ride-codex-runtime-probe.ts): two      *)
(* bounded commands, `--version` and `app-server --help`, each a child     *)
(* process with three timers, an output limit and an abort signal that     *)
(* race for one promise.                                                   *)
(*                                                                         *)
(* The child may ignore every signal, answer after it was killed, exit     *)
(* and leave its pipes to a descendant, or never say anything.             *)
(***************************************************************************)
EXTENDS Naturals

CONSTANT MaxOutput     \* chunks of output a command may write

VARIABLES
    command,    \* the command that runs: "version", "help", or "none"
    child,      \* its process: "none", "running", "exited" or "closed"
    code,       \* how it exited
    output,     \* chunks collected
    flooding,   \* it goes on writing after it was killed
    operation, grace, hard,     \* the timers that are armed
    reason,     \* why it is being terminated, "none" if it is not
    settled,    \* how the command's promise was settled
    signalled,  \* the abort signal
    listening,  \* the listeners are attached
    result      \* of the probe

vars == <<command, child, code, output, flooding, operation, grace, hard, reason, settled,
          signalled, listening, result>>
timerVars == <<operation, grace, hard>>
Codes == {"ok", "bad", "signal"}
Settlements == {"pending", "resolved", "rejected"}

TypeOK ==
    /\ command \in {"none", "version", "help"}
    /\ child \in {"none", "running", "exited", "closed"} /\ code \in Codes
    /\ output \in 0..MaxOutput /\ flooding \in BOOLEAN
    /\ operation \in BOOLEAN /\ grace \in BOOLEAN /\ hard \in BOOLEAN
    /\ reason \in {"none", "timeout", "aborted"}
    /\ settled \in Settlements /\ signalled \in BOOLEAN /\ listening \in BOOLEAN
    /\ result \in {"none", "compatible", "failed"}

Init ==
    /\ command = "none" /\ child = "none" /\ code = "ok" /\ output = 0 /\ flooding = FALSE
    /\ operation = FALSE /\ grace = FALSE /\ hard = FALSE
    /\ reason = "none" /\ settled = "pending" /\ signalled = FALSE /\ listening = FALSE
    /\ result = "none"

-----------------------------------------------------------------------------
(* One command                                                             *)

\* Listeners and timers are gone as soon as the promise is settled.
CleansUp == operation' = FALSE /\ grace' = FALSE /\ hard' = FALSE /\ listening' = FALSE

\* rejectOnce: a promise that is settled stays as it is.
RejectOnce ==
    IF settled # "pending" THEN UNCHANGED <<settled, timerVars, listening>>
    ELSE settled' = "rejected" /\ CleansUp

\* terminate: the first reason counts.  The child is asked to end, then made to end,
\* and after the hard limit it is not waited for.
Terminate(why) ==
    IF settled # "pending" \/ reason # "none"
    THEN UNCHANGED <<reason, timerVars>>
    ELSE reason' = why /\ operation' = FALSE /\ grace' = TRUE /\ hard' = TRUE

\* run: a signal that is already aborted refuses; spawn may fail at once.
Starts(c) ==
    /\ command' = c /\ output' = 0 /\ flooding' = FALSE /\ reason' = "none" /\ code' = "ok"
    /\ \/ /\ ~signalled
          /\ child' = "running" /\ operation' = TRUE /\ grace' = FALSE /\ hard' = FALSE
          /\ settled' = "pending" /\ listening' = TRUE
       \/ /\ child' = "none" /\ settled' = "rejected" /\ CleansUp
    /\ UNCHANGED <<signalled, result>>

TooMuch == output = MaxOutput

\* A chunk of output: one too many kills the child at once.
Collect ==
    /\ child \in {"running", "exited"} /\ ~flooding
    /\ IF ~listening \/ settled # "pending"
       THEN flooding' = TRUE /\ UNCHANGED <<output, settled, timerVars, listening>>
       ELSE IF TooMuch
       THEN RejectOnce /\ UNCHANGED <<output, flooding>>
       ELSE output' = output + 1 /\ UNCHANGED <<flooding, settled, timerVars, listening>>
    /\ UNCHANGED <<command, child, code, reason, signalled, result>>

\* An error of a pipe or of the process.  After a termination the latter says nothing.
PipeFails ==
    /\ child \in {"running", "exited"} /\ listening
    /\ RejectOnce
    /\ UNCHANGED <<command, child, code, output, flooding, reason, signalled, result>>
ProcessFails ==
    /\ child = "running" /\ listening
    /\ reason = "none" /\ RejectOnce
    /\ UNCHANGED <<command, child, code, output, flooding, reason, signalled, result>>

\* exit: anything but a clean exit ends the command, a clean one waits for the pipes.
Exit(how) ==
    /\ child = "running"
    /\ child' = "exited" /\ code' = how
    /\ IF listening /\ (reason # "none" \/ how # "ok") THEN RejectOnce
       ELSE UNCHANGED <<settled, timerVars, listening>>
    /\ UNCHANGED <<command, output, flooding, reason, signalled, result>>

\* close: the command succeeds if nothing has gone wrong before.
Resolves == reason = "none" /\ code = "ok"
Close ==
    /\ child = "exited"
    /\ child' = "closed"
    /\ IF ~listening \/ settled # "pending" THEN UNCHANGED <<settled, timerVars, listening>>
       ELSE settled' = (IF Resolves THEN "resolved" ELSE "rejected") /\ CleansUp
    /\ UNCHANGED <<command, code, output, flooding, reason, signalled, result>>

OperationTimer ==
    /\ operation
    /\ Terminate("timeout")
    /\ UNCHANGED <<command, child, code, output, flooding, settled, signalled, listening, result>>
GraceTimer ==
    /\ grace /\ grace' = FALSE
    /\ UNCHANGED <<command, child, code, output, flooding, operation, hard, reason, settled,
                   signalled, listening, result>>
HardTimer ==
    /\ hard
    /\ RejectOnce
    /\ UNCHANGED <<command, child, code, output, flooding, reason, signalled, result>>

\* The caller gives up: at most once, at any time.
Abort ==
    /\ ~signalled /\ signalled' = TRUE
    /\ IF listening THEN Terminate("aborted") ELSE UNCHANGED <<reason, timerVars>>
    /\ UNCHANGED <<command, child, code, output, flooding, settled, listening, result>>

-----------------------------------------------------------------------------
(* The probe                                                               *)

ProbeVersion ==
    /\ command = "none" /\ result = "none"
    /\ Starts("version")

\* What was written must name a compatible version, and describe the App Server.
Recognized(out) == out = "expected"
ProbeHelp ==
    /\ command = "version" /\ settled = "resolved" /\ result = "none"
    /\ \E out \in {"expected", "other"} :
          IF Recognized(out) THEN Starts("help")
          ELSE result' = "failed" /\ UNCHANGED <<command, child, code, output, flooding, timerVars,
                                                 reason, settled, signalled, listening>>

ProbeEnds ==
    /\ result = "none"
    /\ \/ command = "help" /\ settled = "resolved" /\ result' \in {"compatible", "failed"}
       \/ command # "none" /\ settled = "rejected" /\ result' = "failed"
    /\ UNCHANGED <<command, child, code, output, flooding, timerVars, reason, settled, signalled, listening>>

ChildActs == Collect \/ PipeFails \/ ProcessFails \/ (\E how \in Codes : Exit(how)) \/ Close
Timers == OperationTimer \/ GraceTimer \/ HardTimer
Continues == ProbeVersion \/ ProbeHelp \/ ProbeEnds

Next == ChildActs \/ Timers \/ Continues \/ Abort

\* Timers fire and promises are followed; the child need not do anything.
Fairness == WF_vars(Timers) /\ WF_vars(Continues)
Spec == Init /\ [][Next]_vars /\ Fairness

-----------------------------------------------------------------------------
(* Properties                                                              *)

\* Five events race for one promise: it is settled once, and a command that was being
\* terminated for a timeout or an abort never succeeds afterwards.
CommandsSettleOnce ==
    [][/\ settled # "pending" /\ command' = command => settled' = settled
       /\ settled' = "resolved" /\ settled # "resolved" => reason = "none" /\ code = "ok"]_vars

\* While the promise is pending some timer is armed that will settle it without the
\* child; once it is settled no timer and no listener is left.
PendingIsTimed ==
    command # "none" =>
        IF settled = "pending" THEN listening /\ (operation \/ hard)
        ELSE ~listening /\ ~operation /\ ~grace /\ ~hard
=============================================================================
