----------------------------- MODULE ProcessScope -----------------------------
(***************************************************************************)
(* PlatformBackendProcessTree of startup.rs: how the shell kills the tree  *)
(* of a backend.  On Unix the scope is the process group of the root, or   *)
(* for a pseudo terminal its session, and it is enumerated with ps by a    *)
(* worker and signalled group by group while its processes fork, change    *)
(* groups and leave; on Windows it is a job that nothing leaves.           *)
(* The root stays a zombie until the tree is gone, so that its identifiers *)
(* are not used again.                                                     *)
(***************************************************************************)
EXTENDS Naturals, FiniteSets

CONSTANTS Child, Root      \* the descendants the root may have, and the root itself

VARIABLES
    mode,               \* "direct", "session" or "job"
    proc,               \* "none", "suspended", "live", "zombie" (the root), "gone"
    group, session,     \* of each process
    killer,             \* terminate_and_confirm or force_terminate_for_exit
    seen,               \* the members and the groups of the last enumeration
    result

procVars == <<proc, group, session>>
vars == <<mode, procVars, killer, seen, result>>

Proc == Child \cup {Root}

TypeOK ==
    /\ mode \in {"direct", "session", "job"}
    /\ proc \in [Proc -> {"none", "suspended", "live", "zombie", "gone"}]
    /\ group \in [Proc -> Proc] /\ session \in [Proc -> Proc]
    /\ killer \in {"none", "term", "signal", "snapshot", "kill", "confirm", "count", "over"}
    /\ seen.members \subseteq Proc /\ seen.groups \subseteq Proc
    /\ result \in {"none", "ok", "retained", "failed"}

NothingSeen == [members |-> {}, groups |-> {}]
Init ==
    /\ mode \in {"direct", "session", "job"}
    /\ proc = [p \in Proc |-> IF p = Root THEN "suspended" ELSE "none"]
    /\ group = [p \in Proc |-> p] /\ session = [p \in Proc |-> p]
    /\ killer = "none" /\ seen = NothingSeen /\ result = "none"

Live(p) == proc[p] = "live"
Listed(p) == proc[p] \in {"live", "suspended", "zombie"}

\* The processes that are the backend's: a job holds every descendant.
InScope(p) ==
    /\ Listed(p)
    /\ CASE mode = "direct" -> group[p] = Root
         [] mode = "session" -> session[p] = Root
         [] mode = "job" -> TRUE
-----------------------------------------------------------------------------
(* The processes *)

\* A job's root is created suspended and resumed after it was assigned to the job,
Suspended == proc[Root] = "suspended"

\* on Unix process_group(0) or setsid come before exec.
ClaimsTree ==
    /\ Suspended /\ proc' = [proc EXCEPT ![Root] = "live"]
    /\ UNCHANGED <<mode, group, session, killer, seen, result>>

Forks(p, c) ==
    /\ Live(p) /\ proc[c] = "none"
    /\ proc' = [proc EXCEPT ![c] = "live"]
    /\ group' = [group EXCEPT ![c] = group[p]] /\ session' = [session EXCEPT ![c] = session[p]]
    /\ UNCHANGED <<mode, killer, seen, result>>

\* setpgid keeps the session, setsid leaves it: such a process is nobody's any more.
ChangesGroup(c) ==
    /\ Live(c) /\ group[c] # c /\ group' = [group EXCEPT ![c] = c]
    /\ session' \in {session, [session EXCEPT ![c] = c]}
    /\ UNCHANGED <<mode, proc, killer, seen, result>>

Dead(p) == IF p = Root THEN "zombie" ELSE "gone"
Exits(p) ==
    /\ Live(p) /\ proc' = [proc EXCEPT ![p] = Dead(p)]
    /\ UNCHANGED <<mode, group, session, killer, seen, result>>
-----------------------------------------------------------------------------
(* The killer *)

\* enumerate_scope_members: the members, and the groups they are in at that moment.
Enumerated ==
    LET members == {p \in Proc : InScope(p)}
    IN  [members |-> members, groups |-> {group[p] : p \in members}]

Enumerates(pc, next) ==
    /\ killer = pc /\ seen' = Enumerated /\ killer' = next
    /\ UNCHANGED <<mode, procVars, result>>

Stops ==
    /\ killer = "none" /\ ~Suspended
    /\ killer' \in (IF mode = "job" THEN {"count"} ELSE {"term", "snapshot"})
    /\ proc' = [p \in Proc |-> IF mode = "job" /\ Listed(p) THEN Dead(p) ELSE proc[p]]
    /\ UNCHANGED <<mode, group, session, seen, result>>

\* SIGTERM may be handled, SIGKILL may not; a group that is gone is no error.
Signalled(p) == proc[p] = "live" /\ group[p] \in seen.groups
Terminates ==
    /\ killer = "signal" /\ killer' = "snapshot"
    /\ \E deaf \in SUBSET Proc :
         proc' = [p \in Proc |-> IF Signalled(p) /\ p \notin deaf THEN Dead(p) ELSE proc[p]]
    /\ UNCHANGED <<mode, group, session, seen, result>>

OnlyRoot == seen.members \subseteq {Root}
NextAfterKillUnconfirmed == IF OnlyRoot THEN "over" ELSE "snapshot"
NextAfterKill == IF OnlyRoot THEN "confirm" ELSE "snapshot"

Kills ==
    /\ killer = "kill" /\ killer' = NextAfterKill
    /\ proc' = [p \in Proc |-> IF Signalled(p) THEN Dead(p) ELSE proc[p]]
    /\ result' = IF killer' = "over" THEN "ok" ELSE result
    /\ UNCHANGED <<mode, group, session, seen>>

\* The second enumeration decides.
Confirms ==
    /\ killer = "confirm" /\ seen' = Enumerated
    /\ \/ seen'.members \subseteq {Root} /\ killer' = "over" /\ result' = "ok"
       \/ ~(seen'.members \subseteq {Root}) /\ killer' = "snapshot" /\ UNCHANGED result
    /\ UNCHANGED <<mode, procVars>>

JobIsEmpty ==
    /\ killer = "count" /\ \A p \in Proc : ~Live(p)
    /\ killer' = "over" /\ result' = "ok" /\ UNCHANGED <<mode, procVars, seen>>

\* The deadline bounds the loop and every enumeration; the enumeration itself may fail.
GivesUp ==
    /\ killer \in {"term", "snapshot", "confirm", "count"} /\ killer' = "over"
    /\ result' \in {"retained", "failed"} /\ UNCHANGED <<mode, procVars, seen>>

KillerStep ==
    \/ Enumerates("term", "signal") \/ Terminates \/ Enumerates("snapshot", "kill")
    \/ Kills \/ Confirms \/ JobIsEmpty \/ GivesUp

Next ==
    \/ ClaimsTree \/ Stops \/ KillerStep
    \/ \E p \in Proc : Exits(p)
    \/ \E p \in Proc, c \in Child : Forks(p, c) \/ ChangesGroup(c)

Spec == Init /\ [][Next]_vars /\ WF_vars(KillerStep) /\ WF_vars(GivesUp)
-----------------------------------------------------------------------------
\* When the termination is confirmed no process of the scope lives, although they forked
\* and changed groups while they were enumerated and signalled.
ScopeIsEmpty == result = "ok" => \A p \in Proc : InScope(p) => ~Live(p)

\* What has begun and must end, whatever the processes do: a termination has a deadline.
Duties == << killer # "none" /\ result = "none" >>
=============================================================================
