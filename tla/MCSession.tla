------------------------------ MODULE MCSession -----------------------------
(***************************************************************************)
(* The host of the Codex process, the broker of the account, the migration *)
(* of old keys and the queue of a turn's events, checked together: every   *)
(* behaviour is one of one part, while the others stay where they begin.   *)
(***************************************************************************)
EXTENDS MCAppServerHost, Naturals, Sequences, FiniteSets, TLC

CONSTANTS
    Caller, MaxKnownLogins, MaxEvents, MaxTurn, MaxDeltas, MaxItemEvents, MaxRetained,
    MaxText, MaxQueued, Key, Name, MaxEdits

VARIABLES
    part,       \* the part this behaviour is about
    hostState, hostGen, account, owed, logins, lease, activeGen, broker, signature, known,
    op, auth_disposed, changes, overrun,
    turn, phase, failed, said, items, begun, queue, meta, flush, client, shown, silenced,
    pref, migration_state, migration_disposed, migration_pc, scan, at, removed, inFlight,
    uncertain, loggedIn, edits, erased, overwritten, after

appServerVars == vars

authVars ==
    <<hostState, hostGen, account, owed, logins, lease, activeGen, broker, signature, known,
      op, auth_disposed, changes, overrun>>
Auth == INSTANCE AuthBroker WITH
    disposed <- auth_disposed

eventsVars ==
    <<turn, phase, failed, said, items, begun, queue, meta, flush, client, shown, silenced>>
Events == INSTANCE TurnEvents WITH
    MaxPending <- 4, MaxBatchEvents <- 3

migrationVars ==
    <<pref, migration_state, migration_disposed, migration_pc, scan, at, removed, inFlight,
      uncertain, loggedIn, edits, erased, overwritten, after>>
Migration == INSTANCE AuthController WITH
    state <- migration_state, disposed <- migration_disposed, pc <- migration_pc

-----------------------------------------------------------------------------
PartInit ==
    /\ part \in {"appServer", "auth", "events", "migration"}
    /\ Init /\ Events!Init
    /\ Auth!Init /\ (part = "auth" \/ account = "chatgpt")
    /\ Migration!Init /\ (part = "migration" \/ pref \in [Name -> {"none"}])

\* Part p takes a step: the others stay.
Only(p) ==
    /\ part = p /\ UNCHANGED part
    /\ IF p = "appServer" THEN TRUE ELSE UNCHANGED appServerVars
    /\ IF p = "auth" THEN TRUE ELSE UNCHANGED authVars
    /\ IF p = "events" THEN TRUE ELSE UNCHANGED eventsVars
    /\ IF p = "migration" THEN TRUE ELSE UNCHANGED migrationVars

AppServerPart == Only("appServer") /\ Next
AuthPart == Only("auth") /\ Auth!Next
EventsPart == Only("events") /\ Events!Next
MigrationPart == Only("migration") /\ Migration!Next

PartNext ==
    \/ AppServerPart \/ AuthPart \/ EventsPart \/ MigrationPart

partVars ==
    <<part, appServerVars, authVars, eventsVars, migrationVars>>

\* The fairness of each part, as its module states it.
PartSpec ==
    /\ PartInit /\ [][PartNext]_partVars


-----------------------------------------------------------------------------
\* In every state of a part: its state has its type; an account that is shown is the
\* server's, and leases go back; a key leaves the preferences only when the server has it,
\* and the migration never ends in silence after a removal; the newest turn reaches the
\* client, in order, within the limits of every queue, and what was lost of it is told.
SessionIsTrue ==
    CASE part = "appServer" -> TypeOK
      [] part = "auth" ->
             /\ Auth!TypeOK /\ Auth!ShownIsTrue /\ Auth!AuthenticatingIsOpen
             /\ Auth!LeaseIsReturned
      [] part = "migration" ->
             /\ Migration!TypeOK /\ Migration!OnlyConfirmedKeysGo
             /\ Migration!RemovalIsReported /\ Migration!DisposedHasEnded
             /\ Migration!MigratedWasClean
      [] part = "events" ->
             /\ Events!TypeOK /\ Events!LimitsHold /\ Events!BoundariesArrive
             /\ Events!InOrder /\ Events!LossIsTold
=============================================================================
