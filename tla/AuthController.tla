---------------------------- MODULE AuthController ---------------------------
(***************************************************************************)
(* The controller that moves an API key from old preferences to Codex      *)
(* (ride-codex-auth-controller.ts): it scans the preferences, asks, logs   *)
(* in, lets the account confirm it, and removes the preferences one by     *)
(* one.  The removal itself is the frontend module's: compare, update,     *)
(* read again.  Meanwhile the user may edit the preferences, and the       *)
(* window may close.                                                       *)
(*                                                                         *)
(* "bad" stands for a value that is no key.                                *)
(***************************************************************************)
EXTENDS Naturals, Sequences, FiniteSets, FiniteSetsExt

CONSTANTS
    Key,                \* API keys
    Name,               \* 1..n, LEGACY_CODEX_API_KEY_PREFERENCES in their order
    MaxEdits            \* bound on the user's edits

VARIABLES
    pref,               \* the preferences: a key, "bad" or "none"
    state,              \* #snapshot.state
    disposed,           \* #disposed
    pc,                 \* what the activation waits for
    scan,               \* scan.entries: the preferences that were set, with their values
    at,                 \* the entry that is being removed
    removed,            \* #removedPreferenceCount
    inFlight,           \* #removalInFlight
    uncertain,          \* #removalOutcomeUncertain
    loggedIn,           \* the key of the server's account, or "none"
    edits,              \* how often the user edited a preference
    erased,             \* history: the values that removals took away
    overwritten,        \* history: those of them that a user wrote during a removal
    after               \* history: the preferences that the user set after the end

vars == <<pref, state, disposed, pc, scan, at, removed, inFlight, uncertain, loggedIn, edits,
          erased, overwritten, after>>

Value == Key \cup {"bad", "none"}
Pcs == {"none", "activate", "account", "prompt", "login", "status", "update", "reread", "done"}

Init ==
    /\ pref \in [Name -> Value] /\ loggedIn = "none"
    /\ state = "inactive" /\ disposed = FALSE /\ pc = "none"
    /\ scan = <<>> /\ at = 0 /\ removed = 0 /\ inFlight = 0 /\ uncertain = FALSE
    /\ edits = 0 /\ erased = {} /\ overwritten = {} /\ after = {}

-----------------------------------------------------------------------------
\* #readLegacyPreferences: up to the first value that is not a key.
Set == {n \in Name : pref[n] # "none"}
Bad == {n \in Name : pref[n] = "bad"}
Entries == SelectSeq([n \in Name |-> [name |-> n, value |-> pref[n]]],
                     LAMBDA e : e.value # "none")
Conflict == \E n, m \in Set : pref[n] # pref[m]

\* #canceledSnapshot, when so much was removed and so much is being removed.
Canceled(count, flying, doubt, sources) ==
    LET to == IF count > 0 \/ flying > 0 \/ doubt \/ sources = <<>> THEN "recovery-required"
              ELSE "manual"
    IN  IF state = "activating" \/ (state = "manual" /\ to = "recovery-required")
        THEN to ELSE state

\* #finishCurrent: the outcome of the activation, or of its cancellation.
Ends(to) ==
    /\ pc' = "done"
    /\ state' = IF disposed THEN Canceled(removed, 0, uncertain, scan) ELSE to

\* activate: the scan, and what it finds.
Activate ==
    /\ ~disposed /\ state = "inactive"
    /\ IF Bad # {} \/ Conflict THEN state' = "manual" /\ pc' = "done" /\ scan' = <<>>
       ELSE /\ state' = "activating" /\ scan' = Entries
            /\ pc' = IF Set = {} THEN "activate" ELSE "prompt"
    /\ UNCHANGED <<pref, disposed, at, removed, inFlight, uncertain, loggedIn, edits, erased,
                   overwritten, after>>

\* Without old keys the account is read.
Activates(ok) ==
    /\ pc \in {"activate", "account"}
    /\ IF ok /\ pc = "activate" /\ ~disposed
       THEN pc' = "account" /\ UNCHANGED state
       ELSE Ends(IF ok THEN "ready" ELSE "recovery-required")
    /\ UNCHANGED <<pref, disposed, scan, at, removed, inFlight, uncertain, loggedIn, edits,
                   erased, overwritten, after>>

\* The user accepts, or declines, or the prompt fails.
Answers(accepts) ==
    /\ pc = "prompt"
    /\ IF accepts /\ ~disposed THEN pc' = "login" /\ UNCHANGED state ELSE Ends("manual")
    /\ UNCHANGED <<pref, disposed, scan, at, removed, inFlight, uncertain, loggedIn, edits,
                   erased, overwritten, after>>

\* The server takes the key; its answer may be lost all the same.
LogsIn(taken, ok) ==
    /\ pc = "login" /\ (ok => taken)
    /\ loggedIn' = IF taken THEN scan[1].value ELSE loggedIn
    /\ IF ok /\ ~disposed THEN pc' = "status" /\ UNCHANGED state
       ELSE Ends("recovery-required")
    /\ UNCHANGED <<pref, disposed, scan, at, removed, inFlight, uncertain, edits, erased,
                   overwritten, after>>

\* The loop at entry i: the removal is issued while the preference is what was scanned.
Removes(i) ==
    IF pref[scan[i].name] # scan[i].value
    THEN Ends("recovery-required") /\ UNCHANGED <<at, inFlight>>
    ELSE pc' = "update" /\ at' = i /\ inFlight' = inFlight + 1 /\ UNCHANGED state

\* The account that the server reports: the key's, or another one, or none in time.
Confirms(ok) ==
    /\ pc = "status"
    /\ IF ok /\ loggedIn # "none" /\ ~disposed THEN Removes(1)
       ELSE Ends("recovery-required") /\ UNCHANGED <<at, inFlight>>
    /\ UNCHANGED <<pref, disposed, scan, removed, uncertain, loggedIn, edits, erased,
                   overwritten, after>>

\* preferences.updateValue takes effect, whatever the preference is by now.
Updates ==
    LET e == scan[at]
    IN  /\ pc = "update" /\ pc' = "reread"
        /\ pref' = [pref EXCEPT ![e.name] = "none"]
        /\ erased' = erased \cup {pref[e.name]}
        /\ overwritten' = overwritten \cup ({pref[e.name]} \ {e.value})
        /\ UNCHANGED <<state, disposed, scan, at, removed, inFlight, uncertain, loggedIn, edits,
                       after>>

\* The mutant takes every removal for lasting.
VerifiedBlindly == "migrated"

\* The second loop: what was removed is still away.
Verified == IF \E i \in DOMAIN scan : pref[scan[i].name] # "none" THEN "recovery-required"
            ELSE "migrated"

\* remove answers: with what it reads, or it throws.
Removed(throws) ==
    LET gone == pref[scan[at].name] = "none" /\ ~throws
        count == IF gone THEN removed + 1 ELSE removed
        doubt == uncertain \/ (throws /\ disposed)
        more == gone /\ ~disposed /\ at < Len(scan)
    IN  /\ pc = "reread" \/ (pc = "update" /\ throws)
        /\ removed' = count /\ uncertain' = doubt
        /\ IF more /\ pref[scan[at + 1].name] = scan[at + 1].value
           THEN at' = at + 1 /\ pc' = "update" /\ UNCHANGED <<state, inFlight>>
           ELSE /\ at' = 0 /\ inFlight' = inFlight - 1 /\ pc' = "done"
                /\ state' = IF disposed THEN Canceled(count, inFlight - 1, doubt, scan)
                            ELSE IF gone /\ ~more THEN Verified ELSE "recovery-required"
        /\ UNCHANGED <<pref, disposed, scan, loggedIn, edits, erased, overwritten, after>>

Dispose ==
    /\ ~disposed /\ disposed' = TRUE
    /\ state' = IF state = "activating" THEN Canceled(removed, inFlight, uncertain, scan)
                ELSE state
    /\ UNCHANGED <<pref, pc, scan, at, removed, inFlight, uncertain, loggedIn, edits, erased,
                   overwritten, after>>

Edits(n, v) ==
    /\ edits < MaxEdits /\ edits' = edits + 1
    /\ pref' = [pref EXCEPT ![n] = v]
    /\ after' = IF pc = "done" THEN after \cup {n} ELSE after
    /\ UNCHANGED <<state, disposed, pc, scan, at, removed, inFlight, uncertain, loggedIn,
                   erased, overwritten>>

Next ==
    \/ Activate \/ Updates \/ Dispose
    \/ \E ok \in BOOLEAN : Activates(ok) \/ Answers(ok) \/ Confirms(ok) \/ Removed(ok)
    \/ \E taken, ok \in BOOLEAN : LogsIn(taken, ok)
    \/ \E n \in Name, v \in Value : Edits(n, v)

Spec == Init /\ [][Next]_vars

-----------------------------------------------------------------------------
TypeOK ==
    /\ pref \in [Name -> Value] /\ pc \in Pcs /\ disposed \in BOOLEAN
    /\ state \in {"inactive", "activating", "ready", "migrated", "manual", "recovery-required"}
    /\ Len(scan) <= Cardinality(Name) /\ at \in 0..Len(scan)
    /\ removed \in 0..Len(scan) /\ inFlight \in 0..1 /\ uncertain \in BOOLEAN
    /\ loggedIn \in Key \cup {"none"} /\ erased \cup overwritten \subseteq Value
    /\ after \subseteq Name

\* A key leaves the preferences only when the server has it, but for what the user wrote in
\* the instant of the removal.
OnlyConfirmedKeysGo == erased \ overwritten \subseteq {loggedIn}

\* A removal, however the window closes around it, ends as "migrated" or asks for recovery.
RemovalIsReported ==
    erased # {} /\ pc = "done" => state \in {"migrated", "recovery-required"}

\* A controller that was disposed of is never left waiting.
DisposedHasEnded == disposed => state # "activating"

\* After "migrated", what was scanned is away unless the user set it again.
MigratedWasClean ==
    state = "migrated" =>
        \A i \in DOMAIN scan : pref[scan[i].name] = "none" \/ scan[i].name \in after
=============================================================================
