--------------------------- MODULE ThreadCoordinator --------------------------
(***************************************************************************)
(* The thread coordinator (ride-codex-thread-coordinator.ts): a bounded    *)
(* cache of the server's threads, fed by the answers to its clients'       *)
(* requests and by the server's notifications, and one selected thread.    *)
(*                                                                         *)
(* An answer is older than the notifications that arrived since its        *)
(* request began, and its continuation runs after those that came with it. *)
(* Revisions decide what it may still change: each thread, status and      *)
(* archive has one, and what is evicted with its revision raises a floor   *)
(* below which every answer is refused.                                    *)
(*                                                                         *)
(* A thread's summary is the server's version of it; its status has a      *)
(* version of its own, because a notified status replaces an older one.    *)
(* The server (external) writes one ordered stream: an answer or a         *)
(* notification holds what is true when it is written.                     *)
(***************************************************************************)
EXTENDS Naturals, Sequences, SequencesExt, FiniteSets

CONSTANTS
    Thread, Request,
    Unborn,            \* the threads that do not exist yet
    MaxThreads,        \* MAX_CACHED_THREADS, 500 in the code
    MaxTombstones,     \* MAX_ARCHIVE_TOMBSTONES, 512
    MaxStatuses,       \* MAX_PENDING_STATUSES, 512
    MaxActive,         \* MAX_ACTIVE_REQUESTS, 128
    MaxRestarts,       \* generations of the host after the first
    MaxChanges         \* what the server, the user and the host do unasked

VARIABLES
    generation, hostState,  \* the host, and the generation the coordinator knows
    srv,                    \* the server's threads
    cache,                  \* threads, revisions, tombstones, pending statuses, selection
    listRev, disposed,      \* #threadListRevision, #disposed
    told,                   \* the clients' last snapshot is what the coordinator holds
    req, active,            \* the requests, and #activeRequests
    changes,
    notified, archived, reverted    \* history: see the properties

vars == <<generation, hostState, srv, cache, listRev, disposed, told, req, active,
          changes, notified, archived, reverted>>
hostVars == <<generation, hostState>>
history == <<notified, archived, reverted>>

None == "none"
\* "archived" stands for listModels too: what it lists changes no thread.
Kinds == {"archived", "list", "more", "start", "resume", "read", "archive"}
\* The refresh of the selected thread: one for each generation.
Refresh == 1..(MaxRestarts + 1)
Ops == Request \cup Refresh
NoData == [page |-> <<>>, last |-> FALSE]
NoRequest == [kind |-> None, thread |-> None, pc |-> "idle", lease |-> None, gen |-> 0,
              rev |-> 0, sel |-> 0, list |-> 0, data |-> NoData]
Absent == [base |-> 0, status |-> 0]

Init ==
    /\ generation = 1 /\ hostState = "ready"
    /\ srv = [x \in Thread |-> [life |-> IF x \in Unborn THEN "unborn" ELSE "live", ver |-> 0]]
    /\ cache = [order |-> <<>>, sum |-> [x \in Thread |-> Absent],
                changedAt |-> [x \in Thread |-> 0], statusAt |-> [x \in Thread |-> 0],
                archivedAt |-> [x \in Thread |-> 0],
                pending |-> [x \in Thread |-> [status |-> 0, rev |-> 0]],
                rev |-> 0, floor |-> 0, selected |-> None, selRev |-> 0, dirty |-> FALSE]
    /\ listRev = 0 /\ disposed = FALSE /\ told = TRUE
    /\ req = [q \in Ops |-> NoRequest] /\ active = {}
    /\ changes = 0
    /\ notified = [x \in Thread |-> 0] /\ archived = {} /\ reverted = {}

-----------------------------------------------------------------------------
(* The cache.  "dirty" collects the code's "changed".                      *)

Has(c, x) == \E i \in DOMAIN c.order : c.order[i] = x

\* Several versions fall into one second of updatedAt.
UpdatedAt(v) == v \div 2

\* A thread that is new goes to the end of the map; one that is replaced keeps its place.
Put(c, x, s) ==
    IF Has(c, x) /\ c.sum[x] = s THEN c
    ELSE [c EXCEPT !.sum[x] = s, !.dirty = TRUE,
                   !.order = IF Has(c, x) THEN @ ELSE Append(@, x)]

Forget(c, x) ==
    [c EXCEPT !.order = SelectSeq(@, LAMBDA y : y # x), !.sum[x] = Absent,
              !.changedAt[x] = 0, !.statusAt[x] = 0, !.pending[x] = [status |-> 0, rev |-> 0]]

\* recordMetadataEviction: what is forgotten is refused from now on.
Evicts(c, revisions) ==
    [c EXCEPT !.floor = CHOOSE m \in revisions \cup {@} : \A r \in revisions \cup {@} : r <= m]

\* One merge adds at most one thread, so one removal is enough; the selected thread stays.
Trim(c) ==
    IF Len(c.order) <= MaxThreads \/ ToSet(c.order) = {c.selected} THEN c
    ELSE LET x == SelectSeq(c.order, LAMBDA y : y # c.selected)[1]
             gone == {IF c.changedAt[x] = 0 THEN c.rev ELSE c.changedAt[x],
                      c.statusAt[x], c.pending[x].rev, c.archivedAt[x]}
         IN  [Forget(Evicts(c, gone), x) EXCEPT !.archivedAt[x] = 0, !.dirty = TRUE]

\* Trim(c), with c computed once.
Trimmed(c) == CHOOSE d \in {Trim(b) : b \in {c}} : TRUE

\* The thread is written with the next revision; a pending status is used up.
Revise(c, x, s, usesPending) ==
    LET d == Put(c, x, s)
        e == [d EXCEPT !.rev = @ + 1, !.changedAt[x] = c.rev + 1]
    IN  Trimmed(
          IF usesPending
          THEN [e EXCEPT !.pending[x] = [status |-> 0, rev |-> 0], !.statusAt[x] = c.rev + 1]
          ELSE e)

\* The thread was archived or changed after the operation began.
IsNewer(c, x, at) == c.archivedAt[x] > at \/ c.changedAt[x] > at

\* #mergeThread: an answer's summary v of thread x, of an operation that began at a revision.
MergeThread(c, x, v, at) ==
    IF IsNewer(c, x, at) \/ (Has(c, x) /\ UpdatedAt(c.sum[x].base) > UpdatedAt(v)) THEN c
    ELSE LET late == c.pending[x].rev > at
             status == IF late THEN c.pending[x].status ELSE v
         IN  Revise(c, x, [base |-> v, status |-> status], late)

\* #mergeStartedNotification.
MergeStarted(c, x, v) ==
    LET old == Has(c, x) /\ UpdatedAt(c.sum[x].base) > UpdatedAt(v)
        waits == c.pending[x].rev # 0
        base == IF old THEN c.sum[x] ELSE [base |-> v, status |-> v]
        status == IF waits THEN c.pending[x].status
                  ELSE IF Has(c, x) /\ c.statusAt[x] # 0 THEN c.sum[x].status ELSE base.status
    IN  IF c.archivedAt[x] # 0 \/ (old /\ ~waits) THEN c
        ELSE Revise(c, x, [base EXCEPT !.status = status], waits)

\* The entries are in the order of their revisions, so the first is the one with the least.
OldestOf(revs) == CHOOSE x \in Thread :
    revs[x] # 0 /\ \A y \in Thread : revs[y] = 0 \/ revs[x] <= revs[y]
Entries(revs) == Cardinality({x \in Thread : revs[x] # 0})

\* #mergeStatusNotification.
MergeStatus(c, x, v) ==
    IF c.archivedAt[x] # 0 THEN c
    ELSE LET d == [c EXCEPT !.rev = @ + 1] IN
         IF Has(c, x)
         THEN [Put(d, x, [c.sum[x] EXCEPT !.status = v]) EXCEPT
                 !.changedAt[x] = d.rev, !.statusAt[x] = d.rev]
         ELSE LET e == [d EXCEPT !.pending[x] = [status |-> v, rev |-> d.rev]]
                  revs == [y \in Thread |-> e.pending[y].rev]
                  o == OldestOf(revs)
              IN  IF Entries(revs) <= MaxStatuses THEN e
                  ELSE [Evicts(e, {revs[o]}) EXCEPT !.pending[o] = [status |-> 0, rev |-> 0]]

Deselect(c) == [c EXCEPT !.selected = None, !.selRev = @ + 1, !.dirty = TRUE]

\* #archiveThread.
Archive(c, x) ==
    LET d == [c EXCEPT !.rev = @ + 1, !.archivedAt[x] = c.rev + 1]
        o == OldestOf(d.archivedAt)
        e == IF Entries(d.archivedAt) <= MaxTombstones THEN d
             ELSE [Evicts(d, {d.archivedAt[o]}) EXCEPT !.archivedAt[o] = 0]
        f == [Forget(e, x) EXCEPT !.dirty = @ \/ Has(c, x)]
    IN  IF c.selected = x THEN Deselect(f) ELSE f

\* A new generation: the threads stay, what is known about their order goes.
Restarted(c) ==
    [c EXCEPT !.rev = @ + 1, !.floor = 0, !.changedAt = [x \in Thread |-> 0],
              !.statusAt = [x \in Thread |-> 0], !.archivedAt = [x \in Thread |-> 0],
              !.pending = [x \in Thread |-> [status |-> 0, rev |-> 0]], !.dirty = TRUE]

Snapshot(c, g) ==
    [generation |-> g, selected |-> c.selected,
     threads |-> {[id |-> x, summary |-> c.sum[x]] : x \in ToSet(c.order)}]

\* The cache becomes c and, if something changed, the clients are told.  A client that
\* connects is told at once.
Publish(c, g) ==
    /\ cache' = [c EXCEPT !.dirty = FALSE]
    /\ told' = (c.dirty \/ (told /\ Snapshot(c, g) = Snapshot(cache, generation)))

-----------------------------------------------------------------------------
(* Requests.                                                               *)

\* trackRequest and the context of the operation.
Tracked(q, kind, x) ==
    [NoRequest EXCEPT !.kind = kind, !.thread = x, !.pc = "acquiring", !.lease = "asked",
                      !.rev = cache.rev, !.sel = cache.selRev]

IsList(kind) == kind \in {"archived", "list", "more"}

Begins(q, kind, x) ==
    /\ q \in Request /\ req[q].pc = "idle" /\ ~disposed
    /\ Cardinality(active) < MaxActive
    /\ (x # None) <=> (kind \in {"resume", "read", "archive"})
    /\ listRev' = IF IsList(kind) THEN listRev + 1 ELSE listRev
    /\ req' = [req EXCEPT ![q] = [Tracked(q, kind, x) EXCEPT !.list = listRev']]
    /\ active' = active \cup {q}
    /\ UNCHANGED <<hostVars, srv, cache, disposed, told, changes, history>>

\* What is left of the request r when it is over: the lease, given back if it was held, and
\* the context of a refresh, whose caller has something left to do.
Over(r, pc) ==
    [NoRequest EXCEPT !.pc = pc, !.gen = r.gen,
                      !.lease = IF r.lease = "held" THEN "released" ELSE r.lease]
Ended(r) == Over(r, "ended")
Thrown(r) ==
    IF r.kind = "refresh"
    THEN [Over(r, "failed") EXCEPT !.kind = r.kind, !.thread = r.thread, !.sel = r.sel]
    ELSE Ended(r)

Throws(q) ==
    /\ req' = [req EXCEPT ![q] = Thrown(@)]
    /\ active' = active \ {q}

\* External: the host answers an acquire.
HostGrants(q) ==
    /\ req[q].lease = "asked" /\ hostState = "ready"
    /\ req' = [req EXCEPT ![q].lease = "granted", ![q].gen = generation]
    /\ UNCHANGED <<hostVars, srv, cache, listRev, disposed, told, active, changes, history>>

HostRefuses(q) ==
    /\ req[q].lease = "asked"
    /\ req' = [req EXCEPT ![q] =
                  [(IF @.pc = "acquiring" THEN Thrown(@) ELSE @) EXCEPT !.lease = None]]
    /\ active' = active \ {q}
    /\ UNCHANGED <<hostVars, srv, cache, listRev, disposed, told, changes, history>>

\* A request that was invalidated or released meanwhile gives the lease back.
BindsInTime(q) == q \in active

\* bind.
Binds(q) ==
    /\ req[q].lease = "granted"
    /\ req' = [req EXCEPT ![q].lease = IF BindsInTime(q) THEN "held" ELSE "released",
                          ![q].pc = IF @ = "acquiring" THEN "bound" ELSE @]
    /\ UNCHANGED <<hostVars, srv, cache, listRev, disposed, told, active, changes, history>>

\* requireOperation.
IsCurrent(q) == ~disposed /\ req[q].gen = generation

\* A released lease rejects the request.
Asks(q) ==
    /\ req[q].pc = "bound"
    /\ IF IsCurrent(q) /\ q \in active
       THEN req' = [req EXCEPT ![q].pc = "asked"] /\ UNCHANGED active
       ELSE Throws(q)
    /\ UNCHANGED <<hostVars, srv, cache, listRev, disposed, told, changes, history>>

Live == {x \in Thread : srv[x].life = "live"}
\* Every order of the threads in X.
Pages(X) == {p \in [1..Cardinality(X) -> X] : \A i, j \in DOMAIN p : p[i] = p[j] => i = j}
Page(p) == [i \in DOMAIN p |-> [id |-> p[i], ver |-> srv[p[i]].ver]]
Single(x) == [page |-> <<[id |-> x, ver |-> srv[x].ver]>>, last |-> FALSE]

\* External: the server writes its answer; the continuation runs later.
Answers(q) ==
    /\ req[q].pc = "asked" /\ hostState = "ready" /\ req[q].gen = generation
    /\ \/ /\ req[q].kind = "archived"
          /\ UNCHANGED srv /\ req' = [req EXCEPT ![q].pc = "answered"]
       \/ /\ req[q].kind \in {"list", "more"}
          /\ \E X \in SUBSET Live, last \in BOOLEAN : \E p \in Pages(X) :
               /\ last /\ req[q].kind = "list" => X = Live
               /\ req' = [req EXCEPT ![q].pc = "answered",
                                     ![q].data = [page |-> Page(p), last |-> last]]
          /\ UNCHANGED srv
       \/ /\ req[q].kind = "start"
          /\ \E x \in Thread :
               /\ srv[x].life = "unborn"
               /\ srv' = [srv EXCEPT ![x].life = "live"]
               /\ req' = [req EXCEPT ![q].pc = "answered", ![q].data = Single(x)]
       \/ /\ req[q].kind \in {"resume", "read", "refresh"} /\ req[q].thread \in Live
          /\ UNCHANGED srv
          /\ req' = [req EXCEPT ![q].pc = "answered", ![q].data = Single(req[q].thread)]
       \/ /\ req[q].kind = "archive" /\ srv[req[q].thread].life # "unborn"
          /\ srv' = [srv EXCEPT ![req[q].thread].life = "archived"]
          /\ req' = [req EXCEPT ![q].pc = "answered"]
    /\ UNCHANGED <<hostVars, cache, listRev, disposed, told, active, changes, history>>

\* The server refuses, its answer is malformed, or the request times out.
Fails(q) ==
    /\ req[q].pc = "asked" /\ Throws(q)
    /\ UNCHANGED <<hostVars, srv, cache, listRev, disposed, told, changes, history>>

\* The request that asked for the page is the latest one and nobody selected meanwhile.
MayMergePage(r) == r.list = listRev /\ r.sel = cache.selRev /\ r.rev >= cache.floor

\* The rest of listThreads.
Listed(r) ==
    LET fresh == r.kind = "list" /\ r.rev = cache.rev
        c == IF fresh
             THEN [cache EXCEPT !.dirty = cache.order # <<>>, !.order = <<>>,
                                !.sum = [x \in Thread |-> Absent],
                                !.changedAt = [x \in Thread |-> 0],
                                !.statusAt = [x \in Thread |-> 0]]
             ELSE cache
        Merge(m, s) == CHOOSE d \in {MergeThread(b, s.id, s.ver, r.rev) : b \in {m}} : TRUE
        d == Trimmed(FoldLeft(Merge, c, r.data.page))
    IN  IF r.data.last /\ d.selected # None /\ ~Has(d, d.selected) THEN Deselect(d) ELSE d

\* #commitThreadOperation: the thread is merged and, when it was started or resumed and
\* nobody selected meanwhile, selected.
Committed(r) ==
    LET x == r.data.page[1].id
        c == MergeThread(cache, x, r.data.page[1].ver, r.rev)
        selects == /\ r.kind \in {"start", "resume"} /\ r.sel = c.selRev
                   /\ Has(c, x) /\ c.selected # x
    IN  Trimmed(IF selects THEN [c EXCEPT !.selected = x, !.selRev = @ + 1, !.dirty = TRUE]
                ELSE c)

\* Threads that a page made room for others in the cache and then brought back although
\* they had changed since it was asked for: only the page as a whole is compared with the
\* floor, before it is merged.
Revived(c, r) ==
    IF r.kind \in {"list", "more"}
    THEN {x \in Thread : cache.changedAt[x] > r.rev /\ c.changedAt[x] > cache.rev}
    ELSE {}

\* The continuation of an answered request.
Resumes(q) ==
    LET r == req[q]
        over == /\ req' = [req EXCEPT ![q] = Ended(@)]
                /\ active' = active \ {q}
        commits == r.kind \in {"start", "resume", "read", "refresh"}
    IN
    /\ r.pc = "answered"
    /\ \/ /\ ~IsCurrent(q) \/ (commits /\ r.rev < cache.floor)
          /\ Throws(q) /\ UNCHANGED <<cache, told, archived, reverted>>
       \/ /\ IsCurrent(q) /\ ~(commits /\ r.rev < cache.floor)
          /\ over
          /\ \E c \in {CASE r.kind \in {"list", "more"} /\ MayMergePage(r) -> Listed(r)
                         [] commits -> Committed(r)
                         [] r.kind = "archive" -> Archive(cache, r.thread)
                         [] OTHER -> cache} :
                 /\ Publish(c, generation)
                 /\ archived' = IF r.kind = "archive" /\ srv[r.thread].life = "archived"
                                THEN archived \cup {r.thread} ELSE archived
                 /\ reverted' = {x \in reverted : c.sum[x] = cache.sum[x]} \cup Revived(c, r)
    /\ UNCHANGED <<hostVars, srv, listRev, disposed, changes, notified>>

\* The refresh failed: the selection it was for is given up.
RefreshFails(g) ==
    /\ g \in Refresh /\ req[g].pc = "failed"
    /\ req' = [req EXCEPT ![g] = Ended(@)]
    /\ LET mine == /\ ~disposed /\ generation = g
                   /\ cache.selRev = req[g].sel /\ cache.selected = req[g].thread
       IN  Publish(IF mine THEN Deselect(cache) ELSE cache, generation)
    /\ UNCHANGED <<hostVars, srv, listRev, disposed, active, changes, history>>

-----------------------------------------------------------------------------
(* The server's notifications, of the generation that is ready.            *)

Unasked == changes < MaxChanges /\ changes' = changes + 1

Notifies == Unasked /\ hostState = "ready" /\ ~disposed

StatusChanges(x) ==
    /\ Notifies /\ srv[x].life = "live"
    /\ srv' = [srv EXCEPT ![x].ver = @ + 1]
    /\ Publish(MergeStatus(cache, x, srv[x].ver + 1), generation)
    /\ notified' = IF cache.archivedAt[x] # 0 THEN notified   \* ignored
                   ELSE [notified EXCEPT ![x] = srv[x].ver + 1]
    /\ reverted' = reverted \ {x}
    /\ UNCHANGED <<hostVars, listRev, disposed, req, active, archived>>

\* A status that was pending when the thread came into the cache is still there, older
\* than the one the thread has had since.
KeepsOldStatus(c, x) == Has(c, x) /\ c.pending[x].rev # 0 /\ c.pending[x].rev < c.statusAt[x]

Started(x) ==
    /\ Notifies /\ srv[x].life # "archived"
    /\ srv' = [srv EXCEPT ![x].life = "live"]
    /\ Publish(MergeStarted(cache, x, srv[x].ver), generation)
    /\ reverted' = IF KeepsOldStatus(cache, x) THEN reverted \cup {x} ELSE reverted
    /\ UNCHANGED <<hostVars, listRev, disposed, req, active, notified, archived>>

Archived(x) ==
    /\ Notifies /\ srv[x].life # "unborn"
    /\ srv' = [srv EXCEPT ![x].life = "archived"]
    /\ Publish(Archive(cache, x), generation)
    /\ archived' = archived \cup {x}
    /\ reverted' = reverted \ {x}
    /\ UNCHANGED <<hostVars, listRev, disposed, req, active, notified>>

\* Another program takes the thread out of the archive: nothing is said about it.
Unarchived(x) ==
    /\ Unasked /\ srv[x].life = "archived"
    /\ srv' = [srv EXCEPT ![x].life = "live"]
    /\ archived' = archived \ {x}
    /\ UNCHANGED <<hostVars, cache, listRev, disposed, told, req, active, notified, reverted>>

-----------------------------------------------------------------------------
(* The host's states.                                                      *)

\* active.invalidate and active.release for the requests in Q.
Invalidate(Q) ==
    [q \in Ops |-> IF q \notin Q THEN req[q]
                   ELSE IF req[q].pc \in {"acquiring", "asked"} THEN Thrown(req[q])
                   ELSE [req[q] EXCEPT !.lease = IF @ = "held" THEN "released" ELSE @]]

HostStops ==
    /\ Unasked /\ ~disposed /\ hostState # "down" /\ hostState' = "down"
    /\ req' = Invalidate(active) /\ active' = {}
    /\ UNCHANGED <<generation, srv, cache, listRev, disposed, told, history>>

\* A new generation: "restarting" ends every request, "starting" only those that are bound.
HostStarts(restarting) ==
    /\ Unasked /\ ~disposed /\ hostState # "starting" /\ generation <= MaxRestarts
    /\ hostState' = "starting" /\ generation' = generation + 1
    /\ LET Q == IF restarting THEN active ELSE {q \in active : req[q].lease = "held"}
       IN  req' = Invalidate(Q) /\ active' = active \ Q
    /\ Publish(Restarted(cache), generation + 1)
    /\ notified' = [x \in Thread |-> 0] /\ reverted' = {}
    /\ UNCHANGED <<srv, listRev, disposed, archived>>

\* Ready: the selected thread is read again, unless too many requests are active.
HostReady ==
    /\ ~disposed /\ hostState = "starting" /\ hostState' = "ready"
    /\ IF cache.selected = None \/ req[generation].pc # "idle" THEN UNCHANGED <<req, active>>
       ELSE LET r == Tracked(generation, "refresh", cache.selected) IN
            IF Cardinality(active) < MaxActive
            THEN /\ req' = [req EXCEPT ![generation] = r]
                 /\ active' = active \cup {generation}
            ELSE /\ req' = [req EXCEPT ![generation] = Thrown([r EXCEPT !.lease = None])]
                 /\ UNCHANGED active
    /\ UNCHANGED <<generation, srv, cache, listRev, disposed, told, changes, history>>

-----------------------------------------------------------------------------
(* The clients.                                                            *)

\* selectThread: any selection is the latest intent, also the one that is there already.
Select(x) ==
    /\ Unasked /\ ~disposed
    /\ LET y == IF x # None /\ Has(cache, x) THEN x ELSE None
       IN  Publish([cache EXCEPT !.selected = y, !.selRev = @ + 1,
                                 !.dirty = @ \/ cache.selected # y], generation)
    /\ UNCHANGED <<hostVars, srv, listRev, disposed, req, active, history>>

Dispose ==
    /\ ~disposed /\ disposed' = TRUE
    /\ listRev' = listRev + 1
    /\ req' = Invalidate(active) /\ active' = {}
    /\ UNCHANGED <<hostVars, srv, cache, told, changes, history>>

Continues(q) == Binds(q) \/ Asks(q) \/ Resumes(q)
Calls(q) == \E k \in Kinds, x \in Thread \cup {None} : Begins(q, k, x)
Serves(q) == HostGrants(q) \/ HostRefuses(q) \/ Answers(q) \/ Fails(q)

Next ==
    \/ \E q \in Ops : Calls(q) \/ Serves(q) \/ Continues(q) \/ RefreshFails(q)
    \/ \E x \in Thread : StatusChanges(x) \/ Started(x) \/ Archived(x) \/ Unarchived(x)
    \/ HostStops \/ (\E b \in BOOLEAN : HostStarts(b)) \/ HostReady
    \/ \E x \in Thread \cup {None} : Select(x)
    \/ Dispose

Spec == Init /\ [][Next]_vars

\* The host settles its promises (AppServerHost: OperationsSettle, JsonlClient:
\* RequestsSettle) and a queued continuation runs.
Fairness ==
    \A q \in Ops : /\ WF_vars(HostGrants(q) \/ HostRefuses(q))
                   /\ WF_vars(Answers(q) \/ Fails(q))
                   /\ WF_vars(Continues(q) \/ RefreshFails(q))

FairSpec == Spec /\ Fairness

-----------------------------------------------------------------------------
(* Properties                                                              *)

TypeOK ==
    /\ generation \in 1..(MaxRestarts + 1) /\ hostState \in {"ready", "starting", "down"}
    /\ ToSet(cache.order) \subseteq Thread /\ Len(cache.order) <= MaxThreads
    /\ cache.sum \in [Thread -> [base : Nat, status : Nat]]
    /\ cache.selected \in Thread \cup {None} /\ ~cache.dirty
    /\ \A q \in Ops : /\ req[q].pc \in {"idle", "acquiring", "bound", "asked", "answered",
                                        "failed", "ended"}
                      /\ req[q].lease \in {None, "asked", "granted", "held", "released"}
    /\ active \subseteq Ops /\ Cardinality(active) <= MaxActive

\* A thread whose archiving the coordinator was told about does not come back with a late
\* answer, whatever was evicted since, until the server takes it out of the archive.
ArchivedStaysAway == archived \cap ToSet(cache.order) = {}

\* A status that was notified in this generation is not replaced by an older one, except
\* by one that was left pending or by a page that evicted it first (see Revived and
\* KeepsOldStatus).
StatusIsFresh ==
    \A x \in ToSet(cache.order) \ reverted : cache.sum[x].status >= notified[x]

\* Whatever changes what a client sees is published.
ClientsAreTold == told

\* A lease is held by an active request only, so it goes back however the request ends.
LeasesAreActive == \A q \in Ops : req[q].lease = "held" => q \in active

\* What has begun and must end: requests, and leases that arrive.
Duties ==
    <<\E q \in Ops : req[q].pc \notin {"idle", "ended"},
      \E q \in Ops : req[q].lease \in {"asked", "granted", "held"}>>
=============================================================================
