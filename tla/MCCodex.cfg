\* JSONL: two ids and two requests of the server under each.  Stager: two consents, one
\* redirect, one change by another program, one failing file operation.  Threads: a thread
\* that exists and one that is yet to be started, a cache for one.
SPECIFICATION PartSpec
CONSTANTS
    MaxRequestId = 2
    MaxPending = 2
    ServerId = {s1, s2}
    MaxAsks = 2
    Consent = {1, 2}
    Lifetime = 2
    MaxTime = 2
    MaxRedirects = 1
    MaxTampers = 1
    MaxFaults = 1
    MaxOutput = 1
    Thread = {x, y}
    Unborn = {y}
    Asking = {q1}
    MaxThreads = 1
    MaxTombstones = 1
    MaxStatuses = 1
    MaxActive = 1
    MaxRestarts = 1
    MaxChanges = 3
    Caller = {1, 2}
    Dir = {"d1", "d2", "d3", "d4"}
    World <- MCWorld
    MaxProbes = 2
    MaxDirectories = 3
    MaxWorldChanges = 1
    MaxGeneration = 1
    MaxQueued = 6
    MaxBatchEvents = 2
    MaxText = 1
    MaxItems = 1
    MaxFinalized = 1
    MaxBatches = 3
INVARIANTS
    AnsweredOnce
    HonestServerIsKept
    PartsAgree
PROPERTIES
    PromisesSettleOnce
    StagingIsSound
    PartsSettle
CHECK_DEADLOCK FALSE
