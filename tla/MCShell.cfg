\* One retry of the backend and one failing kill; two connections; one waiter; two tunnels;
\* three rearrangements of the files; two forked processes; three deliveries; two downloads.
SPECIFICATION PartSpec
CONSTANTS
    MaxGeneration = 2
    MaxFailures = 1
    ForceAfter = 1
    MaxStops = 2
    Child = {c1, c2}
    MaxRounds = 2
    Connection = {r1, r2}
    MaxWaiters = 1
    MaxTunnels = 2
    Slot = {s1, s2}
    Ring = 2
    Channel = 2
    MaxChanges = 3
    Thread = {t1, t2, t3}
    MaxId = 3
    MaxLength = 1
    Download = {d1, d2}
    Target = {a}
    MaxPermits = 2
    MaxRedirects = 1
    MaxChunks = 1
    Install = {i1, i2}
    File = {f1, f2}
INVARIANTS
    BackendIsOwned
    ProcessesAreOwned
    ServicesAreSound
PROPERTY ShellSettles
CHECK_DEADLOCK FALSE
