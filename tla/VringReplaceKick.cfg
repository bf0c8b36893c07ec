SPECIFICATION Spec
CONSTANTS
    f1 = f1
    f2 = f2
    fd1 = fd1
    fd2 = fd2
    NumQueues = 1
    NumThreads = 1
    Masks <- OneMask
    Files = {f1, f2}
    RingFiles <- OneRingFiles
    NonBlocking = {f1, f2}
    Fds = {fd1, fd2}
    ExitWorkers = {0}
    ReplaceKick = TRUE
    NoKick = NoKick
    ExitEvent = ExitEvent
INVARIANT ActiveRingIsRegistered
