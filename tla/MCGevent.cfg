SPECIFICATION FairSpec
CONSTANTS
    Fds = {f}
    OneShots = {o}
    Timers = {t}
    Inner = inner
    Uses <- MCUses
INVARIANTS FreedOnce OneShotFiresOnce
PROPERTIES StopReturns InputHandled
