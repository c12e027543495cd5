CONSTANTS
    d1 = d1  d2 = d2  d3 = d3
    Dir = {d1, d2, d3}  Lists <- MCLists  LinuxLists <- WithD1  WindowsLists <- AtOnce
    MaxHeld = 2  MaxTaken = 2
    Fault = {"init", "poll", "read"}
SPECIFICATION UseSpec
INVARIANT TypeOK
PROPERTIES KeepsPromise CheckReturns WakesClient ChangeIsTold
