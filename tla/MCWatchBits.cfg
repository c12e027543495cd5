CONSTANTS
    d1 = d1  d2 = d2  d3 = d3
    Dir = {d1, d2, d3}  Lists <- MCLists  LinuxLists <- WithD1  WindowsLists <- AtOnce
    MaxHeld = 2  MaxTaken = 1
    Fault = {}
SPECIFICATION TogetherSpec
PROPERTY ImplementsDirWatch
