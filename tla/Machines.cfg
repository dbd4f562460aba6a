CONSTANTS
    linux = linux  windows = windows linuxvm=linuxvm  t1=t1 t2=t2 t3=t3 d1=d1
    Categories = {linux, windows, linuxvm}
    VMs = {windows}
    Unsupported = {linuxvm}
    Cores <- MCCores
    Machines = {1, 2, 3, 4, 5}
    Tests = {t1, t2, t3}
    Deploys = {d1}
    CategoryOf <- MCCategoryOf
    Nothing = Nothing
    MaxCores = 2  MaxWorkers = 2
    TerminateMayFail = FALSE
    MaxRequests = 2  MaxTarget = 1  MaxCrashes = 1  MaxFaults = 1
SPECIFICATION FairSpec
INVARIANTS BooksAgree
PROPERTIES WorkIsServed NoRunStaysOnDeadMachine
CHECK_DEADLOCK FALSE
