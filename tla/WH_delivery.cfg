SPECIFICATION FairSpec
CONSTANTS
    Actors = {"owner", "stranger"}
    Containers = {"c1"}
    HookPerm <- MCHookPerm
    Hooks = {w1}
    Rows = {d1, d2}
    Requests = {r1, r2}
    Secrets = {"s1", "s2"}
    Branches = {"main", "dev"}
    Commands = {"deploy", "test"}
    Forms <- MCForms
    Patches <- MCPatches
    Events <- MCEvents
    Faults = {"database", "crash"}
CHECK_DEADLOCK FALSE
INVARIANTS TypeOK OpenDeliveriesOwned DeploysItsBranch
PROPERTIES LogKept DeliveriesSettle
