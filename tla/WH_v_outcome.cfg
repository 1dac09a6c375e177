SPECIFICATION Spec
CONSTANTS
    Actors = {"owner", "stranger"}
    Containers = {"c1"}
    HookPerm <- MCHookPerm
    Hooks = {w1}
    Rows = {d1}
    Requests = {r1}
    Secrets = {"s1", "s2"}
    Branches = {"main", "dev"}
    Commands = {"deploy", "test"}
    Forms <- MCForms
    Patches <- MCPatches
    Events <- MCEvents
    Faults = {"link"}
CHECK_DEADLOCK FALSE
INVARIANT OutcomeTrue
