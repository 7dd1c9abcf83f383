SPECIFICATION Spec
CONSTANTS
    s1 = s1
    s2 = s2
    r1 = r1
    r2 = r2
    c1 = c1
    c2 = c2
    Names = {0, 1}
    Relays = {"old", "new"}
    Changes = {c1}
    Reloaders = {r1, r2}
    Initials <- Files
    Supervisors = {s1, s2}
    MaxOps = 2
    MaxFaults = 1
INVARIANT AppliedTogether
INVARIANT OneSupervisor
INVARIANT RelayConfirmed
PROPERTY MutexIsReleased
CHECK_DEADLOCK FALSE
