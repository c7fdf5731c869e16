CONSTANTS
    f1 = f1
    f2 = f2
    a = a
    b = b
    c = c
    Path <- MCPath
    Domain <- MCDomain
    IdsOf <- MCIdsOf
    Secret = {noarg}
    NoSecret = noarg
    Task = {t1, t2}
    MaxWrites = 2
    Absent = Absent
    Broken = Broken
    None = None
    Served = a
SPECIFICATION Spec
INVARIANT HotReload
CHECK_DEADLOCK FALSE
