CONSTANTS
    Reals = {r1, r2}
    Vnds = {v1, v2}
    MaxMux = 2
    Eps = {e1, e2}
    Readers = {k1}
    Clients = {"low", "mid", "mid2", "high"}
    Priority <- MCPriority
    Envs <- MCEnvs
    NULL = NULL
SPECIFICATION Spec
SYMMETRY Sym
INVARIANTS
    ReadersSafe
    LinksSound
    BridgePaired
    TimersStopped
    MarkersSorted
