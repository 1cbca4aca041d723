SPECIFICATION Spec
CONSTANTS
    sa = sa
    sb = sb
    sc = sc
    g = g
    m = m
    n = n
    v = v
    w = w
    x = x
    y = y
    z = z
    root = root
    lhs = lhs
    rhs = rhs
    tip = tip
    other = other
    fresh = fresh
    merge = merge
    next = next
    None = None
    Subgraph = {sa, sb, sc}
    Block = {g, m, n, v, w, x, y, z}
    Output = {root, lhs, rhs, tip, other, fresh, merge, next}
    Registered <- MCRegistered
    DaaScore <- MCDaaScore
    Outputs <- MCOutputs
    Inputs <- MCInputs
    Chains <- MCChains
    AtStart <- MCAtStart
    MaxChanges = 6
    MaxReloads = 2
INVARIANTS
    HeadsMatchRows
    LineageFollowsChain
    TrackersFollowChain
    EdgesAreRecorded
    InsertsFindFreeKeys
CHECK_DEADLOCK FALSE
