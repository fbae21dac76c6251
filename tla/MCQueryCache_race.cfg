CONSTANTS
    s1 = s1
    edit = edit
    draft = draft
    redraft = redraft
    fix = fix
    r1 = r1
    r2 = r2
    q1 = q1
    q2 = q2
    g1 = g1
    g2 = g2
    Slugs = {s1}
    Writers = {draft, fix}
    Kind <- KindOf
    MaxFixes = 1
    Readers = {r1}
    Questions = {q1, q2}
    Asks <- AsksOf
    Sweeps = {}
SPECIFICATION CacheSpec
INVARIANTS
    StaleOnceChanged
CHECK_DEADLOCK FALSE
