CONSTANTS
    t1 = t1
    t2 = t2
    t3 = t3
    q1 = q1
    q2 = q2
    p1 = p1
    p2 = p2
    p3 = p3
    None = None
    Tabs = {t1, t2, t3}
    Panes = {q1, q2}
    Projects = {p1, p2, p3}
    MaxAbsorb = 2
SYMMETRY Ids
SPECIFICATION SessionSpec
INVARIANTS
    SessionSound
PROPERTIES
    ActiveTabFollowsProject
