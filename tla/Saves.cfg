CONSTANTS
    c1 = c1
    c2 = c2
    cli = cli
    d1 = d1
    d2 = d2
    dataShare = dataShare
    g1 = g1
    g2 = g2
    k1 = k1
    l1 = l1
    l2 = l2
    m1 = m1
    m2 = m2
    nobody = nobody
    none = none
    p1 = p1
    romShare = romShare
    s1 = s1
    s2 = s2
    t1 = t1
    w1 = w1
SPECIFICATION FairSpec
PROPERTIES ConflictsKept CardsKept WorkEnds
CHECK_DEADLOCK FALSE
