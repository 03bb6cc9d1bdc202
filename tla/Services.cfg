CONSTANTS
    w1 = w1
    w2 = w2
    cli = cli
    nobody = nobody
    romShare = romShare
    dataShare = dataShare
    s1 = s1
    s2 = s2
    s3 = s3
    c1 = c1
    c2 = c2
    t1 = t1
    t2 = t2
    k1 = k1
    k2 = k2
    p1 = p1
    p2 = p2
    l1 = l1
    l2 = l2
    none = none
    tornFile = tornFile
    g1 = g1
    g2 = g2
    d1 = d1
    d2 = d2
    r1 = r1
    r2 = r2
    textA = textA
    imgX = imgX
    imgY = imgY
    cue = cue
    trk = trk
    game = game
    folder = folder
    otherData = otherData
    m1 = m1
    m2 = m2
    a1 = a1
    a2 = a2
    gone = gone
    h1 = h1
    h2 = h2
SPECIFICATION Spec
INVARIANTS ServerHonest UpdateSafe
PROPERTIES MountsHonest SessionsHonest LibraryKept ModeShown CatalogTrue RemovalSafe SetupHonest StartupTold ChangesFound RoutesRetired
CHECK_DEADLOCK FALSE
