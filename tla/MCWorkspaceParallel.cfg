SPECIFICATION MCSpec
CONSTANTS
    t1 = t1
    t2 = t2
    t3 = t3
    k1 = k1
    k2 = k2
    i1 = i1
    i2 = i2
    Threads <- MCThreads
    Keys <- MCKeys
    Entries <- MCEntries
    MaxElems = 1
    Accessors = {t1, t2}
    Images <- MCImages
    Parts = {"depth_map", "bitmap"}
    BytesOf <- MCBytesOf
    MaxBytes = 3
    Generations <- MCGenerations
INVARIANTS ResultAlive
