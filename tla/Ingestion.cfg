CONSTANTS
    u1 = u1
    u2 = u2
    u3 = u3
    i1 = i1
    i2 = i2
    name = name
    other = other
    fixed = fixed
    nested = nested
    blank = blank
    long = long
    revised = revised
    Uploads = {u1, u2, u3}
    Indexings = {i1, i2}
    Filenames = {name, other}
    Contents = {blank, long, revised}
    Configs = {fixed, nested}
    Retitles = {TRUE, FALSE}
    Candidates <- MCCandidates
SPECIFICATION MCSpec
CHECK_DEADLOCK FALSE
INVARIANTS HistoryContiguous DoneMeansStored ChecksumsAreCurrent IndexedIsComplete StoredBytesMatch ChunksMatchVersion
PROPERTIES ImplementsHistory EveryRequestSettles
