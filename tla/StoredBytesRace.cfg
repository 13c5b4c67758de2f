CONSTANTS
    u1 = u1
    u2 = u2
    u3 = u3
    i1 = i1
    i2 = i2
    name = name
    other = other
    fixed = fixed
    nested = nested
    blank = blank
    long = long
    revised = revised
    Uploads = {u1, u2, u3}
    Indexings = {i1}
    Filenames = {name}
    Contents = {blank, long, revised}
    Configs = {fixed, nested}
    Retitles = {FALSE}
    Candidates <- MCCandidates
SPECIFICATION Spec
CHECK_DEADLOCK FALSE
INVARIANT BytesMatch
SYMMETRY MCSymmetry
