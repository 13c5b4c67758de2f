CONSTANTS
    c1 = c1
    c2 = c2
    t1 = t1
    t2 = t2
    m1 = m1
    m2 = m2
    Callers = {c1, c2}
    Texts = {t1, t2}
    Models = {m1, m2}
    MaxTexts = 2
SPECIFICATION Spec
SYMMETRY MCSymmetry
INVARIANT VectorsMatch
