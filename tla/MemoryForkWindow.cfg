CONSTANTS
    t1 = t1
    t2 = t2
    t3 = t3
    p1 = p1
    p2 = p2
    p3 = p3
    s1 = s1
    s2 = s2
    h1 = h1
    h2 = h2
    h3 = h3
    h4 = h4
    v0 = v0
    v1 = v1
    nil = nil
    Thread = {t1, t2, t3}
    Proc = {p1, p2}
    Home <- Threaded
    First = p1
    Seg = {s1}
    Val = {v0, v1}
    Zero = v0
    HPage = {h1, h2, h3}
    Unmapped = nil
    Ops = {"fork"}
SPECIFICATION Spec
PROPERTY FlatSpec
CHECK_DEADLOCK FALSE
