SPECIFICATION Spec
CONSTANTS
    p = p
    q = q
    n1 = n1
    n2 = n2
    c1 = c1
    c2 = c2
    v1 = v1
    Requests = {r1, r2, r3}
    Pages = {p, q}
    Conversations = {v1}
    Names = {n1, n2}
    Contents = {c1, c2}
    NoText = NoText
    Nobody = Nobody
    NoPage = NoPage
    Mixes <- MCMixes
    Labels0 <- MCLabels
    Categories0 <- MCCategories
    Replies0 <- MCReplies
    Last0 = 5
SYMMETRY Symmetry
INVARIANTS TypeOK CategoryIsOwnPage CopyIsPrefix PushedIsStored
PROPERTIES CopyStaysInTarget
CHECK_DEADLOCK FALSE
