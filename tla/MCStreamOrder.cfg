CONSTANTS
    a1 = a1
    NoInsert = NoInsert
    Alerts = {a1}
    Feedbacks <- MCFeedbacks
    c1 = c1
    c2 = c2
    p1 = p1
    p2 = p2
    Layouts <- MCLayouts
    Conns = {c1, c2}
    Procs = {p1, p2}
    MaxFeedback = 1
    MaxFailures = 0
SPECIFICATION StreamSpec
PROPERTIES
    NeverReordered
