\* Two events of the mouse in a frame.
CONSTANTS
    q1 = q1
    q2 = q2
    p1 = p1
    p2 = p2
    None = None
    Squad = {q1, q2}
    Point = {p1, p2}
    EventsPerFrame = 2
SPECIFICATION Spec
SYMMETRY Symmetry
INVARIANTS
    OrdersGoWhereClicked
    LateDropsWereHeld
