SPECIFICATION Spec
CONSTANTS b1 = b1
 b2 = b2
 p1 = p1
 p2 = p2
 p3 = p3
 o1 = o1
 o2 = o2
 Backend = {b1, b2}
 Process = {p1, p2, p3}
 Opener = {o1, o2}
 Key = {"selected", "connect"}
 None = None
SYMMETRY Symmetry
INVARIANTS RegistriesAgree ProcessesAreOwned
CHECK_DEADLOCK FALSE
