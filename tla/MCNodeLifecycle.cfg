SPECIFICATION Spec
CONSTANTS r1 = r1
 r2 = r2
 l1 = l1
 l2 = l2
 k1 = k1
 d1 = d1
 d2 = d2
 Configured = {r1}
 Discovered = {r2}
 Loop = {l1, l2}
 Reconnector = {k1}
 Lookup = {d1, d2}
 None = None
SYMMETRY Symmetry
INVARIANTS HeldForRelayOnly NothingRunsUnheld 
PROPERTIES NewestReplaces
CHECK_DEADLOCK FALSE
