SPECIFICATION Spec
CONSTANTS
  Transport = {x1, x2}
  Task = {t1, t2, t3, t4}
  None = None
  ProbeFirst = TRUE
SYMMETRY Symmetry
INVARIANTS TypeOK NeverStranded
PROPERTY StopIsFinal
