SPECIFICATION Spec
CONSTANTS
  Tasks = {t1, t2, t3}
  Signals = {s1}
  Priorities = {0, 1}
  Quantum = 1
  MaxNest = 0
  Nesters = {}
  Renicers = {t1, t2, t3}
SYMMETRY TaskSymmetry
INVARIANTS TypeOK ReadyListRight NoLostSignal
