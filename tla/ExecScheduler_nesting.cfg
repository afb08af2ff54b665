SPECIFICATION FairSpec
CONSTANTS
  Tasks = {t1, t2}
  Signals = {s1}
  Priorities = {0, 1}
  Quantum = 1
  MaxNest = 1
  Renicers = {}
  Nesters = {t1}
INVARIANTS PriorityHonoured NestCountsAreMine
PROPERTIES KeepsProcessor TurnComes
