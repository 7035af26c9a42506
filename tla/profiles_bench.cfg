SPECIFICATION Spec
CONSTANTS
  Tuners = {t1}
  Runners = {r1}
  Casts = {{t1, r1}}
  Inodes = {1, 2, 3, 4, 5, 6, 7}
  Events = 1
  Failing = {}
  None = None
  Unknown = Unknown
PROPERTY SkipsWithoutBench
