SPECIFICATION Spec
CONSTANTS
  Tuners = {t1, t2}
  Runners = {r1}
  Casts = {{t1, r1}, {t1, t2}}
  Inodes = {1, 2, 3, 4, 5, 6, 7, 8, 9}
  Events = 1
  Failing = {"flags"}
  None = None
  Unknown = Unknown
INVARIANT TypeOK
PROPERTIES MeasuredWhatItNames RefusedForAReason OnlySuccessReplaces
