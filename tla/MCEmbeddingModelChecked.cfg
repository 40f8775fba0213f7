SPECIFICATION Spec
CONSTANTS
  Task = {t1, t2}
INVARIANT OnlyCheckedModelUsed
