\* Two readers, a writer and a flush on one a-node; three ticks of the clock.
SPECIFICATION Spec
CONSTANTS
  Reader = {r1, r2}
  Flusher = {f1}
  AKey = {k1}
  None = None
  MaxTime = 3
INVARIANTS
  TypeOK
  InodesOfLive
  AccessHappened
  NothingDropped
PROPERTY
  TimesAdvance
