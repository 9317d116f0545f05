\* Two streams of a protocol event, either dropped at any time, a target that may be
\* destroyed, and the fairness of the Handler's loop and of the readers' tasks.
SPECIFICATION FairSpec
CONSTANTS
  s1 = s1
  s2 = s2
  s3 = s3
  t1 = t1
  t2 = t2
  Streams = {s1, s2}
  Types = {t1}
  TypeOf <- OneType
  Native = t1
  MayDestroy = TRUE
  MaxEvents = 3
INVARIANTS
  TypeOK
  EachPolledOnce
PROPERTIES
  ImplementsEventLog
  OwnEventsArrive
  DroppedAreForgotten
  StreamsEndWithTarget
