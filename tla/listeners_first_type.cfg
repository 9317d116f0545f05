\* Streams of two custom types for one method: whose type is used?
SPECIFICATION Spec
CONSTANTS
  s1 = s1
  s2 = s2
  s3 = s3
  t1 = t1
  t2 = t2
  Streams = {s1, s2, s3}
  Types = {t1, t2}
  TypeOf <- TwoTypes
  Native <- NoProtocolType
  MayDestroy = FALSE
  MaxEvents = 1
PROPERTIES
  FirstRegisteredConverts
