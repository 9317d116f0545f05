-------------------------- MODULE MCEventListeners --------------------------
(* Small instances of EventListeners for TLC. *)
EXTENDS EventListeners

CONSTANTS s1, s2, s3, t1, t2

\* Every stream is opened for the protocol's own type.
OneType == [s \in Streams |-> t1]
\* The method of a custom event is unknown to the protocol.
NoProtocolType == NoNative
\* The first stream is opened for one custom type, the others for another.
TwoTypes == [s \in Streams |-> IF s = s1 THEN t1 ELSE t2]
=============================================================================
