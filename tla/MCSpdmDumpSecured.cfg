\* Two interleaved sessions, three sequence numbers per key (0, 1 and the
\* exhausted SEQ_MAX = 2, so that one key carries two records in order and
\* SequenceExhausted is still reached), three requests and one message the
\* responder initiates, one link fault (a record lost, or an earlier record
\* of that direction delivered again), one record the capture misses and one
\* object of mailbox noise.  A requester whose record or answer was lost waits
\* for ever, and the tool stops at the end of the capture, so a final state
\* is not an error.  4.5 M distinct states, about 2 min 15 s with 2 workers.
CONSTANTS
  s1 = s1
  s2 = s2
  Sessions <- MCSessions
  SEQ_MAX = 2
  MaxSent = 3
  MaxNotify = 1
  MaxMissed = 1
  MaxLinkFaults = 1
  MaxNoise = 1
  NoSession = NoSession
SYMMETRY Symmetry
SPECIFICATION Spec
CHECK_DEADLOCK FALSE
INVARIANT DumpTypeOK
 
PROPERTY DumpShowsEachRecordWithItsSender
