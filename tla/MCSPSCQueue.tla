----------------------------- MODULE MCSPSCQueue -----------------------------
(* SPSCQueue and its observer on a ring of two slots whose indices wrap    *)
(* after four: five pushes take every index past the end of its word.  The *)
(* constructor is asked for every capacity that a word of six bits has;    *)
(* the queue goes on when it got the two slots.                            *)
EXTENDS SPSCQueueObserver
==============================================================================
