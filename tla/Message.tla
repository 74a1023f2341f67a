------------------------------ MODULE Message ------------------------------
(***************************************************************************)
(* The datagrams of the protocol (src/Message.h).  Every message is one    *)
(* record shape, as it is one class in the code: the constructors leave    *)
(* the fields they do not mention alone, and a field nobody reads is 0     *)
(* here.  Two numbers of MessageWork, points and side, are the same in     *)
(* every message of a run of the server and are left out.                  *)
(***************************************************************************)
EXTENDS Naturals

CONSTANTS
  Workers,    \* SIDs (IP address and port) of the worker processes; numbers,
              \* because ConnectionPool iterates in the order of the SIDs
  Segments,   \* ids of the segments that are subproblems
  HitCounts,  \* values of pointsHit a computation may produce
  Garbage     \* values an uninitialised mSequence may be read as

ASSUME WorkersAssumption  == Workers \subseteq Nat \ {0}
ASSUME SegmentsAssumption == Segments \subseteq Nat \ {0}
ASSUME HitsAssumption     == HitCounts \subseteq Nat /\ HitCounts # {}
ASSUME GarbageAssumption  == Garbage \subseteq Nat

MessageType ==
  {"Heartbeat", "HeartbeatACK", "Interrupt", "Hello", "ACK", "Close",
   "Result", "Work", "Invalid"}

Message ==
  [tag : MessageType, seq : Nat, seg : Segments \union {0},
   hits : HitCounts \union {0}]

(* Message(), Message(tag), Message(tag, sequence), and the constructors   *)
(* for MessageResult and MessageWork.                                      *)
InvalidMessage  == [tag |-> "Invalid", seq |-> 0, seg |-> 0, hits |-> 0]
Bare(tag)       == [tag |-> tag, seq |-> 0, seg |-> 0, hits |-> 0]
Numbered(tag, n) == [tag |-> tag, seq |-> n, seg |-> 0, hits |-> 0]
Result(n, s, h) == [tag |-> "Result", seq |-> n, seg |-> s, hits |-> h]
Work(n, s)      == [tag |-> "Work", seq |-> n, seg |-> s, hits |-> 0]

(* The one-argument constructor does not initialise mSequence, and         *)
(* ntohMessage uses it for the tags that carry no number; both             *)
(* handleMessage functions read it all the same.  The value is whatever    *)
(* the build leaves there: 0 with -O0, bits of a stack address with the    *)
(* -O3 of the makefile.                                                    *)
SequenceRead(m) ==
  IF m.tag \in {"Heartbeat", "HeartbeatACK", "Interrupt"} THEN Garbage
                                                          ELSE {m.seq}
=============================================================================
