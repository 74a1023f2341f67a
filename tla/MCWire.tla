------------------------------- MODULE MCWire -------------------------------
(***************************************************************************)
(* Wire for TLC: two hosts of different byte orders.  Numbers are those    *)
(* whose bytes all differ, so that every swapped byte shows, and some      *)
(* whose bytes are tags.                                                   *)
(***************************************************************************)
EXTENDS Wire

MCHosts     == {"little", "big"}
MCBigEndian == {"big"}
MCByte      == (0..12) \union {NoMessage, MessageInvalid}

MCUInt32s == {[k \in 0..3 |-> k + 1], [k \in 0..3 |-> 9 - k]}
MCUInt64s == {[k \in 0..7 |-> k + 1], [k \in 0..7 |-> 12 - k]}

MCBuffers == {[k \in 0..Capacity - 1 |-> k % 8], [k \in 0..Capacity - 1 |-> 255],
              [k \in 0..Capacity - 1 |-> 7]}

(* Datagrams of every length up to two bytes above the capacity.           *)
MCStrays ==
  {[size |-> n, byte |-> [a \in 0..n - 1 |-> IF a = 0 THEN t ELSE a % 9]] :
     n \in 0..Capacity + 2, t \in MCByte}
=============================================================================
