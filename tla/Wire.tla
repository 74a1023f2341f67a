-------------------------------- MODULE Wire --------------------------------
(***************************************************************************)
(* Messages as bytes (src/SocketBase.cpp, src/SocketActive.cpp): how       *)
(* sendMessage() lays a message out in a datagram and what nextMessage()   *)
(* makes of a datagram, on hosts of either byte order.  A number is the    *)
(* function of its bytes, byte 0 is the least significant one.             *)
(***************************************************************************)
EXTENDS Naturals

CONSTANTS
  Hosts,        \* the hosts our processes run on
  BigEndian,    \* those that keep the most significant byte first
  Byte,         \* values of a byte
  UInt32s, UInt64s,   \* numbers the fields of a message take
  Buffers,      \* contents of the stack where char buffer[24] comes to lie
  Strays        \* datagrams other programs send to our ports

NoMessage      == 254
MessageInvalid == 255

Field == {"sequence", "points", "segmentID", "side"}

Offset == [sequence |-> 1, points |-> 5, segmentID |-> 13, side |-> 17]
Width  == [sequence |-> 4, points |-> 8, segmentID |-> 4, side |-> 4]

Capacity == 24   \* of both buffers, and sizeof(Message)

Tags == 0..7     \* MessageHeartbeat = 0 .. MessageWork = 7

(* The fields of a message with a tag; the constructors leave the others   *)
(* uninitialised.                                                          *)
FieldsOf(tag) ==
  IF tag \notin 3..7 THEN {}
  ELSE IF tag \in 3..5 THEN {"sequence"}
  ELSE IF tag = 6 THEN {"sequence", "points", "segmentID"} ELSE Field

ProperMessageSize(tag) ==
  IF tag \in 0..2 THEN 1 ELSE IF tag \in 3..5 THEN 5
  ELSE IF tag = 6 THEN 17 ELSE 21

Number(f) == [0..Width[f] - 1 -> Byte]

IsDatagram(d) ==
  /\ d = [size |-> d.size, byte |-> d.byte]
  /\ d.size \in Nat /\ d.byte \in [0..d.size - 1 -> Byte]

ASSUME WireAssumption ==
  /\ Byte \subseteq 0..255 /\ Tags \union {NoMessage, MessageInvalid} \subseteq Byte
  /\ BigEndian \subseteq Hosts /\ "other" \notin Hosts
  /\ UInt32s \subseteq [0..3 -> Byte] /\ UInt64s \subseteq [0..7 -> Byte]
  /\ Buffers \subseteq [0..Capacity - 1 -> Byte] /\ Buffers # {}
  /\ \A d \in Strays : IsDatagram(d)

-----------------------------------------------------------------------------
(* htonl and ntohl, and the macros htonll and ntohll made of them.         *)
Swapped(v) == [k \in 0..3 |-> v[3 - k]]
Low(v)     == [k \in 0..3 |-> v[k]]
High(v)    == [k \in 0..3 |-> v[k + 4]]

Htonl(h, v) == IF h \in BigEndian THEN v ELSE Swapped(v)

HtonllByWord(h, v) ==   \* mutant: the words stay where they are
  IF h \in BigEndian THEN v
  ELSE [k \in 0..7 |-> IF k < 4 THEN Htonl(h, Low(v))[k]
                                ELSE Htonl(h, High(v))[k - 4]]
Htonll(h, v) ==
  IF h \in BigEndian THEN v
  ELSE [k \in 0..7 |-> IF k < 4 THEN Htonl(h, High(v))[k]
                                ELSE Htonl(h, Low(v))[k - 4]]

Hton(h, f, v) == IF f = "points" THEN Htonll(h, v) ELSE Htonl(h, v)

(* The byte of a number that its k-th address holds.                       *)
ByteAt(h, f, k) == IF h \in BigEndian THEN Width[f] - 1 - k ELSE k

Store(h, f, v) == [k \in 0..Width[f] - 1 |-> v[ByteAt(h, f, k)]]

Load(h, f, memory) ==
  [b \in 0..Width[f] - 1 |-> memory[Offset[f] + ByteAt(h, f, b)]]

-----------------------------------------------------------------------------
Covers(f, a) == a \in Offset[f]..Offset[f] + Width[f] - 1

(* htonMessage: the tag and the fields go into the buffer, which keeps the *)
(* rest of what was there.                                                 *)
HtonMessage(h, m, buffer) ==
  [a \in 0..Capacity - 1 |->
     IF a = 0 THEN m.tag
     ELSE IF \E f \in FieldsOf(m.tag) : Covers(f, a)
     THEN LET f == CHOOSE f \in FieldsOf(m.tag) : Covers(f, a)
          IN  Store(h, f, Hton(h, f, m.fields[f]))[a - Offset[f]]
     ELSE buffer[a]]

(* What sendMessage() hands to sendto().                                   *)
Datagram(h, m, buffer) ==
  [size |-> ProperMessageSize(m.tag),
   byte |-> [a \in 0..ProperMessageSize(m.tag) - 1 |->
               HtonMessage(h, m, buffer)[a]]]

(* recvfrom() fills the buffer up to its capacity, and cuts a longer       *)
(* datagram off; it returns how many bytes it filled.                      *)
Filled(d, buffer) ==
  [a \in 0..Capacity - 1 |-> IF a < d.size THEN d.byte[a] ELSE buffer[a]]

FilledBytes(d) == IF d.size < Capacity THEN d.size ELSE Capacity

Invalid == [tag |-> MessageInvalid, fields |-> <<>>]
Nothing == [tag |-> NoMessage, fields |-> <<>>]

NtohWithoutSide(h, memory) ==   \* mutant: MessageWork is read as a result
  IF memory[0] \notin Tags THEN Invalid
  ELSE [tag    |-> memory[0],
        fields |-> [f \in FieldsOf(memory[0]) \ {"side"} |->
                      Hton(h, f, Load(h, f, memory))]]

NtohMessage(h, memory) ==
  IF memory[0] \notin Tags THEN Invalid
  ELSE [tag    |-> memory[0],
        fields |-> [f \in FieldsOf(memory[0]) |-> Hton(h, f, Load(h, f, memory))]]

AcceptedIfShort(m, n) == m.tag \in Tags /\ n <= ProperMessageSize(m.tag) \* mutant
AcceptedIfLong(m, n)  == m.tag \in Tags /\ n >= ProperMessageSize(m.tag) \* mutant
Accepted(m, n)        == ~(m.tag > 7 \/ ProperMessageSize(m.tag) # n)

NextMessageOrNothing(h, d, buffer) ==   \* mutant: a bad datagram is none
  LET m == NtohMessage(h, Filled(d, buffer))
  IN  IF Accepted(m, FilledBytes(d)) THEN m ELSE Nothing

(* nextMessage(), when a datagram is there.                                *)
NextMessage(h, d, buffer) ==
  LET m == NtohMessage(h, Filled(d, buffer))
  IN  IF Accepted(m, FilledBytes(d)) THEN m ELSE Invalid

-----------------------------------------------------------------------------
Message ==
  UNION {[tag : {t},
          fields : {g \in [FieldsOf(t) -> UInt32s \union UInt64s] :
                      \A f \in FieldsOf(t) :
                        g[f] \in IF f = "points" THEN UInt64s ELSE UInt32s}] :
         t \in Tags}

VARIABLES
  inFlight,   \* the datagram that is under way or buffered, or none
  returned    \* what the last call of nextMessage() or next() returned

vars == <<inFlight, returned>>

Empty == [full |-> FALSE]

Init == inFlight = Empty /\ returned = Nothing

(* One of our processes sends a message; sent remembers which.             *)
SendMessage(h, to, m) ==
  /\ ~inFlight.full
  /\ \E buffer \in Buffers :
       inFlight' = [full |-> TRUE, from |-> h, to |-> to,
                    datagram |-> Datagram(h, m, buffer), sent |-> m]
  /\ UNCHANGED returned

(* Some other program sends to one of our ports.                           *)
Stray(to, d) ==
  /\ ~inFlight.full
  /\ inFlight' = [full |-> TRUE, from |-> "other", to |-> to,
                  datagram |-> d, sent |-> Invalid]
  /\ UNCHANGED returned

(* The server takes a message from anyone.                                 *)
ServerReads ==
  /\ inFlight.full
  /\ \E buffer \in Buffers :
       returned' = NextMessage(inFlight.to, inFlight.datagram, buffer)
  /\ inFlight' = Empty

(* SocketActive::next() of a worker: only its server's messages.           *)
WorkerReads(server) ==
  /\ inFlight.full
  /\ \E buffer \in Buffers :
       LET m == NextMessage(inFlight.to, inFlight.datagram, buffer)
       IN  returned' = IF inFlight.from = server THEN m ELSE Invalid
  /\ inFlight' = Empty

ReadsNothing ==
  /\ ~inFlight.full
  /\ returned' = Nothing
  /\ UNCHANGED inFlight

Next ==
  \/ \E h, to \in Hosts, m \in Message : SendMessage(h, to, m)
  \/ \E to \in Hosts, d \in Strays : Stray(to, d)
  \/ ServerReads
  \/ \E server \in Hosts : WorkerReads(server)
  \/ ReadsNothing

Spec == Init /\ [][Next]_vars

-----------------------------------------------------------------------------
TypeOK ==
  /\ inFlight.full \in BOOLEAN
  /\ inFlight.full =>
       /\ inFlight.from \in Hosts \union {"other"} /\ inFlight.to \in Hosts
       /\ inFlight.sent \in Message \union {Invalid}
       /\ IsDatagram(inFlight.datagram)
  /\ returned.tag \in Tags \union {NoMessage, MessageInvalid}
  /\ DOMAIN returned.fields = FieldsOf(returned.tag)
  /\ \A f \in FieldsOf(returned.tag) : returned.fields[f] \in Number(f)

(* ReadAsSent: a message one of our processes sends is read by the others  *)
(* with the tag and the numbers it was sent with, whatever the byte orders *)
(* of the two hosts and whatever was in either buffer before.              *)
ReadAsSent ==
  inFlight.full /\ inFlight.from # "other" =>
    \A buffer \in Buffers :
      NextMessage(inFlight.to, inFlight.datagram, buffer) = inFlight.sent

(* OnlyWhatWasReceived: what nextMessage() returns depends on the datagram *)
(* alone; ntohMessage() reads the fields before the length is compared, so *)
(* bytes of an earlier datagram may be read, but are never returned.       *)
OnlyWhatWasReceived ==
  inFlight.full =>
    \A b, c \in Buffers :
      NextMessage(inFlight.to, inFlight.datagram, b)
        = NextMessage(inFlight.to, inFlight.datagram, c)

(* OneDatagramPerMessage: whoever sent it, a datagram that is read as a    *)
(* message is the one sendMessage() makes of that message: nothing of it   *)
(* is ignored, so no two datagrams are read alike.                         *)
OneDatagramPerMessage ==
  inFlight.full =>
    \A b, c \in Buffers :
      LET m == NextMessage(inFlight.to, inFlight.datagram, b)
      IN  m.tag \in Tags =>
            inFlight.datagram = Datagram(inFlight.to, m, c)

(* OnlyNothingEndsTheLoop: no datagram is read as NoMessage.  That tag     *)
(* ends the loop which empties the socket, and no further SIGIO tells of   *)
(* what is left there.                                                     *)
OnlyNothingEndsTheLoop ==
  [][inFlight.full /\ ~inFlight'.full => returned'.tag # NoMessage]_vars
=============================================================================
