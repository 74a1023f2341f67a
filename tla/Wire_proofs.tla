----------------------------- MODULE Wire_proofs -----------------------------
(***************************************************************************)
(* Theorems about messages as bytes.                                       *)
(***************************************************************************)
EXTENDS Wire, TLAPS

USE DEF Capacity, Tags, Field

-----------------------------------------------------------------------------
LEMMA SameFunction ==
  ASSUME NEW D, NEW R, NEW u \in [D -> R], NEW v \in [D -> R],
         \A k \in D : u[k] = v[k]
  PROVE  u = v
  OBVIOUS

(* Fields, their places and their types.                                   *)

LEMMA TagCases ==
  ASSUME NEW t \in Tags
  PROVE  /\ t \in 0..2 => FieldsOf(t) = {} /\ ProperMessageSize(t) = 1
         /\ t \in 3..5 => FieldsOf(t) = {"sequence"} /\ ProperMessageSize(t) = 5
         /\ t = 6 => /\ FieldsOf(t) = {"sequence", "points", "segmentID"}
                     /\ ProperMessageSize(t) = 17
         /\ t = 7 => FieldsOf(t) = Field /\ ProperMessageSize(t) = 21
         /\ t \in 0..2 \/ t \in 3..5 \/ t = 6 \/ t = 7
         /\ FieldsOf(t) \subseteq Field /\ ProperMessageSize(t) \in 1..21
  BY DEF FieldsOf, ProperMessageSize

LEMMA Places ==
  /\ Offset["sequence"] = 1 /\ Offset["points"] = 5
  /\ Offset["segmentID"] = 13 /\ Offset["side"] = 17
  /\ Width["sequence"] = 4 /\ Width["points"] = 8
  /\ Width["segmentID"] = 4 /\ Width["side"] = 4
  BY DEF Offset, Width

LEMMA Numbers ==
  /\ \A f \in Field \ {"points"} : Number(f) = [0..3 -> Byte]
  /\ Number("points") = [0..7 -> Byte]
<1>1. ASSUME NEW f \in Field \ {"points"} PROVE Number(f) = [0..3 -> Byte]
  <2>1. Width[f] - 1 = 3
    BY Places
  <2> QED BY <2>1 DEF Number
<1>2. Number("points") = [0..7 -> Byte]
  <2>1. Width["points"] - 1 = 7
    BY Places
  <2> QED BY <2>1 DEF Number
<1> QED BY <1>1, <1>2

(* The fields of a tag lie within the datagram, and apart.                 *)
LEMMA FieldsApart ==
  ASSUME NEW t \in Tags, NEW f \in FieldsOf(t), NEW a \in Nat, Covers(f, a)
  PROVE  /\ a \in 1..ProperMessageSize(t) - 1
         /\ \A g \in FieldsOf(t) : Covers(g, a) => g = f
  BY TagCases, Places DEF Covers

(* ... and leave no gap.                                                   *)
LEMMA NoGap ==
  ASSUME NEW t \in Tags, NEW a \in 1..ProperMessageSize(t) - 1
  PROVE  \E f \in FieldsOf(t) : Covers(f, a)
  BY TagCases, Places DEF Covers

-----------------------------------------------------------------------------
(* In the network every number starts with its most significant byte.      *)

LEMMA StoreHton ==
  ASSUME NEW h, NEW f \in Field, NEW v \in Number(f)
  PROVE  \A k \in 0..Width[f] - 1 :
           Store(h, f, Hton(h, f, v))[k] = v[Width[f] - 1 - k]
<1>1. CASE f = "points"
  <2>1. v \in [0..7 -> Byte] /\ Width[f] = 8
    BY <1>1, Numbers, Places
  <2>2. CASE h \in BigEndian
    BY <1>1, <2>1, <2>2 DEF Store, Hton, Htonll, ByteAt
  <2>3. CASE h \notin BigEndian
    <3>1. Htonll(h, v) = [k \in 0..7 |-> v[7 - k]]
      BY <2>1, <2>3 DEF Htonll, Htonl, Swapped, High, Low
    <3> QED BY <1>1, <2>1, <2>3, <3>1 DEF Store, Hton, ByteAt
  <2> QED BY <2>2, <2>3
<1>2. CASE f # "points"
  <2>1. v \in [0..3 -> Byte] /\ Width[f] = 4
    BY <1>2, Numbers, Places
  <2> QED BY <1>2, <2>1 DEF Store, Hton, Htonl, Swapped, ByteAt
<1> QED BY <1>1, <1>2

LEMMA HtonLoad ==
  ASSUME NEW h, NEW f \in Field, NEW memory \in [0..23 -> Byte]
  PROVE  /\ Hton(h, f, Load(h, f, memory)) \in Number(f)
         /\ \A b \in 0..Width[f] - 1 :
              Hton(h, f, Load(h, f, memory))[b]
                = memory[Offset[f] + (Width[f] - 1 - b)]
<1>1. CASE f = "points"
  <2>1. Width[f] = 8 /\ Offset[f] = 5 /\ Number(f) = [0..7 -> Byte]
    BY <1>1, Places, Numbers
  <2>2. CASE h \in BigEndian
    BY <1>1, <2>1, <2>2 DEF Load, Hton, Htonll, ByteAt
  <2>3. CASE h \notin BigEndian
    <3> DEFINE v == Load(h, f, memory)
    <3>1. v = [b \in 0..7 |-> memory[5 + b]]
      BY <2>1, <2>3 DEF Load, ByteAt
    <3> HIDE DEF v
    <3>2. Htonll(h, v) = [k \in 0..7 |-> v[7 - k]]
      BY <2>3, <3>1 DEF Htonll, Htonl, Swapped, High, Low
    <3>3. Htonll(h, v) = [k \in 0..7 |-> memory[5 + (7 - k)]]
      BY <3>1, <3>2
    <3> QED BY <1>1, <2>1, <3>3 DEF Hton, v
  <2> QED BY <2>2, <2>3
<1>2. CASE f # "points"
  <2>1. Width[f] = 4 /\ Offset[f] \in {1, 13, 17} /\ Number(f) = [0..3 -> Byte]
    BY <1>2, Places, Numbers
  <2> QED BY <1>2, <2>1 DEF Load, Hton, Htonl, Swapped, ByteAt
<1> QED BY <1>1, <1>2

-----------------------------------------------------------------------------
(* What a datagram of a message holds, and what is made of a datagram.     *)

LEMMA MessageFacts ==
  ASSUME NEW m \in Message
  PROVE  /\ m.tag \in Tags
         /\ m = [tag |-> m.tag, fields |-> m.fields]
         /\ m.fields = [f \in FieldsOf(m.tag) |-> m.fields[f]]
         /\ \A f \in FieldsOf(m.tag) : m.fields[f] \in Number(f)
<1>1. PICK t \in Tags :
        m \in [tag : {t},
               fields : {g \in [FieldsOf(t) -> UInt32s \union UInt64s] :
                           \A f \in FieldsOf(t) :
                             g[f] \in IF f = "points" THEN UInt64s ELSE UInt32s}]
  BY DEF Message
<1>2. \A f \in FieldsOf(t) :
        m.fields[f] \in IF f = "points" THEN UInt64s ELSE UInt32s
  BY <1>1
<1>3. \A f \in FieldsOf(t) : m.fields[f] \in Number(f)
  BY <1>2, TagCases, Numbers, WireAssumption
<1> QED BY <1>1, <1>3

WellFormed(m) ==
  m.tag \in Tags /\ \A f \in FieldsOf(m.tag) : m.fields[f] \in Number(f)

(* The bytes of d from 1 on are the fields of m.                           *)
Carries(d, m) ==
  \A f \in FieldsOf(m.tag) : \A a \in Nat : Covers(f, a) =>
    d.byte[a] = m.fields[f][Width[f] - 1 - (a - Offset[f])]

LEMMA DatagramFacts ==
  ASSUME NEW h, NEW m, WellFormed(m), NEW buffer \in Buffers
  PROVE  /\ IsDatagram(Datagram(h, m, buffer))
         /\ Datagram(h, m, buffer).size = ProperMessageSize(m.tag)
         /\ Datagram(h, m, buffer).byte[0] = m.tag
         /\ Carries(Datagram(h, m, buffer), m)
<1> DEFINE size == ProperMessageSize(m.tag)
           d == Datagram(h, m, buffer)
<1>0. m.tag \in Tags /\ \A f \in FieldsOf(m.tag) : m.fields[f] \in Number(f)
  BY DEF WellFormed
<1>1. m.tag \in Tags /\ m.tag \in Byte /\ size \in 1..21
  BY <1>0, TagCases, WireAssumption
<1>2. /\ \A a \in 0..size - 1 : d.byte[a] = HtonMessage(h, m, buffer)[a]
      /\ d.size = size /\ d = [size |-> d.size, byte |-> d.byte]
      /\ d.byte = [a \in 0..size - 1 |-> HtonMessage(h, m, buffer)[a]]
  BY DEF Datagram
<1> HIDE DEF d, size
<1>3. d.byte[0] = m.tag
  <2>1. HtonMessage(h, m, buffer)[0] = m.tag
    BY DEF HtonMessage
  <2> QED BY <1>1, <1>2, <2>1
<1>4. ASSUME NEW f \in FieldsOf(m.tag), NEW a \in Nat, Covers(f, a)
      PROVE  /\ d.byte[a] = m.fields[f][Width[f] - 1 - (a - Offset[f])]
             /\ a \in 1..size - 1
             /\ d.byte[a] \in Byte
  <2>1. a \in 1..size - 1 /\ \A g \in FieldsOf(m.tag) : Covers(g, a) => g = f
    BY <1>1, <1>4, FieldsApart DEF size
  <2>2. (CHOOSE g \in FieldsOf(m.tag) : Covers(g, a)) = f
    BY <1>4, <2>1
  <2>3. HtonMessage(h, m, buffer)[a]
          = Store(h, f, Hton(h, f, m.fields[f]))[a - Offset[f]]
    BY <1>1, <1>4, <2>1, <2>2 DEF HtonMessage
  <2>4. m.fields[f] \in Number(f) /\ f \in Field
    BY <1>0, TagCases
  <2>5. a - Offset[f] \in 0..Width[f] - 1 /\ Width[f] \in {4, 8}
    BY <1>4, <2>4, Places DEF Covers
  <2>6. Store(h, f, Hton(h, f, m.fields[f]))[a - Offset[f]]
          = m.fields[f][Width[f] - 1 - (a - Offset[f])]
    <3>1. PICK v \in Number(f) : v = m.fields[f]
      BY <2>4
    <3>2. PICK k \in 0..Width[f] - 1 : k = a - Offset[f]
      BY <2>5
    <3>3. Store(h, f, Hton(h, f, v))[k] = v[Width[f] - 1 - k]
      BY <2>4, StoreHton
    <3> QED BY <3>1, <3>2, <3>3
  <2>7. Width[f] - 1 - (a - Offset[f]) \in 0..Width[f] - 1
    BY <2>4, <2>5, Places
  <2>8. d.byte[a] = HtonMessage(h, m, buffer)[a]
    BY <1>1, <1>2, <2>1
  <2> QED BY <2>1, <2>3, <2>4, <2>6, <2>7, <2>8 DEF Number
<1>5. ASSUME NEW a \in 0..size - 1 PROVE d.byte[a] \in Byte
  <2>1. CASE a = 0
    BY <1>1, <1>3, <2>1
  <2>2. CASE a # 0
    <3>1. a \in 1..size - 1 /\ a \in Nat
      BY <1>1, <2>2
    <3>2. PICK f \in FieldsOf(m.tag) : Covers(f, a)
      BY <1>1, <3>1, NoGap DEF size
    <3> QED BY <1>4, <3>1, <3>2
  <2> QED BY <2>1, <2>2
<1>6. d.byte \in [0..size - 1 -> Byte]
  BY <1>2, <1>5
<1>7. IsDatagram(d) /\ d.size = size
  <2>1. d.size \in Nat /\ d.byte \in [0..d.size - 1 -> Byte]
    BY <1>1, <1>2, <1>6
  <2> QED BY <1>2, <2>1 DEF IsDatagram
<1>8. Carries(d, m)
  BY <1>4 DEF Carries
<1> QED BY <1>3, <1>7, <1>8 DEF d, size

LEMMA FilledFacts ==
  ASSUME NEW d, IsDatagram(d), NEW buffer \in Buffers
  PROVE  /\ Filled(d, buffer) \in [0..23 -> Byte]
         /\ \A a \in 0..23 :
              a < d.size => Filled(d, buffer)[a] = d.byte[a]
         /\ FilledBytes(d) \in 0..Capacity
         /\ FilledBytes(d) < Capacity => FilledBytes(d) = d.size
         /\ d.size \in Nat /\ FilledBytes(d) <= d.size
<1>0. d.size \in Nat
  BY DEF IsDatagram
<1>1. buffer \in [0..23 -> Byte] /\ d.byte \in [0..d.size - 1 -> Byte]
  BY WireAssumption DEF IsDatagram
<1>2. ASSUME NEW a \in 0..23
      PROVE  /\ Filled(d, buffer)[a] \in Byte
             /\ a < d.size => Filled(d, buffer)[a] = d.byte[a]
  <2>1. CASE a < d.size
    <3>1. a \in 0..d.size - 1
      BY <1>0, <2>1
    <3>2. d.byte[a] \in Byte
      BY <1>1, <3>1
    <3> QED BY <2>1, <3>2 DEF Filled
  <2>2. CASE ~(a < d.size)
    BY <1>1, <2>2 DEF Filled
  <2> QED BY <2>1, <2>2
<1>3. Filled(d, buffer) \in [0..23 -> Byte]
  <2>1. Filled(d, buffer) = [a \in 0..23 |-> Filled(d, buffer)[a]]
    BY DEF Filled
  <2> QED BY <1>2, <2>1
<1>4. /\ FilledBytes(d) \in 0..24 /\ FilledBytes(d) <= d.size
      /\ FilledBytes(d) < 24 => FilledBytes(d) = d.size
  <2>1. PICK n \in Nat : n = d.size
    BY <1>0
  <2>2. FilledBytes(d) = IF n < 24 THEN n ELSE 24
    BY <2>1 DEF FilledBytes
  <2> QED BY <2>1, <2>2
<1>5. Capacity = 24 /\ 24 - 1 = 23
  BY DEF Capacity
<1> QED BY <1>0, <1>2, <1>3, <1>4, <1>5

(* The buffer starts with the bytes of the datagram.                       *)
Holds(memory, d) ==
  \A a \in 0..23 : a < d.size => memory[a] = d.byte[a]

(* Where byte b of a field lies.                                           *)
At(f, b) == Offset[f] + (Width[f] - 1 - b)

(* The bytes of a field are those of the datagram, the last one first.     *)
Reads(t, memory, d, f, b, a) ==
  /\ t \in Tags /\ f \in FieldsOf(t) /\ b \in 0..Width[f] - 1
  /\ memory \in [0..23 -> Byte]
  /\ d.size = ProperMessageSize(t) /\ Holds(memory, d)
  /\ a \in Nat /\ a = At(f, b)

LEMMA FieldRead ==
  ASSUME NEW h, NEW t, NEW memory, NEW d, NEW f, NEW b, NEW a,
         Reads(t, memory, d, f, b, a)
  PROVE  Covers(f, a) /\ Hton(h, f, Load(h, f, memory))[b] = d.byte[a]
<1>0. /\ t \in Tags /\ f \in FieldsOf(t) /\ b \in 0..Width[f] - 1
      /\ memory \in [0..23 -> Byte]
      /\ d.size = ProperMessageSize(t) /\ Holds(memory, d)
      /\ a \in Nat /\ a = At(f, b)
  BY DEF Reads
<1>1. f \in Field
  BY <1>0, TagCases
<1>2. Covers(f, a)
  BY <1>0, <1>1, Places DEF Covers, At
<1>3. a \in 1..ProperMessageSize(t) - 1 /\ ProperMessageSize(t) \in 1..21
  BY <1>0, <1>2, FieldsApart, TagCases
<1>4. a \in 0..23 /\ a < d.size
  BY <1>0, <1>3
<1>5. Hton(h, f, Load(h, f, memory))[b] = memory[a]
  BY <1>0, <1>1, HtonLoad DEF At
<1> QED BY <1>0, <1>2, <1>4, <1>5 DEF Holds

LEMMA Position ==
  ASSUME NEW f \in Field, NEW b \in 0..Width[f] - 1
  PROVE  Offset[f] + (Width[f] - 1 - b) \in Nat
  BY Places

(* What is accepted has its proper size, and is read from the datagram.    *)
ReadFrom(m, d) ==
  /\ m.tag \in Tags /\ m.tag = d.byte[0]
  /\ d.size = ProperMessageSize(m.tag)
  /\ DOMAIN m.fields = FieldsOf(m.tag)
  /\ m = [tag |-> m.tag, fields |-> m.fields]
  /\ m.fields = [f \in FieldsOf(m.tag) |-> m.fields[f]]
  /\ \A f \in FieldsOf(m.tag) :
       /\ m.fields[f] \in Number(f)
       /\ \A b \in 0..Width[f] - 1 :
            m.fields[f][b] = d.byte[Offset[f] + (Width[f] - 1 - b)]

LEMMA ReadFacts ==
  ASSUME NEW h, NEW d, IsDatagram(d), NEW buffer \in Buffers,
         NextMessage(h, d, buffer) # Invalid
  PROVE  ReadFrom(NextMessage(h, d, buffer), d)
<1> DEFINE m == NextMessage(h, d, buffer)
<1> DEFINE memory == Filled(d, buffer)
<1>1. memory \in [0..23 -> Byte]
  BY FilledFacts
<1>2. m = NtohMessage(h, memory) /\ Accepted(m, FilledBytes(d))
  BY DEF NextMessage
<1> HIDE DEF memory, m
<1>3. /\ memory[0] \in Tags /\ m.tag = memory[0]
      /\ m = [tag |-> m.tag, fields |-> m.fields]
      /\ m.fields = [f \in FieldsOf(m.tag) |-> Hton(h, f, Load(h, f, memory))]
  <2>1. m # Invalid
    BY DEF m
  <2> QED BY <1>2, <2>1 DEF NtohMessage
<1>4. FilledBytes(d) = ProperMessageSize(m.tag) /\ ProperMessageSize(m.tag) \in 1..21
  BY <1>2, <1>3, TagCases DEF Accepted
<1>5. d.size = ProperMessageSize(m.tag)
  BY <1>4, FilledFacts
<1>6. m.tag = d.byte[0]
  <2>1. 0 \in 0..23 /\ 0 < d.size
    BY <1>4, <1>5
  <2>2. memory[0] = d.byte[0]
    BY <2>1, FilledFacts DEF memory
  <2> QED BY <1>3, <2>2
<1>7. ASSUME NEW f \in FieldsOf(m.tag)
      PROVE  /\ m.fields[f] \in Number(f)
             /\ \A b \in 0..Width[f] - 1 :
                  m.fields[f][b] = d.byte[Offset[f] + (Width[f] - 1 - b)]
  <2>1. f \in Field
    BY <1>3, TagCases
  <2>2. m.fields[f] = Hton(h, f, Load(h, f, memory))
    BY <1>3
  <2>3. Hton(h, f, Load(h, f, memory)) \in Number(f)
    BY <1>1, <2>1, HtonLoad
  <2>4. ASSUME NEW b \in 0..Width[f] - 1
        PROVE  Hton(h, f, Load(h, f, memory))[b]
                 = d.byte[Offset[f] + (Width[f] - 1 - b)]
    <3>1. PICK a \in Nat : a = Offset[f] + (Width[f] - 1 - b)
      BY <2>1, Position
    <3>2. Holds(memory, d)
      BY FilledFacts DEF memory, Holds
    <3>3. m.tag \in Tags /\ IsDatagram(d) /\ d.size = ProperMessageSize(m.tag)
      BY <1>3, <1>5
    <3>4. memory \in [0..23 -> Byte]
      BY <1>1
    <3>5. Reads(m.tag, memory, d, f, b, a)
      BY <3>1, <3>2, <3>3, <3>4 DEF Reads, At
    <3>6. Hton(h, f, Load(h, f, memory))[b] = d.byte[a]
      BY <3>5, FieldRead
    <3> QED BY <3>1, <3>6
  <2> QED BY <2>2, <2>3, <2>4
<1>8. m.fields = [f \in FieldsOf(m.tag) |-> m.fields[f]]
  BY <1>3
<1>9. ReadFrom(m, d)
  BY <1>3, <1>5, <1>6, <1>7, <1>8 DEF ReadFrom
<1> QED BY <1>9 DEF m

LEMMA RoundTrip ==
  ASSUME NEW h, NEW g, NEW m \in Message, NEW b \in Buffers, NEW c \in Buffers
  PROVE  NextMessage(g, Datagram(h, m, b), c) = m
<1> DEFINE d == Datagram(h, m, b)
           memory == Filled(d, c)
           read == NtohMessage(g, memory)
<1>1. /\ IsDatagram(d) /\ d.size = ProperMessageSize(m.tag) /\ d.byte[0] = m.tag
      /\ m.tag \in Tags /\ ProperMessageSize(m.tag) \in 1..21
  <2>1. m.tag \in Tags
    BY MessageFacts
  <2>2. ProperMessageSize(m.tag) \in 1..21
    BY <2>1, TagCases
  <2>3. IsDatagram(d) /\ d.size = ProperMessageSize(m.tag) /\ d.byte[0] = m.tag
    <3>1. WellFormed(m)
      BY MessageFacts DEF WellFormed
    <3> QED BY <3>1, DatagramFacts, Zenon
  <2> QED BY <2>1, <2>2, <2>3
<1>2. Carries(d, m)
  <2>1. WellFormed(m)
    BY MessageFacts DEF WellFormed
  <2> QED BY <2>1, DatagramFacts, Zenon
<1> HIDE DEF d
<1>3. memory \in [0..23 -> Byte] /\ memory[0] = m.tag
      /\ Holds(memory, d)
  <2>1. memory \in [0..23 -> Byte]
    BY <1>1, FilledFacts
  <2>2. Holds(memory, d)
    BY <1>1, FilledFacts DEF Holds
  <2>3. memory[0] = d.byte[0]
    BY <1>1, <2>2 DEF Holds
  <2> QED BY <1>1, <2>1, <2>2, <2>3
<1>4. FilledBytes(d) = ProperMessageSize(m.tag)
  BY <1>1 DEF FilledBytes
<1> HIDE DEF memory, read
<1>5. /\ read.tag = m.tag
      /\ read = [tag |-> m.tag, fields |-> [f \in FieldsOf(m.tag) |->
                                              Hton(g, f, Load(g, f, memory))]]
  BY <1>1, <1>3 DEF NtohMessage, read
<1>6. ASSUME NEW f \in FieldsOf(m.tag)
      PROVE  Hton(g, f, Load(g, f, memory)) = m.fields[f]
  <2>1. f \in Field /\ m.fields[f] \in Number(f)
    BY <1>1, TagCases, MessageFacts
  <2>2. Hton(g, f, Load(g, f, memory)) \in Number(f)
    BY <1>3, <2>1, HtonLoad
  <2>3. ASSUME NEW k \in 0..Width[f] - 1
        PROVE  Hton(g, f, Load(g, f, memory))[k] = m.fields[f][k]
    <3>1. PICK a \in Nat : a = Offset[f] + (Width[f] - 1 - k)
      BY <2>1, Position
    <3>2. Covers(f, a) /\ Hton(g, f, Load(g, f, memory))[k] = d.byte[a]
      <4>1. Reads(m.tag, memory, d, f, k, a)
        BY <1>1, <1>3, <3>1 DEF Reads, At
      <4>2. Covers(f, a)
        BY <4>1, FieldRead
      <4>3. Hton(g, f, Load(g, f, memory))[k] = d.byte[a]
        BY <4>1, FieldRead
      <4> QED BY <4>2, <4>3
    <3>3. Width[f] - 1 - (a - Offset[f]) = k
      BY <2>1, <3>1, Places
    <3>4. d.byte[a] = m.fields[f][Width[f] - 1 - (a - Offset[f])]
      BY <1>2, <3>2 DEF Carries
    <3> QED BY <3>2, <3>3, <3>4
  <2> DEFINE u == Hton(g, f, Load(g, f, memory))
             v == m.fields[f]
  <2>4. \A k \in 0..Width[f] - 1 : u[k] = v[k]
    BY <2>2, <2>3
  <2>5. u \in [0..Width[f] - 1 -> Byte] /\ v \in [0..Width[f] - 1 -> Byte]
    BY <2>1, <2>2 DEF Number
  <2> HIDE DEF u, v
  <2>6. u = v
    <3> DEFINE D == 0..Width[f] - 1
    <3>1. /\ u \in [D -> Byte] /\ v \in [D -> Byte]
          /\ \A k \in D : u[k] = v[k]
      BY <2>4, <2>5
    <3> HIDE DEF D
    <3> QED BY <3>1, SameFunction
  <2> QED BY <2>6 DEF u, v
<1>7. read = m
  BY <1>5, <1>6, MessageFacts
<1>8. Accepted(read, FilledBytes(d))
  BY <1>1, <1>4, <1>7 DEF Accepted
<1> QED BY <1>7, <1>8 DEF NextMessage, d, memory, read

(* Whether a datagram is accepted does not depend on the buffer.           *)
LEMMA Independent ==
  ASSUME NEW h, NEW d, IsDatagram(d), NEW b \in Buffers, NEW c \in Buffers
  PROVE  NextMessage(h, d, b) = NextMessage(h, d, c)
<1> DEFINE m == NextMessage(h, d, b)
           n == NextMessage(h, d, c)
<1>1. /\ m # Invalid => ReadFrom(m, d)
      /\ n # Invalid => ReadFrom(n, d)
  BY ReadFacts
<1>2. m = Invalid <=> n = Invalid
  <2>1. CASE d.size = 0
    <3>1. m = Invalid /\ n = Invalid
      BY <1>1, <2>1, TagCases DEF ReadFrom
    <3> QED BY <3>1
  <2>2. CASE d.size # 0
    <3>1. Filled(d, b)[0] = Filled(d, c)[0]
      <4>1. 0 \in 0..23 /\ 0 < d.size
        BY <2>2 DEF IsDatagram
      <4> QED BY <4>1, FilledFacts
    <3>2. NtohMessage(h, Filled(d, b)).tag = NtohMessage(h, Filled(d, c)).tag
      BY <3>1 DEF NtohMessage
    <3>3. ASSUME NEW buffer \in Buffers
          PROVE  NextMessage(h, d, buffer) = Invalid
                   <=> \/ NtohMessage(h, Filled(d, buffer)).tag > 7
                       \/ ProperMessageSize(NtohMessage(h, Filled(d, buffer)).tag)
                            # FilledBytes(d)
      <4> DEFINE r == NtohMessage(h, Filled(d, buffer))
      <4>1. r = Invalid \/ r.tag \in Tags
        BY DEF NtohMessage
      <4>2. r = Invalid => r.tag > 7
        BY DEF Invalid, MessageInvalid
      <4>3. r.tag \in Tags => r # Invalid
        BY DEF Invalid, MessageInvalid
      <4> HIDE DEF r
      <4>4. (IF Accepted(r, FilledBytes(d)) THEN r ELSE Invalid) = Invalid
              <=> r.tag > 7 \/ ProperMessageSize(r.tag) # FilledBytes(d)
        BY <4>1, <4>2, <4>3 DEF Accepted
      <4> QED BY <4>4 DEF r, NextMessage
    <3> QED BY <3>2, <3>3
  <2> QED BY <2>1, <2>2
<1> HIDE DEF m, n
<1>3. CASE m # Invalid
  <2>1. /\ m.tag = n.tag /\ m.tag \in Tags
        /\ m = [tag |-> m.tag, fields |-> m.fields]
        /\ n = [tag |-> n.tag, fields |-> n.fields]
        /\ m.fields = [f \in FieldsOf(m.tag) |-> m.fields[f]]
        /\ n.fields = [f \in FieldsOf(m.tag) |-> n.fields[f]]
    BY <1>1, <1>2, <1>3 DEF ReadFrom
  <2>2. ASSUME NEW f \in FieldsOf(m.tag) PROVE m.fields[f] = n.fields[f]
    <3>1. /\ m.fields[f] \in Number(f) /\ n.fields[f] \in Number(f)
          /\ \A k \in 0..Width[f] - 1 : m.fields[f][k] = n.fields[f][k]
      BY <1>1, <1>2, <1>3, <2>1 DEF ReadFrom
    <3> DEFINE D == 0..Width[f] - 1
               u == m.fields[f]
               v == n.fields[f]
    <3>2. /\ u \in [D -> Byte] /\ v \in [D -> Byte]
          /\ \A k \in D : u[k] = v[k]
      BY <3>1 DEF Number
    <3> HIDE DEF D, u, v
    <3>3. u = v
      BY <3>2, SameFunction
    <3> QED BY <3>3 DEF u, v
  <2> QED BY <2>1, <2>2 DEF m, n
<1> QED BY <1>2, <1>3 DEF m, n

(* A datagram that is accepted is the one its message is sent as.          *)
LEMMA Canonical ==
  ASSUME NEW h, NEW d, IsDatagram(d), NEW b \in Buffers, NEW c \in Buffers,
         NextMessage(h, d, b) # Invalid
  PROVE  d = Datagram(h, NextMessage(h, d, b), c)
<1> DEFINE m == NextMessage(h, d, b)
           e == Datagram(h, m, c)
<1>1. ReadFrom(m, d)
  BY ReadFacts
<1> HIDE DEF m
<1>2. WellFormed(m)
  BY <1>1 DEF ReadFrom, WellFormed
<1>3. IsDatagram(e) /\ e.size = ProperMessageSize(m.tag) /\ e.byte[0] = m.tag
      /\ Carries(e, m)
  BY <1>2, DatagramFacts
<1> HIDE DEF e
<1>4. d.size = e.size /\ m.tag \in Tags /\ ProperMessageSize(m.tag) \in 1..21
  BY <1>1, <1>3, TagCases DEF ReadFrom
<1>5. ASSUME NEW a \in 0..ProperMessageSize(m.tag) - 1
      PROVE  d.byte[a] = e.byte[a]
  <2>1. CASE a = 0
    BY <1>1, <1>3, <2>1 DEF ReadFrom
  <2>2. CASE a # 0
    <3>1. a \in 1..ProperMessageSize(m.tag) - 1 /\ a \in Nat
      BY <1>4, <2>2
    <3>2. PICK f \in FieldsOf(m.tag) : Covers(f, a)
      BY <1>4, <3>1, NoGap
    <3>3. f \in Field
      BY <1>4, TagCases
    <3>4. PICK k \in 0..Width[f] - 1 :
             k = Width[f] - 1 - (a - Offset[f]) /\ a = Offset[f] + (Width[f] - 1 - k)
      BY <3>1, <3>2, <3>3, Places DEF Covers
    <3>5. e.byte[a] = m.fields[f][k]
      BY <1>3, <3>1, <3>2, <3>4 DEF Carries
    <3>6. m.fields[f][k] = d.byte[Offset[f] + (Width[f] - 1 - k)]
      BY <1>1 DEF ReadFrom
    <3> QED BY <3>4, <3>5, <3>6
  <2> QED BY <2>1, <2>2
<1>6. d.byte = e.byte
  <2> DEFINE D == 0..ProperMessageSize(m.tag) - 1
  <2>1. d.byte \in [D -> Byte] /\ e.byte \in [D -> Byte]
    BY <1>3, <1>4 DEF IsDatagram
  <2>2. \A a \in D : d.byte[a] = e.byte[a]
    BY <1>5
  <2> HIDE DEF D
  <2> QED BY <2>1, <2>2, SameFunction
<1>7. d = e
  BY <1>3, <1>4, <1>6 DEF IsDatagram
<1> QED BY <1>7 DEF e, m

-----------------------------------------------------------------------------
(* The invariant: what is in flight is a datagram, and is what its message *)
(* was laid out as, on some host and into some buffer.                     *)

FromMessage(d, m) ==
  \E h \in Hosts, buffer \in Buffers : d = Datagram(h, m, buffer)

InFlightOK ==
  inFlight.full =>
    /\ IsDatagram(inFlight.datagram)
    /\ inFlight.to \in Hosts /\ inFlight.from \in Hosts \union {"other"}
    /\ \/ /\ inFlight.from # "other" /\ inFlight.sent \in Message
          /\ FromMessage(inFlight.datagram, inFlight.sent)
       \/ inFlight.from = "other" /\ inFlight.sent = Invalid

ReturnedOK(m) ==
  /\ m.tag \in Tags \union {NoMessage, MessageInvalid}
  /\ DOMAIN m.fields = FieldsOf(m.tag)
  /\ \A f \in FieldsOf(m.tag) : m.fields[f] \in Number(f)

Inv == inFlight.full \in BOOLEAN /\ InFlightOK /\ ReturnedOK(returned)

LEMMA NothingOK == ReturnedOK(Nothing) /\ ReturnedOK(Invalid)
  BY DEF ReturnedOK, Nothing, Invalid, NoMessage, MessageInvalid, FieldsOf

LEMMA NextMessageOK ==
  ASSUME NEW h, NEW d, IsDatagram(d), NEW buffer \in Buffers
  PROVE  ReturnedOK(NextMessage(h, d, buffer))
<1>1. CASE NextMessage(h, d, buffer) = Invalid
  BY <1>1, NothingOK
<1>2. CASE NextMessage(h, d, buffer) # Invalid
  <2> DEFINE m == NextMessage(h, d, buffer)
  <2>1. ReadFrom(m, d)
    BY <1>2, ReadFacts
  <2> HIDE DEF m
  <2>2. ReturnedOK(m)
    BY <2>1 DEF ReadFrom, ReturnedOK
  <2> QED BY <2>2 DEF m
<1> QED BY <1>1, <1>2

LEMMA InitInv == Init => Inv
  BY NothingOK DEF Init, Empty, Inv, InFlightOK

LEMMA NextInv == Inv /\ [Next]_vars => Inv'
<1> SUFFICES ASSUME Inv, [Next]_vars PROVE Inv'
  OBVIOUS
<1>1. ASSUME NEW h \in Hosts, NEW to \in Hosts, NEW m \in Message,
             SendMessage(h, to, m)
      PROVE  Inv'
  <2>1. PICK buffer \in Buffers :
          inFlight' = [full |-> TRUE, from |-> h, to |-> to,
                       datagram |-> Datagram(h, m, buffer), sent |-> m]
    BY <1>1 DEF SendMessage
  <2>2. WellFormed(m)
    BY MessageFacts DEF WellFormed
  <2>3. IsDatagram(Datagram(h, m, buffer))
    BY <2>2, DatagramFacts
  <2>4. FromMessage(Datagram(h, m, buffer), m)
    BY DEF FromMessage
  <2>5. h # "other" /\ returned' = returned
    BY <1>1, WireAssumption DEF SendMessage
  <2> QED BY <2>1, <2>3, <2>4, <2>5 DEF Inv, InFlightOK
<1>2. ASSUME NEW to \in Hosts, NEW d \in Strays, Stray(to, d)
      PROVE  Inv'
  <2>1. IsDatagram(d)
    BY WireAssumption
  <2> QED BY <1>2, <2>1 DEF Stray, Inv, InFlightOK
<1>3. ASSUME ServerReads PROVE Inv'
  <2>1. PICK buffer \in Buffers :
          returned' = NextMessage(inFlight.to, inFlight.datagram, buffer)
    BY <1>3 DEF ServerReads
  <2>2. IsDatagram(inFlight.datagram)
    BY <1>3 DEF ServerReads, Inv, InFlightOK
  <2>3. ReturnedOK(returned')
    BY <2>1, <2>2, NextMessageOK
  <2> QED BY <1>3, <2>3 DEF ServerReads, Empty, Inv, InFlightOK
<1>4. ASSUME NEW server \in Hosts, WorkerReads(server) PROVE Inv'
  <2>1. PICK buffer \in Buffers :
          \/ returned' = NextMessage(inFlight.to, inFlight.datagram, buffer)
          \/ returned' = Invalid
    BY <1>4 DEF WorkerReads
  <2>2. IsDatagram(inFlight.datagram)
    BY <1>4 DEF WorkerReads, Inv, InFlightOK
  <2>3. ReturnedOK(returned')
    BY <2>1, <2>2, NextMessageOK, NothingOK
  <2> QED BY <1>4, <2>3 DEF WorkerReads, Empty, Inv, InFlightOK
<1>5. CASE ReadsNothing
  BY <1>5, NothingOK DEF ReadsNothing, Inv, InFlightOK
<1>6. CASE UNCHANGED vars
  BY <1>6 DEF vars, Inv, InFlightOK
<1> QED BY <1>1, <1>2, <1>3, <1>4, <1>5, <1>6 DEF Next

LEMMA Invariance == Spec => []Inv
<1> QED BY InitInv, NextInv, PTL DEF Spec

(* Every variable keeps its type.                                          *)
THEOREM WireTypeCorrect == Spec => []TypeOK
<1>1. Inv => TypeOK
  BY DEF Inv, InFlightOK, ReturnedOK, TypeOK
<1> QED BY <1>1, Invariance, PTL

(* A message is read as it was sent, between hosts of any byte orders, for *)
(* all numbers and whatever the buffers held.                              *)
THEOREM ReadAsSentCorrect == Spec => []ReadAsSent
<1>1. Inv => ReadAsSent
  <2> SUFFICES ASSUME Inv, inFlight.full, inFlight.from # "other",
                      NEW buffer \in Buffers
               PROVE  NextMessage(inFlight.to, inFlight.datagram, buffer)
                        = inFlight.sent
    BY DEF ReadAsSent
  <2>1. inFlight.sent \in Message
        /\ FromMessage(inFlight.datagram, inFlight.sent)
    BY DEF Inv, InFlightOK
  <2>2. PICK h \in Hosts, b \in Buffers :
          inFlight.datagram = Datagram(h, inFlight.sent, b)
    BY <2>1 DEF FromMessage
  <2> QED BY <2>1, <2>2, RoundTrip
<1> QED BY <1>1, Invariance, PTL

(* What nextMessage() returns depends on the datagram alone.               *)
THEOREM OnlyWhatWasReceivedCorrect == Spec => []OnlyWhatWasReceived
<1>1. Inv => OnlyWhatWasReceived
  BY Independent DEF Inv, InFlightOK, OnlyWhatWasReceived
<1> QED BY <1>1, Invariance, PTL

(* No two datagrams are read as the same message.                          *)
THEOREM OneDatagramCorrect == Spec => []OneDatagramPerMessage
<1>1. Inv => OneDatagramPerMessage
  <2> SUFFICES ASSUME Inv, inFlight.full, NEW b \in Buffers, NEW c \in Buffers,
                      NextMessage(inFlight.to, inFlight.datagram, b).tag \in Tags
               PROVE  inFlight.datagram
                        = Datagram(inFlight.to,
                                   NextMessage(inFlight.to, inFlight.datagram, b), c)
    BY DEF OneDatagramPerMessage
  <2>1. NextMessage(inFlight.to, inFlight.datagram, b) # Invalid
    BY DEF Invalid, MessageInvalid
  <2>2. IsDatagram(inFlight.datagram)
    BY DEF Inv, InFlightOK
  <2> QED BY <2>1, <2>2, Canonical
<1> QED BY <1>1, Invariance, PTL

(* No datagram is read as NoMessage, which would end the loop too early.   *)
THEOREM LoopEndsCorrect == Spec => OnlyNothingEndsTheLoop
<1>1. ASSUME NEW h, NEW d, IsDatagram(d), NEW buffer \in Buffers
      PROVE  NextMessage(h, d, buffer).tag # NoMessage
  <2>1. CASE NextMessage(h, d, buffer) = Invalid
    BY <2>1 DEF Invalid, MessageInvalid, NoMessage
  <2>2. CASE NextMessage(h, d, buffer) # Invalid
    <3> DEFINE m == NextMessage(h, d, buffer)
    <3>1. ReadFrom(m, d)
      BY <1>1, <2>2, ReadFacts
    <3> HIDE DEF m
    <3>2. m.tag \in Tags
      BY <3>1 DEF ReadFrom
    <3>3. m.tag # NoMessage
      BY <3>2 DEF NoMessage
    <3> QED BY <3>3 DEF m
  <2> QED BY <2>1, <2>2
<1>2. Inv /\ [Next]_vars
        => [inFlight.full /\ ~inFlight'.full => returned'.tag # NoMessage]_vars
  <2> SUFFICES ASSUME Inv, Next, inFlight.full, ~inFlight'.full
               PROVE  returned'.tag # NoMessage
    BY DEF vars
  <2>1. IsDatagram(inFlight.datagram)
    BY DEF Inv, InFlightOK
  <2>2. Invalid.tag # NoMessage
    BY DEF Invalid, MessageInvalid, NoMessage
  <2>3. CASE ServerReads
    BY <1>1, <2>1, <2>3 DEF ServerReads
  <2>4. ASSUME NEW server \in Hosts, WorkerReads(server)
        PROVE  returned'.tag # NoMessage
    <3>1. PICK buffer \in Buffers :
            \/ returned' = NextMessage(inFlight.to, inFlight.datagram, buffer)
            \/ returned' = Invalid
      BY <2>4 DEF WorkerReads
    <3> QED BY <1>1, <2>1, <2>2, <3>1
  <2> QED BY <2>3, <2>4 DEF Next, SendMessage, Stray, ReadsNothing
<1> QED BY <1>2, Invariance, PTL DEF Spec, OnlyNothingEndsTheLoop
==============================================================================
