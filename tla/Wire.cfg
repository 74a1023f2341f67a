SPECIFICATION Spec
CONSTANTS
  Hosts <- MCHosts
  BigEndian <- MCBigEndian
  Byte <- MCByte
  UInt32s <- MCUInt32s
  UInt64s <- MCUInt64s
  Buffers <- MCBuffers
  Strays <- MCStrays
INVARIANTS TypeOK ReadAsSent OnlyWhatWasReceived OneDatagramPerMessage
PROPERTIES OnlyNothingEndsTheLoop
