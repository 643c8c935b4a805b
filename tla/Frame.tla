-------------------------------- MODULE Frame --------------------------------
(* The 38-byte wire frame of frame.cpp: big-endian fields, two's complement, *)
(* and a CRC-16 over everything before it.  A sender encodes a record, the   *)
(* medium may damage or shorten the frame, and a receiver decodes it into a  *)
(* record that still holds the last frame it accepted.                       *)
EXTENDS Types, Sequences

CONSTANTS Senders,   \* the records a sender may encode
          Damages    \* each one the masks it flips in some of the bytes

VARIABLES sent,      \* the record encoded last
          wire,      \* the bytes of its frame
          damaged,   \* whether wire differs from what encode_frame wrote
          parse,     \* decode_frame's result, "none" before it is called
          out,       \* the caller's Record
          accepted   \* the last record that reached a decode undamaged

frameVars == <<sent, wire, damaged, parse, out, accepted>>

Bytes == 0 .. 255

\* The ranges of the fields' integer types, stated on halves.
FitsUint32(v) == LET high == v \div 65536 IN 0 <= high /\ high <= 65535
FitsInt32(v) == LET high == v \div 65536 IN -32768 <= high /\ high <= 32767
FitsInt64(v) == FitsInt32((v \div 65536) \div 65536)

Fits(r) ==
  /\ FitsUint32(r.sequence) /\ FitsInt64(r.time_ns)
  /\ FitsInt32(r.pos_x) /\ FitsInt32(r.pos_y) /\ FitsInt32(r.vel_x) /\ FitsInt32(r.vel_y)

ASSUME FrameAssumption ==
  /\ kMaxSources <= 65536
  /\ \A r \in Senders : r \in Record /\ Fits(r)
  /\ \A masks \in Damages : \A n \in DOMAIN masks : masks[n] \in Bytes
-------------------------------------------------------------------------------
store_u16(v) == <<(v \div 256) % 256, v % 256>>

store_u32(v) == <<(v \div 16777216) % 256, (v \div 65536) % 256, (v \div 256) % 256, v % 256>>

\* The high word is v >> 32, taken in two halves.
store_u64(v) == store_u32((v \div 65536) \div 65536) \o store_u32(v)

load_u16(b, at) == b[at + 1] * 256 + b[at + 2]

\* Four bytes under the sign or the high word top.
Join(top, b, at) ==
  (((top * 256 + b[at + 1]) * 256 + b[at + 2]) * 256 + b[at + 3]) * 256 + b[at + 4]

load_u32(b, at) == Join(0, b, at)

\* load_u32 and the cast to int32_t.
AsInt32(b, at) == Join(IF b[at + 1] >= 128 THEN -1 ELSE 0, b, at)

\* load_u64 and the cast to int64_t.
AsInt64(b, at) == Join(AsInt32(b, at), b, at + 4)
-------------------------------------------------------------------------------
\* The bits of a 16-bit word, the lowest first.
Weight == <<1, 2, 4, 8, 16, 32, 64, 128, 256, 512, 1024, 2048, 4096, 8192, 16384, 32768>>
Bit(a, n) == (a \div Weight[n]) % 2

\* Exclusive or of two 16-bit words.
Xor(a, b) ==
  LET low[n \in 0 .. 16] ==
        IF n = 0 THEN 0 ELSE low[n - 1] + Weight[n] * ((Bit(a, n) + Bit(b, n)) % 2)
  IN  low[16]

CrcBit[crc \in Nat] ==
  IF crc >= 32768 THEN Xor((2 * crc) % 65536, 4129) ELSE (2 * crc) % 65536

CrcByte[crc \in Nat] ==
  [byte \in Bytes |->
     LET bits[n \in 0 .. 8] == IF n = 0 THEN Xor(crc, byte * 256) ELSE CrcBit[bits[n - 1]]
     IN  bits[8]]

\* Mutant: the checksum starts after the reserved field.
ShortCrc(b, length) ==
  LET crc[n \in 0 .. length] == IF n <= 8 THEN 65535 ELSE CrcByte[crc[n - 1]][b[n]]
  IN  crc[length]

frame_crc(b, length) ==
  LET crc[n \in 0 .. length] == IF n = 0 THEN 65535 ELSE CrcByte[crc[n - 1]][b[n]]
  IN  crc[length]

\* Bytes 0 .. 35 of the frame.
Body(r) ==
  store_u16(kFrameMagic) \o store_u16(kSchemaVersion) \o store_u16(r.source_id)
    \o store_u16(0) \o store_u32(r.sequence) \o store_u64(r.time_ns)
    \o store_u32(r.pos_x) \o store_u32(r.pos_y) \o store_u32(r.vel_x) \o store_u32(r.vel_y)

encode_frame(r) == Body(r) \o store_u16(frame_crc(Body(r), 36))

\* The checks, in the order of their early returns.
Parse(b) ==
  IF Len(b) < kFrameBytes THEN "Truncated"
  ELSE IF load_u16(b, 0) # kFrameMagic THEN "BadMagic"
  ELSE IF load_u16(b, 2) # kSchemaVersion THEN "BadVersion"
  ELSE IF load_u16(b, 4) >= kMaxSources THEN "BadSource"
  ELSE IF load_u16(b, 36) # frame_crc(b, 36) THEN "BadChecksum"
  ELSE "Ok"

Decoded(b) ==
  [source_id |-> load_u16(b, 4), sequence |-> load_u32(b, 8), time_ns |-> AsInt64(b, 12),
   pos_x |-> AsInt32(b, 20), pos_y |-> AsInt32(b, 24),
   vel_x |-> AsInt32(b, 28), vel_y |-> AsInt32(b, 32)]
-------------------------------------------------------------------------------
NoRecord == [source_id |-> 0, sequence |-> 0, time_ns |-> 0,
             pos_x |-> 0, pos_y |-> 0, vel_x |-> 0, vel_y |-> 0]

FrameInit ==
  /\ sent = NoRecord
  /\ wire = <<>>
  /\ damaged = FALSE
  /\ parse = "none"
  /\ out = NoRecord
  /\ accepted = NoRecord

\* encode_frame; it writes nothing for a source id that has no slot.
Encode(r) ==
  /\ parse # "none" \/ wire = <<>>
  /\ r.source_id < kMaxSources
  /\ sent' = r
  /\ wire' = encode_frame(r)
  /\ damaged' = FALSE
  /\ parse' = "none"
  /\ UNCHANGED <<out, accepted>>

\* The medium flips the bits of one damage pattern, or loses the tail.
Damage(masks) ==
  /\ parse = "none" /\ wire # <<>> /\ ~damaged
  /\ wire' = [n \in 1 .. Len(wire) |->
                IF n \in DOMAIN masks THEN Xor(wire[n], masks[n]) ELSE wire[n]]
  /\ damaged' = TRUE
  /\ UNCHANGED <<sent, parse, out, accepted>>

Cut(length) ==
  /\ parse = "none" /\ wire # <<>> /\ ~damaged
  /\ wire' = SubSeq(wire, 1, length)
  /\ damaged' = TRUE
  /\ UNCHANGED <<sent, parse, out, accepted>>

\* decode_frame: only the last return writes the caller's record.
Decode ==
  /\ parse = "none" /\ wire # <<>>
  /\ parse' = Parse(wire)
  /\ out' = IF parse' = "Ok" THEN Decoded(wire) ELSE out
  /\ accepted' = IF damaged THEN accepted ELSE sent
  /\ UNCHANGED <<sent, wire, damaged>>

FrameNext ==
  \/ \E r \in Senders : Encode(r)
  \/ \E masks \in Damages : Damage(masks)
  \/ \E length \in {1, kFrameBytes - 1} : Cut(length)
  \/ Decode

FrameSpec == FrameInit /\ [][FrameNext]_frameVars
-------------------------------------------------------------------------------
FrameTypeOK ==
  /\ sent \in Record /\ out \in Record /\ accepted \in Record
  /\ \A n \in DOMAIN wire : wire[n] \in Bytes
  /\ damaged \in BOOLEAN
  /\ parse \in ParseStatus \cup {"none"}

\* decode_frame accepts a frame exactly when nothing happened to it since
\* encode_frame wrote it, and the caller's record is at all times the last
\* record that arrived whole: damage within the checksum's reach neither gets
\* through nor leaves a half-decoded record behind.
OnlyWholeFrames ==
  /\ parse # "none" => (parse = "Ok") = ~damaged
  /\ parse # "none" => out = accepted
==============================================================================
