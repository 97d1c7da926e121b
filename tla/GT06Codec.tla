------------------------------ MODULE GT06Codec ------------------------------
(***************************************************************************)
(* The GT06 codec of the gateway (protocols/gt06/codec.py, crc.py,         *)
(* utils.py): a packet and the bytes of its frame, both ways, and the      *)
(* fields of the payloads. A packet is its protocol number, its payload    *)
(* and its serial number; numbers are sent with the high byte first.       *)
(***************************************************************************)
EXTENDS GT06Frames, Bitwise

Bytes2(n) == <<n \div 256, n % 256>>
Bytes4(n) == Bytes2(n \div 65536) \o Bytes2(n % 65536)
Number(bytes) == FoldLeft(LAMBDA n, b : 256 * n + b, 0, bytes)

(* crc16_x25: the bits of each byte, one after the other.                    *)
Crc(bytes) ==
  LET Bits[k \in 0..8, crc \in 0..65535] ==
        IF k = 0 THEN crc
        ELSE Bits[k - 1, IF crc % 2 = 1 THEN (crc \div 2) ^^ 33800 ELSE crc \div 2]
      Byte[crc \in 0..65535, byte \in 0..255] == Bits[8, crc ^^ byte]
      After[n \in 0..Len(bytes)] ==
        IF n = 0 THEN 65535 ELSE Byte[After[n - 1], bytes[n]]
  IN 65535 - After[Len(bytes)]

(* encode_packet, and encode_ack, whose content is no longer than this.      *)
Encode(marker, p) ==
  LET content == <<p.number>> \o p.payload \o Bytes2(p.serial)
      length  == Len(content) + 2
      body    == (IF LengthSize(marker) = 1 THEN <<length>> ELSE Bytes2(length)) \o content
  IN marker \o body \o Bytes2(Crc(body)) \o Stop

Ack(marker, p) == Encode(marker, [p EXCEPT !.payload = <<>>])

(* try_decode: NoPacket for a frame that is too short, is of another marker, *)
(* does not end in the stop bytes, is cut, or has another checksum.          *)
NoPacket == [number |-> 0, payload |-> <<>>, serial |-> 0]

ChecksumFitsAny(raw, dataEnd) == Len(raw) >= dataEnd + 2
ChecksumFits(raw, dataEnd) ==
  Crc(SubSeq(raw, 3, dataEnd)) = Number(SubSeq(raw, dataEnd + 1, dataEnd + 2))

Decode(marker, raw) ==
  LET start      == 2 + LengthSize(marker)
      dataEnd    == start + LengthField(raw, 1, marker) - 2
      payloadEnd == dataEnd - 2
  IN IF /\ Len(raw) >= 10
        /\ IsPrefix(marker, raw) /\ IsSuffix(Stop, raw)
        /\ dataEnd + 4 <= Len(raw)
        /\ ChecksumFits(raw, dataEnd)
     THEN [number  |-> raw[start + 1],
           payload |-> SubSeq(raw, start + 2, payloadEnd),
           serial  |-> Number(SubSeq(raw, payloadEnd + 1, dataEnd))]
     ELSE NoPacket

-----------------------------------------------------------------------------
(* The IMEI of a login: sixteen digits in eight bytes. What decoding strips  *)
(* are the zeros the encoder filled up with, and those the IMEI begins with. *)
ImeiToBcd(imei) ==
  LET digits == [i \in 1..(16 - Len(imei)) |-> 0] \o imei
  IN [i \in 1..8 |-> 16 * digits[2 * i - 1] + digits[2 * i]]

StripZeros(digits) ==
  LET zeros == {k \in 0..Len(digits) : \A i \in 1..k : digits[i] = 0}
  IN SubSeq(digits, Max(zeros) + 1, Len(digits))

BcdToImei(bcd) ==
  StripZeros(FlattenSeq([i \in DOMAIN bcd |-> <<bcd[i] \div 16, bcd[i] % 16>>]))

(* A fix: date and satellites are left out; coordinates are in 1/1 800 000   *)
(* of a degree, and the hemisphere and the course share two bytes.           *)
Degree == 1800000
North == 1024
West  == 2048
CourseMask == 1023
Positioned == 4096

CourseStatus(fix) ==
  fix.course + Positioned + (IF fix.lat >= 0 THEN North ELSE 0)
             + (IF fix.lon < 0 THEN West ELSE 0)

Magnitude(x) == IF x < 0 THEN -x ELSE x

EncodeFix(fix) ==
  [i \in 1..7 |-> 0] \o Bytes4(Magnitude(fix.lat)) \o Bytes4(Magnitude(fix.lon))
    \o <<Min({fix.speed, 255})>> \o Bytes2(CourseStatus(fix))

(* decode_gps_coordinates, _speed, _course: a place that is on no map is     *)
(* left out, the speed and the course that come with it are not.             *)
CourseOf(status) == status & CourseMask

DecodeFix(payload) ==
  LET status == Number(SubSeq(payload, 17, 18))
      lat    == Number(SubSeq(payload, 8, 11))
      lon    == Number(SubSeq(payload, 12, 15))
  IN [place  |-> IF lat <= 90 * Degree /\ lon <= 180 * Degree
                 THEN <<IF status & North = 0 THEN -lat ELSE lat,
                        IF status & West = 0 THEN lon ELSE -lon>>
                 ELSE <<>>,
      speed  |-> payload[16],
      course |-> CourseOf(status)]
=============================================================================
