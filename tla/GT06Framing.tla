----------------------------- MODULE GT06Framing -----------------------------
(***************************************************************************)
(* From bytes to GT06 frames: TCP hands a connection of the gateway its    *)
(* bytes in pieces cut anywhere, the first two choose the protocol         *)
(* (protocols/detector.py), and extract_frames (protocols/gt06/codec.py)   *)
(* takes the complete frames out of what is buffered.                      *)
(***************************************************************************)
EXTENDS GT06Frames

CONSTANTS
  Streams,  \* what a device may send: sequences of segments, each some bytes
  MaxRead   \* read_buffer_size: the bytes of one read

(* What the constants may be: any streams of bytes.                          *)
ByteStreams ==
  /\ \A s \in Streams : s \in Seq(Seq(0..255))
  /\ MaxRead \in Nat \ {0}

VARIABLES
  stream,   \* the segments this device sends
  read,     \* how many of their bytes have been read
  protocol, \* "none" until it is detected
  buffer,   \* bytes read and not yet consumed
  frames    \* the frames extracted so far

vars == <<stream, read, protocol, buffer, frames>>

Wire == FlattenSeq(stream)

Init ==
  /\ stream \in Streams
  /\ read = 0
  /\ protocol = "none"
  /\ buffer = <<>>
  /\ frames = <<>>

(* ProtocolDetector.detect: the first bytes, when there are two.             *)
Detected(bytes) ==
  IF \E p \in DOMAIN MarkerOf : IsPrefix(MarkerOf[p], bytes)
  THEN CHOOSE p \in DOMAIN MarkerOf : IsPrefix(MarkerOf[p], bytes)
  ELSE "unknown"

(* One read of n bytes: detection first; a GT06 connection then extracts.    *)
(* Any other goes to the learning mode, with the bytes read so far.          *)
Read(n) ==
  LET bytes == buffer \o SubSeq(Wire, read + 1, read + n)
      proto == IF protocol # "none" THEN protocol
               ELSE IF Len(bytes) < 2 THEN "none" ELSE Detected(bytes)
  IN
  /\ protocol # "unknown"
  /\ read + n <= Len(Wire)
  /\ read' = read + n
  /\ protocol' = proto
  /\ IF proto \in DOMAIN MarkerOf
     THEN LET x == ExtractFrames(bytes, {MarkerOf[proto]}) IN
          /\ buffer' = x.rest
          /\ frames' = frames \o x.frames
     ELSE buffer' = bytes /\ UNCHANGED frames
  /\ UNCHANGED stream

Next == \E n \in 1..MaxRead : Read(n)

Spec == Init /\ [][Next]_vars
-----------------------------------------------------------------------------
(* The state is what the variables say it is.                                *)
TypeOK ==
  /\ stream \in Streams
  /\ read \in 0..Len(Wire)
  /\ protocol \in DOMAIN MarkerOf \cup {"none", "unknown"}
  /\ IsSuffix(buffer, SubSeq(Wire, 1, read))

(* The frames found and the bytes kept are those one read of everything      *)
(* would give: it does not matter where TCP cuts the stream.                 *)
CutsDoNotMatter ==
  protocol \in DOMAIN MarkerOf =>
    [frames |-> frames, rest |-> buffer]
      = ExtractFrames(SubSeq(Wire, 1, read), {MarkerOf[protocol]})

WellFormed(segment, marker) ==
  /\ IsPrefix(marker, segment)
  /\ Len(segment) > 1 + LengthSize(marker)
  /\ Len(segment) - LengthField(segment, 1, marker) = 4 + LengthSize(marker)
  /\ IsSuffix(Stop, segment)

Harmless(segment, marker) == marker[1] \notin {segment[i] : i \in DOMAIN segment}

(* Between bytes that cannot be taken for a marker, every well-formed frame  *)
(* comes out once, in order, as soon as it is complete, whatever its payload *)
(* looks like (test_protocol and the replay tool send such streams).         *)
FramesArrive ==
  protocol \in DOMAIN MarkerOf =>
    LET marker == MarkerOf[protocol]
        complete == {k \in 0..Len(stream) : Len(FlattenSeq(SubSeq(stream, 1, k))) <= read}
    IN (\A i \in DOMAIN stream : WellFormed(stream[i], marker) \/ Harmless(stream[i], marker))
         => frames = FlattenSeq([i \in 1..Max(complete) |->
                       IF WellFormed(stream[i], marker) THEN <<stream[i]>> ELSE <<>>])
=============================================================================
