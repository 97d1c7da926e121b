------------------------------ MODULE GT06Frames ------------------------------
(***************************************************************************)
(* extract_frames of the gateway (protocols/gt06/codec.py): the complete   *)
(* GT06 frames in a buffer, and the bytes to keep for the next read.       *)
(***************************************************************************)
EXTENDS Integers, Sequences, SequencesExt, FiniteSetsExt

Classic == <<120, 120>>
Long    == <<121, 121>>
Stop    == <<13, 10>>

MarkerOf == [gt06 |-> Classic, gt06_v2 |-> Long]

LengthSize(marker) == IF marker = Classic THEN 1 ELSE 2

LengthField(buf, s, marker) ==
  IF LengthSize(marker) = 1 THEN buf[s + 2] ELSE 256 * buf[s + 2] + buf[s + 3]

(* The size of the frame that starts at s: marker, length, what the length   *)
(* counts, stop bytes; the first form takes every length field for one byte. *)
TotalSizeClassic(buf, s, marker) == LengthField(buf, s, marker) + 5
TotalSize(buf, s, marker) == 2 + LengthSize(marker) + LengthField(buf, s, marker) + 2

(* What is kept when no marker is found from offset o: everything, for the   *)
(* marker may be cut; the first form loses the last byte.                    *)
KeptShort(buf, o) == SubSeq(buf, o, Len(buf) - 1)
Kept(buf, o) == SubSeq(buf, o, Len(buf))

(* extract_frames, for frames that start with one of the markers: after a    *)
(* frame, on with what follows; after a frame that does not end in the stop  *)
(* bytes, on behind its marker; the rest is kept when no marker follows or   *)
(* the frame is not complete.                                                *)
ExtractFrames(buf, markers) ==
  LET From[o \in 1..(Len(buf) + 1)] ==
        LET starts == {i \in o..(Len(buf) - 1) : SubSeq(buf, i, i + 1) \in markers}
            s      == Min(starts)
            marker == SubSeq(buf, s, s + 1)
            total  == TotalSize(buf, s, marker)
            frame  == SubSeq(buf, s, s + total - 1)
        IN IF starts = {} THEN [frames |-> <<>>, rest |-> Kept(buf, o)]
           ELSE IF s + 1 + LengthSize(marker) > Len(buf) \/ s + total - 1 > Len(buf)
             THEN [frames |-> <<>>, rest |-> SubSeq(buf, o, Len(buf))]
           ELSE IF ~IsSuffix(Stop, frame) THEN From[s + 2]
           ELSE LET next == From[s + total] IN [next EXCEPT !.frames = <<frame>> \o @]
  IN From[1]
===============================================================================
