------------------------------ MODULE WsCodec ------------------------------
(***************************************************************************)
(* The bytes of a WebSocket frame: what the two writers of the helper put  *)
(* in front of a payload (helper/ws.go wsWriteFrame, unmasked, and         *)
(* helper/wsclient.go writeFrame, masked) and what its two readers make of *)
(* it (wsReadFrame, readFrameRaw).  A payload is one unit that knows how   *)
(* many bytes it is; a mask is four units.  Bound: lengths are below 2^31, *)
(* so that of eight length bytes the first four are zero.                  *)
(***************************************************************************)
EXTENDS Integers, Sequences

VARIABLE pair  \* two frames that are written, one behind the other

MaxLength == 2147483647  \* bound

Frame == [op : 0..15, masked : BOOLEAN, n : {n \in Nat : n <= MaxLength}]

(* Bits 8k to 8k + 7 of a number, for unit = 256^k.                         *)
Byte(n, unit) == (n \div unit) % 256

(* Mutant of Length: 65536 is still counted in sixteen bits.                *)
LengthShort(n) ==
    IF n <= 125 THEN <<n>>
    ELSE IF n <= 65536 THEN <<126, Byte(n, 256), Byte(n, 1)>>
    ELSE <<127, 0, 0, 0, 0, Byte(n, 16777216), Byte(n, 65536), Byte(n, 256), Byte(n, 1)>>

(* The length, in seven, sixteen or sixty-four bits.                        *)
Length(n) ==
    IF n <= 125 THEN <<n>>
    ELSE IF n <= 65535 THEN <<126, Byte(n, 256), Byte(n, 1)>>
    ELSE <<127, 0, 0, 0, 0, Byte(n, 16777216), Byte(n, 65536), Byte(n, 256), Byte(n, 1)>>

Masking(w) == [w EXCEPT ![1] = @ + 128]

Payload(n, masked) == [bytes |-> n, masked |-> masked]

(* FIN and opcode, length, mask.                                            *)
Header(f) ==
    <<128 + f.op>>
    \o (IF f.masked THEN Masking(Length(f.n)) \o <<"m", "m", "m", "m">> ELSE Length(f.n))

(* wsWriteFrame and writeFrame.                                             *)
Written(f) == Header(f) \o (IF f.n > 0 THEN <<Payload(f.n, f.masked)>> ELSE <<>>)

(* Two and eight length bytes.                                              *)
Uint16(w) == 256 * w[3] + w[4]
Uint64(w) ==
    LET high == 256 * (256 * (256 * w[3] + w[4]) + w[5]) + w[6]
    IN  256 * (256 * (256 * (256 * high + w[7]) + w[8]) + w[9]) + w[10]

(* wsReadFrame and readFrameRaw: the first frame of w, and what is left; a  *)
(* payload of another size in its place puts the reader out of step.        *)
FrameOf(w) ==
    LET masked == w[2] >= 128
        short  == w[2] % 128
        n      == IF short = 126 THEN Uint16(w) ELSE IF short = 127 THEN Uint64(w) ELSE short
        wide   == IF short = 126 THEN 2 ELSE IF short = 127 THEN 8 ELSE 0
        from   == 3 + wide + (IF masked THEN 4 ELSE 0)
    IN  [frame |-> [op |-> w[1] % 16, fin |-> w[1] >= 128, masked |-> masked, n |-> n],
         whole |-> n # 0 => from <= Len(w) /\ w[from] = Payload(n, masked),
         rest  |-> SubSeq(w, from + (IF n # 0 THEN 1 ELSE 0), Len(w))]

------------------------------------------------------------------------------
(* Frames of every size are read as they were written, and the reader is    *)
(* then at the start of the next one.                                       *)
ReadAsWritten ==
    LET f == pair[1]
        g == pair[2]
        w == FrameOf(Written(f) \o Written(g))
    IN  /\ w.whole
        /\ w.frame = [op |-> f.op, fin |-> TRUE, masked |-> f.masked, n |-> f.n]
        /\ w.rest = Written(g)
=============================================================================
