------------------------------- MODULE Codec -------------------------------
(***************************************************************************)
(* One direction of a framed connection (codec.rs), byte by byte: encode   *)
(* at the writer, the network, which delivers the bytes in chunks of any   *)
(* size, and the reader: FramedRead, which appends a chunk to its buffer   *)
(* and calls decode until that asks for more.                              *)
(*                                                                         *)
(* A byte is a number below Base, a length a big-endian number of          *)
(* HeaderLen bytes, an item the bytes of its serialization.  The two ends  *)
(* may differ in their limit (with_max_frame_size) and in their types:     *)
(* the writer's items are Payloads, Known are those of the reader's type.  *)
(***************************************************************************)
EXTENDS Integers, Sequences, SequencesExt

CONSTANTS
  HeaderLen, Base,      \* 4 and 256 in the program
  SendMax, RecvMax,     \* max_frame_size of the writer and of the reader
  Payloads, Known,
  Refused,              \* bytes that do not deserialize
  MaxItems              \* bound: frames sent

\* Base ^ n
Power[n \in 0 .. HeaderLen] == IF n = 0 THEN 1 ELSE Base * Power[n - 1]

ASSUME CodecAssumption ==
  /\ HeaderLen \in Nat \ {0} /\ Base \in Nat \ {0, 1}
  /\ SendMax \in Nat /\ RecvMax \in Nat
  /\ SendMax < Power[HeaderLen]     \* the length of a payload fits the header
  /\ Payloads \subseteq Seq(0 .. Base - 1)
  /\ Known \subseteq Seq(0 .. Base - 1) /\ Refused \notin Known
  /\ \A p, q \in Known : IsPrefix(p, q) => p = q   \* serde formats delimit
  /\ MaxItems \in Nat

VARIABLES
  writer,      \* "open", "closed", "cut"
  sent,        \* history: items encoded
  wire,        \* bytes written and not yet read
  src,         \* the reader's buffer
  readable,    \* FramedRead: decode is worth calling
  eof,         \* FramedRead: read returned 0 bytes
  reader,      \* "open", "over", "failed"
  yielded      \* history: items decoded

vars == <<writer, sent, wire, src, readable, eof, reader, yielded>>

Init == /\ writer = "open" /\ reader = "open"
        /\ sent = <<>> /\ yielded = <<>>
        /\ wire = <<>> /\ src = <<>>
        /\ readable = FALSE /\ eof = FALSE
-----------------------------------------------------------------------------
\* put_u32
Header(n) == [i \in 1 .. HeaderLen |-> (n \div Power[HeaderLen - i]) % Base]

Frame(m) == Header(Len(m)) \o m

LittleEndianLen(buf) ==      \* u32::from_le_bytes
  FoldRight(LAMBDA b, n : n * Base + b, SubSeq(buf, 1, HeaderLen), 0)

\* u32::from_be_bytes of the first bytes
FrameLen(buf) ==
  LET value[i \in 0 .. HeaderLen] ==
        IF i = 0 THEN 0 ELSE value[i - 1] * Base + buf[i]
  IN  value[HeaderLen]

HeaderThere(buf) == Len(buf) >= HeaderLen
Oversized(buf) == HeaderThere(buf) /\ FrameLen(buf) > RecvMax

WholeAndMore(buf) ==         \* <= for < in the test for a partial frame
  HeaderThere(buf) /\ ~Oversized(buf) /\ Len(buf) > HeaderLen + FrameLen(buf)

Whole(buf) ==
  HeaderThere(buf) /\ ~Oversized(buf) /\ Len(buf) >= HeaderLen + FrameLen(buf)

Body(buf) == SubSeq(buf, HeaderLen + 1, HeaderLen + FrameLen(buf))
Rest(buf) == SubSeq(buf, HeaderLen + FrameLen(buf) + 1, Len(buf))

\* bincode::deserialize: bytes behind the item are ignored.
Parse(body) == IF \E p \in Known : IsPrefix(p, body)
                 THEN CHOOSE p \in Known : IsPrefix(p, body)
                 ELSE Refused
-----------------------------------------------------------------------------
(***************************************************************************)
(* The writer: framed.send encodes one item and flushes it.  When encode   *)
(* refuses an item nothing is written, and the caller gives up and drops   *)
(* the connection.  A task or process that dies cuts the stream anywhere.  *)
(***************************************************************************)
Encode(m) ==
  /\ writer = "open" /\ Len(sent) < MaxItems
  /\ Len(m) <= SendMax
  /\ wire' = wire \o Frame(m)
  /\ sent' = Append(sent, m)
  /\ UNCHANGED <<writer, src, readable, eof, reader, yielded>>

EncodeTooLong(m) ==
  /\ writer = "open" /\ Len(sent) < MaxItems
  /\ Len(m) > SendMax
  /\ writer' = "closed"
  /\ UNCHANGED <<sent, wire, src, readable, eof, reader, yielded>>

Close ==
  /\ writer = "open"
  /\ \/ writer' = "closed" /\ UNCHANGED wire
     \/ /\ writer' = "cut"
        /\ \E n \in 0 .. Len(wire) : wire' = SubSeq(wire, 1, n)
  /\ UNCHANGED <<sent, src, readable, eof, reader, yielded>>
-----------------------------------------------------------------------------
(***************************************************************************)
(* The reader.  A read that returns something, or the end, makes the       *)
(* buffer readable; decode is called while it is.                          *)
(***************************************************************************)
Read(n) ==
  /\ reader = "open" /\ ~readable
  /\ n <= Len(wire)
  /\ src' = src \o SubSeq(wire, 1, n)
  /\ wire' = SubSeq(wire, n + 1, Len(wire))
  /\ readable' = TRUE
  /\ UNCHANGED <<writer, sent, eof, reader, yielded>>

ReadEnd ==
  /\ reader = "open" /\ ~readable
  /\ wire = <<>> /\ writer # "open"
  /\ eof' = TRUE /\ readable' = TRUE
  /\ UNCHANGED <<writer, sent, wire, src, reader, yielded>>

DecodeOncePerRead ==         \* if let for while let around decode
  /\ reader = "open" /\ readable
  /\ Whole(src) /\ Parse(Body(src)) # Refused
  /\ yielded' = Append(yielded, Parse(Body(src)))
  /\ src' = Rest(src)
  /\ readable' = FALSE
  /\ UNCHANGED <<writer, sent, wire, eof, reader>>

DecodeItem ==
  /\ reader = "open" /\ readable
  /\ Whole(src) /\ Parse(Body(src)) # Refused
  /\ yielded' = Append(yielded, Parse(Body(src)))
  /\ src' = Rest(src)
  /\ UNCHANGED <<writer, sent, wire, readable, eof, reader>>

\* The header alone announces too much, or the body is no item.
DecodeError ==
  /\ reader = "open" /\ readable
  /\ \/ Oversized(src) /\ UNCHANGED src
     \/ Whole(src) /\ Parse(Body(src)) = Refused /\ src' = Rest(src)
  /\ reader' = "failed"
  /\ UNCHANGED <<writer, sent, wire, readable, eof, yielded>>

DecodeNeedsMore ==
  /\ reader = "open" /\ readable /\ ~eof
  /\ ~Oversized(src) /\ ~Whole(src)
  /\ readable' = FALSE
  /\ UNCHANGED <<writer, sent, wire, src, eof, reader, yielded>>

DecodeEofWaits ==            \* a partial frame at the end is waited for
  /\ reader = "open" /\ readable /\ eof
  /\ src = <<>>
  /\ reader' = "over"
  /\ UNCHANGED <<writer, sent, wire, src, readable, eof, yielded>>

\* decode_eof: what is left in the buffer is an error.
DecodeEof ==
  /\ reader = "open" /\ readable /\ eof
  /\ ~Oversized(src) /\ ~Whole(src)
  /\ reader' = IF src = <<>> THEN "over" ELSE "failed"
  /\ UNCHANGED <<writer, sent, wire, src, readable, eof, yielded>>

Poll == \/ \E n \in 1 .. Len(wire) : Read(n)
        \/ ReadEnd \/ DecodeItem \/ DecodeError \/ DecodeNeedsMore \/ DecodeEof

Next == (\E m \in Payloads : Encode(m) \/ EncodeTooLong(m)) \/ Close \/ Poll

(***************************************************************************)
(* TCP delivers what was written, and the runtime polls a reader whose     *)
(* socket is ready.                                                        *)
(***************************************************************************)
Spec == Init /\ [][Next]_vars
FairSpec == Spec /\ WF_vars(Poll)
-----------------------------------------------------------------------------
(***************************************************************************)
(* While the reader waits for more bytes, its buffer holds less than one   *)
(* frame, and a frame of admissible length: no whole item is held back,    *)
(* and nothing is awaited that the reader will refuse.                     *)
(***************************************************************************)
NeverWaitsInVain ==
  reader = "open" /\ ~readable /\ HeaderThere(src)
    => /\ FrameLen(src) <= RecvMax
       /\ Len(src) < HeaderLen + FrameLen(src)

(***************************************************************************)
(* Whatever the chunks, the reader gets what a channel of whole items      *)
(* delivers: in order, once, and it fails only at an item it refuses or at *)
(* a cut.  A decode that consumed part of a frame before all of it is      *)
(* there, or a byte too many, would lose step with the frames for good.    *)
(***************************************************************************)
Channel == INSTANCE FrameChannel WITH
  Items <- Payloads,
  Meaning <- [p \in Payloads |-> IF Len(p) > RecvMax THEN Refused ELSE Parse(p)]

ImplementsChannel == Channel!Spec

(***************************************************************************)
(* Every item is yielded without the writer sending anything after it,     *)
(* unless an earlier one was refused or the stream was cut.                *)
(***************************************************************************)
EveryFrameYielded ==
  \A i \in 1 .. MaxItems :
    Len(sent) >= i
      ~> \/ Len(yielded) >= i \/ writer = "cut"
         \/ \E j \in 1 .. i : /\ j <= Len(sent)
                              /\ Len(sent[j]) > RecvMax \/ Parse(sent[j]) = Refused

(***************************************************************************)
(* A reader whose peer is gone comes to an end, also when it was left with *)
(* part of a frame: the task of a connection does not outlive its client.  *)
(***************************************************************************)
StreamEnds == writer # "open" ~> reader # "open"
=============================================================================
