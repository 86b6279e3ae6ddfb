------------------------------ MODULE MCCodec ------------------------------
(***************************************************************************)
(* Headers of two bits, and payloads whose bytes look like headers.  The   *)
(* reader takes frames of up to 2 bytes, the writer of up to 3: the items  *)
(* of the reader's type, one of them followed by a byte too many, one of   *)
(* another type, one too long for the reader, one too long for the writer. *)
(***************************************************************************)
EXTENDS Codec

MCKnown == {<<1>>, <<0, 1>>}
MCPayloads == MCKnown \cup {<<1, 0>>, <<0, 0>>, <<1, 1, 0>>, <<0, 1, 1, 1>>}
=============================================================================
