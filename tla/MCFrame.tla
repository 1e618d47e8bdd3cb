------------------------------- MODULE MCFrame ------------------------------
(***************************************************************************)
(* FrameStream for TLC: bytes of four values and a length field of two of  *)
(* them, a limit of two payload bytes, reads of at most three bytes.  The  *)
(* wires are every type byte, lengths on both sides of the limit and in    *)
(* both byte orders, up to five bytes after the header, and every stream   *)
(* that ends within the header.                                            *)
(***************************************************************************)
EXTENDS FrameStream

UpTo(n, S) == UNION {[1..k -> S] : k \in 0..n}
Lengths == {<<0, 0>>, <<0, 1>>, <<1, 0>>, <<0, 2>>, <<0, 3>>, <<1, 1>>}
MCWires == {<<t>> \o l \o p : t \in Byte, l \in Lengths, p \in UpTo(5, {1, 2})}
           \cup UpTo(2, {0, 1, 2})
MCOwnAck == <<1, 2>>
MCOtherJson == {<<2>>, <<2, 2>>}
=============================================================================
