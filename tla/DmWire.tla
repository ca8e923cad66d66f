-------------------------------- MODULE DmWire --------------------------------
(***************************************************************************)
(* The wire format shared by both codec APIs of dmmsg.c: AVP flag bits,   *)
(* 32-bit padding, and the big-endian conversions (htonl, uint32to24 and   *)
(* their inverses).  The header dmmsg.h is not part of the source tree;    *)
(* the flag values are those of Diameter, which the format follows.       *)
(***************************************************************************)
EXTENDS Integers, Sequences, SequencesExt, Bitwise

(* Flag bits of the AVP flag byte (Diameter values).                       *)
AVP_FLAG_VENDOR    == 128
AVP_FLAG_MANDATORY == 64
AVP_FLAG_PRIVAT    == 32
AVP_FLAG_RESERVED  == 31
IANA_INET  == 1
IANA_INET6 == 2
AddrLen == [INET |-> 4, INET6 |-> 16]

PAD32(n) == ((n + 3) \div 4) * 4

(* htonl / uint32to24: the w bytes of x, most significant first; and back. *)
Be(x, w) == [i \in 1..w |-> (x \div 2^(8 * (w - i))) % 256]
Num(s) == FoldLeft(LAMBDA a, b : a * 256 + b, 0, s)
Zeros(n) == [i \in 1..n |-> 0]

==============================================================================
