----------------------------- MODULE MCDmPullDecode -----------------------------
EXTENDS DmPullDecode

(* 4-byte words from which bodies are built: a code, an AVP header word  *)
(* without and with the vendor flag, and lengths below the minimum, at   *)
(* the minimum, and past the next word.                                  *)
Words == {<<0, 0, 0, 1>>, <<0, 0, 0, 8>>, <<0, 0, 0, 4>>, <<128, 0, 0, 12>>,
          <<0, 0, 0, 16>>}
MCBodies == {FlattenSeq(ws) : ws \in UNION {[1..n -> Words] : n \in 0..4}}
(* below the header size, and every body length up to 16 bytes           *)
MCLengths == {4, 20, 24, 28, 32, 36}
==============================================================================
