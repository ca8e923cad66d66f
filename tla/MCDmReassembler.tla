---------------------------- MODULE MCDmReassembler ----------------------------
(* Model-checking instance of DmReassembler.                              *)
EXTENDS DmReassembler

(* A bare header (two of them fill a chunk exactly) and a packet that     *)
(* spans two chunks.                                                      *)
MCLens == {4, 11}
==============================================================================
