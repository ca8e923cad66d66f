--------------------------- MODULE RequestService ---------------------------
(***************************************************************************)
(* What the request multiplexer of libdmconfig promises (spec.md 4, 7):   *)
(* requests are identified 1, 2, ... in registration order; the server     *)
(* receives them in that order, none skipped; it answers the ones it has  *)
(* received, in any order; and a request's callback runs once, after the   *)
(* server answered it, carrying that request's own answer.  One read event *)
(* may deliver several answers, so several requests may resolve at once.   *)
(***************************************************************************)
EXTENDS Naturals, Sequences, Functions

CONSTANTS
  MaxReqs,  \* requests a run registers
  Kinds     \* outcomes a callback can report after an answer

Rids == 1..MaxReqs

VARIABLES
  issued,    \* requests registered so far
  served,    \* rids in the order the server received them
  answered,  \* rids the server has answered
  outc       \* per rid, the callbacks run: [kind, from]

avars == <<issued, served, answered, outc>>

Init ==
  /\ issued = 0 /\ served = <<>> /\ answered = {}
  /\ outc = [r \in Rids |-> <<>>]

Register ==
  /\ issued < MaxReqs
  /\ issued' = issued + 1
  /\ UNCHANGED <<served, answered, outc>>

(* The server receives the oldest request it has not received yet.       *)
Serve ==
  /\ Len(served) < issued
  /\ served' = Append(served, Len(served) + 1)
  /\ UNCHANGED <<issued, answered, outc>>

Answer(r) ==
  /\ r \in Range(served) \ answered
  /\ answered' = answered \cup {r}
  /\ UNCHANGED <<issued, served, outc>>

(* The callbacks of a set of answered, unresolved requests run, each with *)
(* its own answer.                                                         *)
Resolve(S) ==
  /\ S # {}
  /\ \A r \in S : r \in answered /\ outc[r] = <<>>
  /\ \E k \in [S -> Kinds] :
       outc' = [r \in Rids |-> IF r \in S THEN <<[kind |-> k[r], from |-> r]>>
                               ELSE outc[r]]
  /\ UNCHANGED <<issued, served, answered>>

Next ==
  \/ Register
  \/ Serve
  \/ \E r \in Rids : Answer(r)
  \/ \E S \in SUBSET Rids : Resolve(S)

Spec == Init /\ [][Next]_avars

==============================================================================
