------------------------------ MODULE MCDmFacade ------------------------------
(* Model-checking instances of DmFacade.                                 *)
EXTENDS DmFacade

(* The blocking API sends plain requests, no feedback sessions.         *)
MCFacadeCmds == {"LIST"}

(* Any value the hop-id reseed can yield.                                *)
MCFacadeSeeds == 1..(MAX_INT - 1)
==============================================================================
