---------------------------- MODULE MCDmConnection ----------------------------
(* Model-checking instances of DmConnection.                             *)
EXTENDS DmConnection

(* Commands of each run: a plain query, a feature command with           *)
(* feedback, and the commands that end feedback sessions.                *)
MCCmdsFaults   == {"LIST", "PING"}
MCCmdsSessions == {"SUBSCRIBE", "UNSUBSCRIBE", "FWUPDATE", "ENDSESSION"}

(* The reseed of the hop id after it reaches MAX_INT can yield any value *)
(* in 1..MAX_INT-1.                                                      *)
MCAnySeed == 1..(MAX_INT - 1)
==============================================================================
