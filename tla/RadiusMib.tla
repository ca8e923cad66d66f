------------------------------- MODULE RadiusMib -------------------------------
(***************************************************************************)
(* The two read-only scalar groups of the RADIUS MIBs that mand serves to *)
(* net-snmp: radiusAccServ_handler (RFC 2621, subids 1..15) and           *)
(* radiusAuthClient_handler (RFC 2618, subids 1..4).  The agent hands a   *)
(* handler the varbinds of one PDU that fall in its group as a list; the  *)
(* handler walks the list once and sets a value or an exception on each.  *)
(* A varbind keeps its name (the subid) and starts as ASN_NULL.  A value  *)
(* read from the data store is the name of the statistic it comes from.   *)
(***************************************************************************)
EXTENDS Naturals, Sequences, SequencesExt

CONSTANTS
  MaxVarbinds   \* varbinds of one group in a PDU

Mibs == {"radiusAccServ", "radiusAuthClient"}

(* the subids each init_* registers with netsnmp_register_scalar_group  *)
AccServSubIds == 1..15
AuthClientSubIds == 1..4
SubIds(m) == IF m = "radiusAccServ" THEN AccServSubIds ELSE AuthClientSubIds

(* MODE_GET is served; every other mode only logs a warning.             *)
Modes == {"MODE_GET", "MODE_OTHER"}

VARIABLES
  phase,   \* "idle", "request" (handed to the handler) or "answered"
  mib,     \* the group the varbinds belong to
  mode,    \* reqinfo->mode
  globs,   \* dm_get_table_by_selector found the Accounting.Stats table
  vbs      \* the varbind list: [subid, type, val]

vars == <<phase, mib, mode, globs, vbs>>

(* One pass of a handler's switch for the varbind named s: the value it  *)
(* sets, and whose varbind it is set on ("own" is request->requestvb,     *)
(* "head" is requests->requestvb, the first of the list).                 *)
OnOwn(t, v) == [to |-> "own", vb |-> [type |-> t, val |-> v]]
OnHead == [to |-> "head", vb |-> [type |-> "ASN_OCTET_STR", val |-> ""]]
NoSuch == OnOwn("SNMP_NOSUCHOBJECT", "none")

(* radiusAccServ_handler's switch, after the check that globs was found   *)
AccServCase(g, s) ==
  CASE ~g             -> NoSuch
    [] s = 1          -> OnHead
    [] s \in {2, 3}   -> OnOwn("ASN_TIMETICKS", 0)
    [] s = 4          -> OnOwn("ASN_INTEGER", 4)
    [] s \in 5..13    -> OnOwn("ASN_COUNTER", <<"Acct_Stats", s>>)
    [] s \in {14, 15} -> NoSuch

(* radiusAuthClient_handler's switch                                      *)
AuthClientCase(s) ==
  CASE s = 1          -> OnOwn("ASN_COUNTER", <<"Auth_Stats", s>>)
    [] s = 2          -> OnHead
    [] s \in {3, 4}   -> NoSuch

Case(m, g, s) == IF m = "radiusAccServ" THEN AccServCase(g, s) ELSE AuthClientCase(s)

(* The for loop over the request list, applied at index i.               *)
Step(m, g, v, i) ==
  LET c == Case(m, g, v[i].subid)
      at == IF c.to = "head" THEN 1 ELSE i
  IN [v EXCEPT ![at] = [subid |-> @.subid, type |-> c.vb.type, val |-> c.vb.val]]

(* The agent receives a PDU whose varbinds fall in one group.            *)
Receive ==
  /\ phase = "idle"
  /\ \E m \in Mibs, md \in Modes, n \in 1..MaxVarbinds :
       \E ss \in [1..n -> SubIds(m)] :
         /\ mib' = m /\ mode' = md
         /\ vbs' = [i \in 1..n |-> [subid |-> ss[i], type |-> "ASN_NULL", val |-> "none"]]
  /\ phase' = "request"
  /\ UNCHANGED globs

(* radiusAccServ_handler: the table is looked up on every call; in GET    *)
(* mode each varbind is answered, other modes fall through to the log.    *)
radiusAccServ_handler ==
  /\ phase = "request" /\ mib = "radiusAccServ"
  /\ \E g \in BOOLEAN :
       /\ globs' = g
       /\ vbs' = IF mode = "MODE_GET"
                 THEN FoldLeftDomain(LAMBDA v, i : Step(mib, g, v, i), vbs, vbs)
                 ELSE vbs
  /\ phase' = "answered"
  /\ UNCHANGED <<mib, mode>>

(* radiusAuthClient_handler: the counter is read per varbind with         *)
(* dm_get_uint_by_selector; no table lookup.                              *)
radiusAuthClient_handler ==
  /\ phase = "request" /\ mib = "radiusAuthClient"
  /\ vbs' = IF mode = "MODE_GET"
            THEN FoldLeftDomain(LAMBDA v, i : Step(mib, TRUE, v, i), vbs, vbs)
            ELSE vbs
  /\ phase' = "answered"
  /\ UNCHANGED <<mib, mode, globs>>

(* The agent sends the response and waits for the next PDU.              *)
Respond ==
  /\ phase = "answered"
  /\ phase' = "idle"
  /\ UNCHANGED <<mib, mode, globs, vbs>>

Init ==
  /\ phase = "idle" /\ mib = "radiusAccServ" /\ mode = "MODE_GET"
  /\ globs = TRUE /\ vbs = <<>>

Next == Receive \/ radiusAccServ_handler \/ radiusAuthClient_handler \/ Respond

Spec == Init /\ [][Next]_vars

-----------------------------------------------------------------------------
TypeOK ==
  /\ phase \in {"idle", "request", "answered"}
  /\ mib \in Mibs /\ mode \in Modes /\ globs \in BOOLEAN
  /\ Len(vbs) <= MaxVarbinds

(* In a GET, every varbind of the response carries the answer for its own *)
(* OID, whatever else the PDU asks for (RFC 3416 4.2.1: the response      *)
(* varbinds correspond one to one to the request's).  The handlers set    *)
(* the Ident objects on requests->requestvb, the head of the list.        *)
OwnAnswers ==
  phase = "answered" /\ mode = "MODE_GET" =>
    \A i \in DOMAIN vbs :
      [type |-> vbs[i].type, val |-> vbs[i].val] = Case(mib, globs, vbs[i].subid).vb
==============================================================================
