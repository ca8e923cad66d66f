------------------------------- MODULE DmFacade -------------------------------
(***************************************************************************)
(* The blocking API of libdmconfig on top of the connection model:        *)
(* dm_init_socket connects and dispatches until the connect event is      *)
(* handled; dm_generic_send_request registers one request whose callback  *)
(* is generic_answerHandler with a pointer to the caller's stack frame,   *)
(* then runs event_base_dispatch until no event is pending, and returns   *)
(* the rc the handler stored in that frame.  Between two calls the event  *)
(* loop does not run.                                                     *)
(***************************************************************************)
EXTENDS DmConnection

VARIABLES
  caller,    \* "init", "idle", "dispatching" or "closed"
  cur,       \* rid of the request of the running call (its stack frame)
  frc,       \* result.rc in that frame
  returned,  \* calls that returned: [rid, rc, resolved] (history)
  stale      \* a callback wrote into the frame of a call that had returned

fvars == <<vars, caller, cur, frc, returned, stale>>
facadeVars == <<caller, cur, frc, returned, stale>>

(* The rc generic_answerHandler stores for each kind of callback.       *)
RcOf(kind) ==
  CASE kind = "ok"          -> "OK"
    [] kind = "err"         -> "ERR"
    [] kind = "read_error"  -> "MISC"
    [] kind = "write_error" -> "CONNECTION"

(* generic_answerHandler runs for every callback an event step invokes: *)
(* into the running call's frame, or into a frame that no longer exists. *)
AnswerHandler ==
  LET fired == {r \in Rids : Len(outc'[r]) > Len(outc[r])}
  IN /\ frc' = IF cur \in fired THEN RcOf(Last(outc'[cur]).kind) ELSE frc
     /\ stale' = (stale \/ \E r \in fired : r # cur)

(* dm_init_socket: dispatch until connectEvent has run.                 *)
InitSocket ==
  /\ caller = "init"
  /\ ConnectEvent
  /\ caller' = IF sock' = "up" THEN "idle" ELSE "closed"
  /\ UNCHANGED <<cur, frc, returned, stale>>

(* dm_generic_send_request up to event_base_dispatch: register with the *)
(* generic handler, then preset result.rc.                               *)
SendRequest(code) ==
  /\ caller = "idle"
  /\ RegisterRequest(code)
  /\ UNCHANGED slots
  /\ caller' = "dispatching"
  /\ cur' = nextRid
  /\ frc' = "CONNECTION"
  /\ UNCHANGED <<returned, stale>>

(* One event handled inside event_base_dispatch.                        *)
DispatchEvent ==
  /\ caller = "dispatching"
  /\ \/ WriteEvent \/ ReadEvent \/ WriteTimeout \/ ReadTimeout
  /\ AnswerHandler
  /\ UNCHANGED <<caller, cur, returned>>

(* event_base_dispatch returns once no event is pending.                 *)
Return ==
  /\ caller = "dispatching"
  /\ ~wwatch /\ ~rwatch
  /\ caller' = "idle"
  /\ returned' = Append(returned, [rid |-> cur, rc |-> frc,
                                   resolved |-> outc[cur] # <<>>])
  /\ UNCHANGED <<vars, cur, frc, stale>>

(* The server runs whether or not the caller is dispatching.            *)
FServer == Server /\ UNCHANGED facadeVars

FInit ==
  /\ Init
  /\ caller = "init" /\ cur = 0 /\ frc = "CONNECTION"
  /\ returned = <<>> /\ stale = FALSE

FNext ==
  \/ InitSocket
  \/ \E code \in Cmds : SendRequest(code)
  \/ DispatchEvent
  \/ Return
  \/ FServer

(* libevent delivers every pending event that is ready, event_base_dispatch *)
(* returns when none is pending, and a well-behaved server answers.      *)
FSpec ==
  /\ FInit /\ [][FNext]_fvars
  /\ WF_fvars(InitSocket)
  /\ WF_fvars(DispatchEvent)
  /\ WF_fvars(Return)
  /\ WF_fvars(FServer)

-----------------------------------------------------------------------------
FTypeOK ==
  /\ TypeOK
  /\ caller \in {"init", "idle", "dispatching", "closed"}
  /\ cur \in 0..MaxReqs
  /\ frc \in {"OK", "ERR", "MISC", "CONNECTION"}
  /\ returned \in Seq([rid : Rids, rc : {"OK", "ERR", "MISC", "CONNECTION"},
                       resolved : BOOLEAN])
  /\ stale \in BOOLEAN

(* A blocking call returns only after its own request got its answer or *)
(* error callback, and it returns the rc that callback carried.          *)
ReturnsOwnOutcome ==
  \A i \in 1..Len(returned) :
    /\ returned[i].resolved
    /\ returned[i].rc = RcOf(outc[returned[i].rid][1].kind)

(* No callback ever writes into the stack frame of a blocking call that *)
(* has already returned.                                                 *)
NoStaleCallback == ~stale

(* Every blocking call eventually returns.                               *)
CallReturns == caller = "dispatching" ~> caller = "idle"

==============================================================================
