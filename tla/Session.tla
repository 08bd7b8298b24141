------------------------------- MODULE Session -------------------------------
(***************************************************************************)
(* The platform session of a shop worker (src/worker/main.py, XianyuApis   *)
(* and auth_state.py): its token, its connection and the auth status file. *)
(*                                                                         *)
(* An answer of the platform that asks for a person (risk control, a       *)
(* verification, an expired login) puts a hold into the file.  Three kinds *)
(* of tasks receive answers and write the file: the main loop, the token   *)
(* refresh loop that runs while the connection is up, and the tasks that   *)
(* verify orders, which live on while the main loop reconnects.            *)
(***************************************************************************)
EXTENDS Naturals, FiniteSets

CONSTANTS
    Callers,        \* tasks that call the platform about orders
    MaxStarts,      \* bound: starts of the worker
    MaxLogins,      \* bound: logins that are renewed in the console
    MaxLosses       \* bound: lost connections

ASSUME SessionAssumption == {MaxStarts, MaxLogins, MaxLosses} \subseteq Nat

VARIABLES
    auth,       \* auth_status.json: its phase, and whether it asks for a person
    live,       \* the main loop and what the process remembers
    asking,     \* the token request under way: for whom, and how far
    refresher,  \* token_refresh_loop: "off", "sleep" or "asking"
    calls,      \* the calls of the other tasks
    mark,       \* history: a hold was recorded, during a request, requests since
    chances     \* remaining environment events

sessionVars == <<auth, live, asking, refresher, calls, mark, chances>>

Nobody == [by |-> "none", stage |-> "none"]
Down == [pc |-> "down", ws |-> "none", ready |-> FALSE, stopped |-> FALSE, fatal |-> FALSE,
         token |-> FALSE, due |-> TRUE, restart |-> FALSE, jittered |-> FALSE,
         served |-> FALSE]
Unmarked == [held |-> FALSE, during |-> FALSE, asked |-> FALSE]

-------------------------------------------------------------------------------
(* What an answer says.                                                    *)

Signals == {"restricted", "verification", "risk", "expired", "busy"}
Protected == {"verification", "risk", "expired"}

(* _response_error_code: the first of these the answer shows.              *)
ErrorCode(shown) ==
    CASE "restricted" \in shown   -> "restricted"
      [] shown \cap {"restricted", "verification"} = {"verification"} -> "verification"
      [] shown \cap {"restricted", "verification", "risk"} = {"risk"} -> "risk"
      [] shown \subseteq {"expired", "busy"} /\ "expired" \in shown   -> "expired"
      [] shown = {"busy"}         -> "busy"
      [] OTHER                    -> "unavailable"

(* An answer: no answer at all, or one that shows signals and may call     *)
(* itself a success, which counts only without a signal.                   *)
Answers == {"network"} \cup {ErrorCode(shown) : shown \in SUBSET Signals} \cup {"ok"}

-------------------------------------------------------------------------------
(* The auth status file and the process's circuit.                         *)

File(phase) == auth' = [phase |-> phase, hold |-> FALSE]

LiveSocket == live.ws # "none" /\ live.ready

(* _stop_for_auth_failure: the circuit opens, the file asks for a person   *)
(* and the connection is closed.                                           *)
Stopped(row) ==
    [row EXCEPT !.stopped = TRUE, !.ready = FALSE,
                !.ws = IF @ = "none" THEN @ ELSE "closed"]

HoldFile(during) ==
    /\ auth' = [phase |-> "NEEDS_HUMAN", hold |-> TRUE]
    /\ mark' = [held |-> TRUE, during |-> mark.during \/ during, asked |-> mark.asked]

(* A connection that is lost is only reported while nothing asks for a     *)
(* person.                                                                 *)
MayReportLossMutant == ~live.restart

MayReportLoss == ~live.restart /\ ~live.stopped

-------------------------------------------------------------------------------
(* refresh_token.                                                          *)

(* The file and the circuit are looked at before a request.                *)
Barred == live.stopped \/ auth.hold

Ask(by) ==
    /\ asking' = [by |-> by, stage |-> "token"]
    /\ File(IF LiveSocket THEN "WS_REGISTERED" ELSE "SESSION_VALID")
    /\ mark' = [mark EXCEPT !.asked = @ \/ mark.held]

(* main, once a token is there: the file says so without being read again. *)
Connect(row) == [row EXCEPT !.pc = "connect"]
Fatal(row) == [row EXCEPT !.pc = "cleanup", !.fatal = TRUE]

(* The main loop needs a token.                                            *)
StartupToken(row) ==
    CASE Barred ->
             /\ live' = [Fatal(row) EXCEPT !.stopped = TRUE]
             /\ UNCHANGED <<auth, asking, mark>>
      [] ~Barred /\ row.token /\ ~row.due ->
             /\ live' = Connect(row)
             /\ File("TOKEN_VALID")
             /\ UNCHANGED <<asking, mark>>
      [] OTHER ->
             /\ live' = [row EXCEPT !.pc = "token"]
             /\ Ask("startup")

(* _ensure_startup_token, with a random delay the first time.              *)
EnsureToken ==
    /\ live.pc = "top"
    /\ LET row == [live EXCEPT !.restart = FALSE]
       IN  IF auth.hold \/ row.jittered
           THEN StartupToken(row)
           ELSE /\ live' = [row EXCEPT !.pc = "wait", !.jittered = TRUE]
                /\ UNCHANGED <<auth, asking, mark>>
    /\ UNCHANGED <<refresher, calls, chances>>

(* The delay, or the pause after a failed request, is over.                *)
WaitOver ==
    /\ live.pc = "wait" /\ live.due
    /\ StartupToken(live)
    /\ UNCHANGED <<refresher, calls, chances>>

(* The next refresh is due.                                                *)
RefreshDue ==
    /\ live.pc # "down" /\ ~live.due
    /\ live' = [live EXCEPT !.due = TRUE]
    /\ UNCHANGED <<auth, asking, refresher, calls, mark, chances>>

LoopWakes ==
    /\ refresher = "sleep" /\ live.due
    /\ IF Barred
       THEN /\ refresher' = "off"
            /\ live' = [live EXCEPT !.stopped = TRUE]
            /\ UNCHANGED <<auth, asking, mark>>
       ELSE refresher' = "asking" /\ Ask("loop") /\ UNCHANGED live
    /\ UNCHANGED <<calls, chances>>

(* A new token: the main loop goes on; the refresh loop closes a live      *)
(* connection so that the main loop registers again.                       *)
NewToken ==
    LET row == [live EXCEPT !.token = TRUE, !.due = FALSE]
    IN  /\ asking' = Nobody
        /\ IF asking.by = "startup"
           THEN live' = Connect(row) /\ File("TOKEN_VALID") /\ UNCHANGED refresher
           ELSE /\ File(IF LiveSocket THEN "WS_REGISTERED" ELSE "TOKEN_VALID")
                /\ IF LiveSocket
                   THEN live' = [row EXCEPT !.restart = TRUE, !.ws = "closed"]
                        /\ refresher' = "off"
                   ELSE live' = row /\ refresher' = "sleep"
        /\ UNCHANGED mark

(* _record_transient_token_failure: try later, with the token there is.    *)
NoToken ==
    LET row == [live EXCEPT !.due = FALSE]
    IN  /\ asking' = Nobody
        /\ IF asking.by = "startup"
           THEN IF row.token
                THEN live' = Connect(row) /\ File("TOKEN_VALID")
                ELSE live' = [row EXCEPT !.pc = "wait"] /\ File("DEGRADED")
           ELSE live' = row /\ File("DEGRADED")
        /\ refresher' = IF asking.by = "loop" THEN "sleep" ELSE refresher
        /\ UNCHANGED mark

RefusedToken ==
    /\ HoldFile(FALSE)
    /\ asking' = Nobody
    /\ live' = IF asking.by = "startup" THEN Fatal(Stopped(live)) ELSE Stopped(live)
    /\ refresher' = IF asking.by = "loop" THEN "off" ELSE refresher

(* get_token: an expired login is renewed once, and the token asked for    *)
(* once more.                                                              *)
TokenAnswer(code) ==
    /\ asking.by # "none"
    /\ CASE code = "expired" /\ asking.stage = "token" ->
                /\ asking' = [asking EXCEPT !.stage = "login"]
                /\ UNCHANGED <<auth, live, refresher, mark>>
         [] code = "ok" /\ asking.stage = "login" ->
                /\ asking' = [asking EXCEPT !.stage = "again"]
                /\ UNCHANGED <<auth, live, refresher, mark>>
         [] code = "ok" /\ asking.stage # "login" -> NewToken
         [] code \in Protected /\ ~(code = "expired" /\ asking.stage = "token") ->
                RefusedToken
         [] code = "unavailable" /\ asking.stage = "login" -> RefusedToken
         [] OTHER -> NoToken
    /\ UNCHANGED <<calls, chances>>

-------------------------------------------------------------------------------
(* The connection.                                                         *)

Reported == IF MayReportLoss THEN File("DEGRADED") ELSE UNCHANGED auth

(* The handshake, and init up to its wait.                                 *)
HandshakeAnswer ==
    /\ live.pc = "connect"
    /\ \/ /\ auth.hold
          /\ live' = Fatal([live EXCEPT !.ws = "open"]) /\ UNCHANGED auth
       \/ /\ ~auth.hold
          /\ live' = [live EXCEPT !.ws = "open", !.pc = "register"]
          /\ File("TOKEN_VALID")
       \/ /\ live' = [live EXCEPT !.pc = "cleanup"]
          /\ Reported
    /\ UNCHANGED <<asking, refresher, calls, mark, chances>>

(* init after its wait, where sending on a closed connection fails, and    *)
(* main: the tasks of the connection begin.                                *)
Register ==
    /\ live.pc = "register" /\ live.ws = "open"
    /\ live' = [live EXCEPT !.pc = "run", !.ready = TRUE, !.served = TRUE]
    /\ File("WS_REGISTERED")
    /\ refresher' = "sleep"
    /\ UNCHANGED <<asking, calls, mark, chances>>

(* The peer, a missing heartbeat or an event that could not be stored      *)
(* closes the connection.                                                  *)
ConnectionLost ==
    /\ live.ws = "open" /\ chances.losses > 0
    /\ chances' = [chances EXCEPT !.losses = @ - 1]
    /\ live' = [live EXCEPT !.ws = "closed"]
    /\ UNCHANGED <<auth, asking, refresher, calls, mark>>

(* The reader of a closed connection ends, with an error or without.       *)
ReaderEnds ==
    /\ live.pc \in {"register", "run"} /\ live.ws = "closed"
    /\ live' = [live EXCEPT !.pc = "cleanup"]
    /\ Reported \/ (live.pc = "run" /\ UNCHANGED auth)
    /\ UNCHANGED <<asking, refresher, calls, mark, chances>>

(* main's finally: the connection's tasks are cancelled, and with them a   *)
(* request of the refresh loop.  Then the process ends for a hold, or the  *)
(* loop begins again, at once after a controlled close.                    *)
Cleanup ==
    LET row == [live EXCEPT !.ready = FALSE, !.ws = "none"]
    IN  /\ live.pc = "cleanup"
        /\ refresher' = "off"
        /\ asking' = Nobody
        /\ CASE live.fatal \/ live.stopped ->
                    /\ live' = Down
                    /\ calls' = [t \in Callers |-> "none"]
                    /\ UNCHANGED auth
             [] ~(live.fatal \/ live.stopped) /\ live.restart ->
                    live' = [row EXCEPT !.pc = "top"] /\ File("TOKEN_VALID") /\ UNCHANGED calls
             [] OTHER ->
                    live' = [row EXCEPT !.pc = "pause"] /\ UNCHANGED <<auth, calls>>
        /\ UNCHANGED <<mark, chances>>

PauseOver ==
    /\ live.pc = "pause"
    /\ live' = [live EXCEPT !.pc = "top"]
    /\ UNCHANGED <<auth, asking, refresher, calls, mark, chances>>

-------------------------------------------------------------------------------
(* Other tasks, the console and the process.                               *)

(* _call_xianyu_api, when its failure must stop the worker or not.         *)
CallPlatform(t, kind) ==
    /\ live.pc # "down" /\ live.served /\ calls[t] = "none"
    /\ calls' = [calls EXCEPT ![t] = kind]
    /\ UNCHANGED <<auth, live, asking, refresher, mark, chances>>

CallAnswer(t, code) ==
    /\ calls[t] # "none"
    /\ calls' = [calls EXCEPT ![t] = "none"]
    /\ IF code \in Protected /\ calls[t] = "fatal"
       THEN live' = Stopped(live) /\ HoldFile(asking.by # "none")
       ELSE UNCHANGED <<live, auth, mark>>
    /\ UNCHANGED <<asking, refresher, chances>>

(* clear_auth_status: the login was renewed.                               *)
ClearAuthStatus ==
    /\ chances.logins > 0
    /\ chances' = [chances EXCEPT !.logins = @ - 1]
    /\ File("SESSION_VALID")
    /\ mark' = Unmarked
    /\ UNCHANGED <<live, asking, refresher, calls>>

(* XianyuLive.__init__ refuses a held session.                             *)
StartWorker ==
    /\ live.pc = "down" /\ ~auth.hold /\ chances.starts > 0
    /\ chances' = [chances EXCEPT !.starts = @ - 1]
    /\ live' = [Down EXCEPT !.pc = "top"]
    /\ File("SESSION_VALID")
    /\ UNCHANGED <<asking, refresher, calls, mark>>

StopWorker ==
    /\ live.pc # "down"
    /\ live' = Down /\ asking' = Nobody /\ refresher' = "off"
    /\ calls' = [t \in Callers |-> "none"]
    /\ UNCHANGED <<auth, mark, chances>>

-------------------------------------------------------------------------------
SessionInit ==
    /\ auth = [phase |-> "UNCONFIGURED", hold |-> FALSE]
    /\ live = Down
    /\ asking = Nobody
    /\ refresher = "off"
    /\ calls = [t \in Callers |-> "none"]
    /\ mark = Unmarked
    /\ chances = [starts |-> MaxStarts, logins |-> MaxLogins, losses |-> MaxLosses]

SessionNext ==
    \/ EnsureToken \/ WaitOver \/ RefreshDue \/ LoopWakes
    \/ \E code \in Answers : TokenAnswer(code)
    \/ HandshakeAnswer \/ Register \/ ConnectionLost \/ ReaderEnds \/ Cleanup \/ PauseOver
    \/ \E t \in Callers, kind \in {"soft", "fatal"} : CallPlatform(t, kind)
    \/ \E t \in Callers, code \in Answers : CallAnswer(t, code)
    \/ ClearAuthStatus \/ StartWorker \/ StopWorker

(***************************************************************************)
(* Once the platform asks for a person, whichever task was told, the hold  *)
(* stands until the login is renewed, over reconnects, crashes and         *)
(* restarts: the file keeps it, no connection is used and no token is      *)
(* requested.  The exception: a token request that was under way when the  *)
(* hold was recorded still writes its own answer over it.                  *)
(***************************************************************************)
HoldIsKept ==
    mark.held /\ ~mark.during => auth.hold /\ ~live.ready /\ ~mark.asked
===============================================================================
