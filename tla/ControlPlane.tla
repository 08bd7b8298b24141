----------------------------- MODULE ControlPlane -----------------------------
(***************************************************************************)
(* The control plane: the API process with its users, its shops and their  *)
(* connection (Users, ShopConnection) and the background consumer with a   *)
(* shop_sync lane (ShopConnection) and an ops_run lane (Operations), and   *)
(* the probe for new releases (UpdateProbe), over one database.            *)
(*                                                                         *)
(* The lanes share the job table, but each claims only rows of its own     *)
(* kind; the account requests touch no job, lease or shop file, and the    *)
(* probe has a row of its own.  Their steps commute with one another's, so *)
(* a behaviour follows one of the four kinds of work, chosen at the start. *)
(***************************************************************************)
EXTENDS ShopConnection, Operations, Users, UpdateProbe

VARIABLE workload   \* the work a behaviour follows

vars == <<workload, jobs, connVars, opsVars, userVars, probeVars>>

(* What is not followed rests: a shop with no login under way and no       *)
(* cookie, no run, a platform not claimed yet, nothing discovered.         *)
ShopAtRest == files.cookie = None /\ lease.connect = None
RunAtRest == plan = "distinct"
UsersAtRest == setup.state = "pending" /\ ~setup.guarded /\ ~setup.allowed
ProbeAtRest == probe.found = 0

Init ==
    /\ workload \in {"shop_sync", "ops_run", "accounts", "probe"}
    /\ LET If(work, set) == IF workload = work THEN set ELSE {}
       IN  /\ ConnectionInit(If("shop_sync", Tasks), If("shop_sync", Logins))
           /\ OpsInit(If("ops_run", Calls))
           /\ UsersInit(If("accounts", 1..MaxUsers), If("accounts", 1..MaxTokens),
                        If("accounts", Handlers))
    /\ ProbeInit
    /\ jobs = IF workload = "ops_run" THEN OpsJobs ELSE <<>>
    /\ workload # "shop_sync" => ShopAtRest
    /\ workload # "ops_run" => RunAtRest
    /\ workload # "accounts" => UsersAtRest
    /\ workload # "probe" => ProbeAtRest

ShopSync ==
    /\ workload = "shop_sync"
    /\ ConnectionNext
    /\ UNCHANGED <<workload, opsVars, userVars, probeVars>>

OpsRun ==
    /\ workload = "ops_run"
    /\ OpsNext
    /\ UNCHANGED <<workload, connVars, userVars, probeVars>>

Accounts ==
    /\ workload = "accounts"
    /\ UsersNext
    /\ UNCHANGED <<workload, jobs, connVars, opsVars, probeVars>>

Probing ==
    /\ workload = "probe"
    /\ ProbeNext
    /\ UNCHANGED <<workload, jobs, connVars, opsVars, userVars>>

Next == ShopSync \/ OpsRun \/ Accounts \/ Probing

Spec == Init /\ [][Next]_vars

TypeOK ==
    /\ ConnectionTypeOK
    /\ OpsTypeOK
    /\ UsersTypeOK
    /\ ProbeTypeOK
    /\ RowsOK(Tasks \cup {OpsLane}, SyncKeys \cup {OpsKey(n) : n \in 0..MaxChanges})
===============================================================================
