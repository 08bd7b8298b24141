---------------------------- MODULE ShopConnection ----------------------------
(***************************************************************************)
(* Connecting one shop to its seller account: QR logins, pasted cookies,   *)
(* refreshes by the console and by the background consumer, the product    *)
(* mapping, and deleting or disconnecting the shop.                        *)
(*                                                                         *)
(* A cookie stands for the seller it belongs to, and so do the snapshot    *)
(* verified with it and the products mapped under it.  Every request is    *)
(* served by a thread of the API process; Lane is the consumer's shop_sync *)
(* lane, another process.  All of them meet in the account row, the        *)
(* control leases, the job table and the account's files.                  *)
(*                                                                         *)
(* An account's generation is bumped only by disable_shop_account, and no  *)
(* account is enabled again, so "enabled" also answers account_is_current. *)
(* A live owner renews its leases before they lapse.  Waiting is choice:   *)
(* a sync can always be put off, by the cooldown of an earlier one, by the *)
(* risk circuit, or by a lease of an ended process that has not lapsed,    *)
(* and once it is not put off that lease has lapsed.                       *)
(***************************************************************************)
EXTENDS JobQueue

CONSTANTS
    Sellers,        \* the seller accounts a cookie can belong to
    Threads,        \* the API's request threads
    Lane,           \* the consumer's shop_sync lane
    Logins,         \* the identifiers of QR logins
    MaxRequests,    \* bound: requests served
    MaxFaults,      \* bound: file operations that fail
    MaxCrashes      \* bound: processes that are killed

ASSUME BoundsAssumption == {MaxRequests, MaxFaults, MaxCrashes} \subseteq Nat

(* Leases are owned by random tokens and by identifiers of logins.         *)
ASSUME OwnersAssumption ==
    /\ Lane \notin Threads /\ (Threads \cup {Lane}) \cap Logins = {}
    /\ None \notin Threads \cup {Lane} \cup Logins

VARIABLES
    account,        \* the shop_accounts row
    files,          \* the account directory
    lease,          \* the owners of this shop's control leases
    logins,         \* the QR login registry of the API process
    tasks,          \* what each thread and the lane are doing
    spent,          \* requests, faults and crashes so far
    history         \* what the properties need to remember

connVars == <<account, files, lease, logins, tasks, spent, history>>

Tasks == Threads \cup {Lane}
Cookies == Sellers \cup {None}

Replace(c, l) == [kind |-> "shop_sync_replace", cookie |-> c, login |-> l]
Refresh(c)    == [kind |-> "shop_sync", cookie |-> c, login |-> None]
SyncKeys == {Replace(c, l) : c \in Sellers, l \in Logins \cup {None}}
            \cup {Refresh(c) : c \in Sellers}

NoPrev == [cookie |-> None, verified |-> FALSE, products |-> None]
Idle == [pc |-> "idle", op |-> "none", cookie |-> None, job |-> 0,
         login |-> None, prev |-> NoPrev, result |-> "ok"]
NoLogin == [status |-> "none", cookie |-> None, listed |-> FALSE,
            inFlight |-> FALSE, consuming |-> FALSE]

Replacing(t) == tasks[t].op \in {"save", "complete"}

-------------------------------------------------------------------------------
(* The account directory.                                                  *)

(* load_verified_snapshot: a snapshot counts only beside its own cookie.   *)
Verified == files.cookie # None /\ files.snapshot = files.cookie

(* account_changed, from the snapshot or cookie found before the sync.     *)
Changed(t) == tasks[t].prev.cookie \notin {None, tasks[t].cookie}

(* The files a sync writes, in order.                                      *)
NextWrite(t, pc) ==
    CASE pc = "begin" /\ Changed(t)                        -> "products"
      [] pc = "begin" /\ ~Changed(t) /\ Replacing(t)       -> "cookie"
      [] pc = "begin" /\ ~Changed(t) /\ ~Replacing(t)      -> "snapshot"
      [] pc = "products"                                   -> "cookie"
      [] pc = "cookie"                                     -> "snapshot"
      [] pc = "snapshot"                                   -> "row"

Written(t, pc) ==
    CASE pc = "products" -> [files EXCEPT !.products = None]
      [] pc = "cookie"   -> [files EXCEPT !.cookie = tasks[t].cookie]
      [] pc = "snapshot" -> [files EXCEPT !.snapshot = tasks[t].cookie]

(* The files a failed replacement puts back, in order.                     *)
UndoMutant(t, pc) ==
    CASE pc = "begin" /\ Changed(t)            -> "undo_products"
      [] pc = "begin" /\ ~Changed(t)           -> "undo_cookie"
      [] pc = "undo_products"                  -> "undo_cookie"
      [] pc = "undo_cookie" /\ tasks[t].prev.verified  -> "undo_snapshot"
      [] OTHER                                 -> "leave"

Undo(t, pc) ==
    IF pc = "begin" THEN "undo_cookie"
    ELSE IF pc = "undo_cookie" /\ tasks[t].prev.verified THEN "undo_snapshot"
    ELSE IF pc # "undo_products" /\ Changed(t) THEN "undo_products"
    ELSE "leave"

PutBack(t, pc) ==
    CASE pc = "undo_cookie"   -> [files EXCEPT !.cookie = tasks[t].prev.cookie]
      [] pc = "undo_snapshot" -> [files EXCEPT !.snapshot = tasks[t].prev.cookie]
      [] pc = "undo_products" -> [files EXCEPT !.products = tasks[t].prev.products]

Writing == {"products", "cookie", "snapshot"}
Undoing == {"undo_cookie", "undo_snapshot", "undo_products"}

-------------------------------------------------------------------------------
(* The per-shop reservation.                                               *)

Owner(t) == IF tasks[t].login = None THEN t ELSE tasks[t].login

FreeMutant == lease.sync = None

(* reserve_shop_connection: neither a login nor a sync has this shop.      *)
Free == lease.connect = None /\ lease.sync = None

(* ensure_account_current: the reservation is renewed, the account is the  *)
(* one the sync started for.                                               *)
Current(t) == lease.connect = Owner(t) /\ account.enabled

Released(owner) == IF lease.connect = owner THEN [lease EXCEPT !.connect = None]
                                            ELSE lease

Goes(t, pc) == tasks' = [tasks EXCEPT ![t].pc = pc]

(* A sync that fails after it started; what it still holds is given back.  *)
Fails(t, result) ==
    tasks' = [tasks EXCEPT ![t].result = result,
                           ![t].pc = IF t = Lane THEN "settle" ELSE "leave"]

-------------------------------------------------------------------------------
(* The QR login registry (XianyuLoginManager).                             *)

Expired(item) == [item EXCEPT !.status = "expired"]
Forgotten(item) == [item EXCEPT !.listed = FALSE, !.cookie = None]

(* _cleanup: the credentials go, the reservation is released.              *)
Cleanup(l, item) ==
    /\ logins' = [logins EXCEPT ![l] = [item EXCEPT !.cookie = None]]
    /\ lease' = Released(l)

(* _expire: a login in use is cleaned up by its user.                      *)
Expire(l, item) ==
    IF item.inFlight \/ item.consuming
    THEN logins' = [logins EXCEPT ![l] = Expired(item)] /\ UNCHANGED lease
    ELSE Cleanup(l, Expired(item))

Active(l) == logins[l].listed /\ logins[l].status # "expired"

(* clear_user detaches every login of the shop; at most one of them is     *)
(* neither in flight nor being consumed and still holds the reservation.   *)
Detached(item) ==
    IF ~item.listed THEN item
    ELSE IF item.consuming THEN Expired(item)
    ELSE Expired([Forgotten(item) EXCEPT
                    !.cookie = IF item.inFlight THEN item.cookie ELSE None])

Cleared ==
    /\ logins' = [l \in Logins |-> Detached(logins[l])]
    /\ lease' = IF \E l \in Logins : /\ lease.connect = l /\ logins[l].listed
                                     /\ ~logins[l].inFlight
                                     /\ ~logins'[l].listed
                THEN [lease EXCEPT !.connect = None] ELSE lease

-------------------------------------------------------------------------------
(* Requests.                                                               *)

Request(t, task) ==
    /\ tasks[t].pc = "idle" /\ t \in Threads
    /\ spent.requests < MaxRequests
    /\ tasks' = [tasks EXCEPT ![t] = task]
    /\ spent' = [spent EXCEPT !.requests = @ + 1]

(* PUT /api/bot/cookies                                                    *)
SaveCookies(t, c) ==
    /\ account.enabled
    /\ Request(t, [Idle EXCEPT !.pc = "submit", !.op = "save", !.cookie = c])
    /\ UNCHANGED <<account, files, lease, logins, history, jobs>>

(* POST /api/bot/shop/sync, waiting for the result.                        *)
SyncSavedShop(t) ==
    /\ account.enabled /\ files.cookie # None
    /\ Request(t, [Idle EXCEPT !.pc = "submit", !.op = "refresh",
                               !.cookie = files.cookie])
    /\ UNCHANGED <<account, files, lease, logins, history, jobs>>

(* The same with Prefer: respond-async: the job is queued for the lane.    *)
(* A key of an earlier time bucket does not count.                         *)
EnqueueRefresh(t) ==
    /\ account.enabled /\ files.cookie # None
    /\ Request(t, Idle)
    /\ LET key == Refresh(files.cookie)
           bases == Known(key)
       IN  \/ Enqueued(key, FALSE)
           \/ /\ bases # {}
              /\ IF jobs[Newest(key)].status = "dead_letter"
                 THEN Enqueued(key, TRUE) ELSE UNCHANGED jobs
    /\ UNCHANGED <<account, files, lease, logins, history>>

(* POST /api/bot/login/complete: the login's cookie is taken for use.      *)
CompleteLogin(t, l) ==
    LET item == logins[l]
        usable == item.status = "confirmed" /\ ~item.consuming
        owned == lease.connect = l /\ account.enabled
    IN  /\ item.listed
        /\ \/ /\ usable /\ owned
              /\ Request(t, [Idle EXCEPT !.pc = "submit", !.op = "complete",
                                 !.cookie = item.cookie, !.login = l])
              /\ logins' = [logins EXCEPT ![l].consuming = TRUE]
              /\ UNCHANGED lease
           \/ /\ usable /\ ~owned
              /\ Request(t, Idle)
              /\ Cleanup(l, Expired(Forgotten(item)))
           \/ /\ item.status = "expired" /\ ~item.consuming
              /\ Request(t, Idle)
              /\ IF item.inFlight
                 THEN logins' = [logins EXCEPT ![l].listed = FALSE]
                      /\ UNCHANGED lease
                 ELSE Cleanup(l, Forgotten(item))
        /\ UNCHANGED <<account, files, history, jobs>>

(* POST /api/bot/login/start: an abandoned login is cleared first.         *)
StartLogin(t) ==
    /\ account.enabled
    /\ Request(t, [Idle EXCEPT !.pc = "start", !.op = "start"])
    /\ Cleared
    /\ UNCHANGED <<account, files, history, jobs>>

(* GET /api/bot/login/<id>/status, when the platform is asked.             *)
PollLogin(t, l) ==
    /\ logins[l].listed /\ logins[l].status = "waiting" /\ ~logins[l].inFlight
    /\ Request(t, [Idle EXCEPT !.pc = "poll", !.op = "poll", !.login = l])
    /\ logins' = [logins EXCEPT ![l].inFlight = TRUE]
    /\ UNCHANGED <<account, files, lease, history, jobs>>

(* POST /api/bot/login/<id>/cancel                                         *)
CancelLogin(t, l) ==
    /\ logins[l].listed /\ ~logins[l].consuming
    /\ Request(t, Idle)
    /\ IF logins[l].inFlight
       THEN logins' = [logins EXCEPT ![l].listed = FALSE] /\ UNCHANGED lease
       ELSE Cleanup(l, Forgotten(logins[l]))
    /\ UNCHANGED <<account, files, history, jobs>>

(* PUT /api/bot/products: the mapping is checked against the snapshot, and *)
(* written if it is still the one that was read.  The products-config      *)
(* lease admits one such request.                                          *)
SaveProducts(t) ==
    /\ account.enabled /\ Verified
    /\ \A u \in Tasks : tasks[u].op # "edit"
    /\ Request(t, [Idle EXCEPT !.pc = "edit", !.op = "edit",
                       !.cookie = files.snapshot,
                       !.prev.products = files.products])
    /\ UNCHANGED <<account, files, lease, logins, history, jobs>>

(* DELETE /api/bot/accounts/<key>, after the worker is confirmed stopped.  *)
DeleteAccount(t) ==
    /\ account.enabled
    /\ \A u \in Tasks : tasks[u].op # "delete"
    /\ Request(t, [Idle EXCEPT !.pc = "delete", !.op = "delete"])
    /\ Cleared
    /\ UNCHANGED <<account, files, history, jobs>>

-------------------------------------------------------------------------------
(* One synchronisation.                                                    *)

(* _run_shop_sync up to the claim: the row for this key, a fresh one after *)
(* a dead letter, or the saved snapshot when the key was completed.  A     *)
(* login that is no longer confirmed is not submitted.                     *)
Submit(t) ==
    LET key == IF Replacing(t) THEN Replace(tasks[t].cookie, tasks[t].login)
                               ELSE Refresh(tasks[t].cookie)
        claims(i) == tasks' = [tasks EXCEPT ![t].job = i, ![t].pc = "claim"]
        adds(fresh) == Enqueued(key, fresh) /\ claims(Len(jobs) + 1)
        valid == tasks[t].login # None =>
                    /\ logins[tasks[t].login].status = "confirmed"
                    /\ Current(t)
    IN  /\ tasks[t].pc = "submit"
        /\ \/ /\ ~valid
              /\ tasks' = [tasks EXCEPT ![t].result = "fail", ![t].pc = "answer"]
              /\ UNCHANGED jobs
           \/ valid /\ Known(key) = {} /\ adds(FALSE)
           \/ valid /\ Known(key) # {} /\ ~Replacing(t) /\ adds(FALSE)
           \/ /\ valid /\ Known(key) # {}
              /\ LET i == Newest(key) IN
                 CASE jobs[i].status = "dead_letter"             -> adds(TRUE)
                   [] jobs[i].status = "completed" /\ ~Verified  -> adds(TRUE)
                   [] jobs[i].status = "completed" /\ Verified   ->
                        Goes(t, "answer") /\ UNCHANGED jobs
                   [] OTHER -> claims(i) /\ UNCHANGED jobs
        /\ UNCHANGED <<account, files, lease, logins, spent, history>>

Claim(t) ==
    /\ tasks[t].pc = "claim"
    /\ \/ /\ ClaimJob(tasks[t].job, t)
          /\ Goes(t, IF tasks[t].login = None THEN "reserve" ELSE "open")
       \/ /\ ClaimRefused(tasks[t].job)
          /\ tasks' = [tasks EXCEPT ![t].result = "defer", ![t].pc = "answer"]
    /\ UNCHANGED <<account, files, lease, logins, spent, history>>

(* The consumer's run_once.                                                *)
LaneClaim ==
    /\ tasks[Lane].pc = "idle"
    /\ \E i \in Ids :
          /\ ClaimNext(i, Lane, {"shop_sync"})
          /\ tasks' = [tasks EXCEPT ![Lane] =
                [Idle EXCEPT !.pc = "reserve", !.op = "lane", !.job = i,
                             !.cookie = jobs[i].key.cookie]]
    /\ UNCHANGED <<account, files, lease, logins, spent, history>>

(* ShopConnectionCoordinator.acquire.                                      *)
Reserve(t) ==
    /\ tasks[t].pc = "reserve"
    /\ \/ /\ ~account.enabled /\ Fails(t, "fail") /\ UNCHANGED lease
       \/ /\ account.enabled /\ Fails(t, "defer") /\ UNCHANGED lease
       \/ /\ account.enabled /\ Free
          /\ lease' = [lease EXCEPT !.connect = t]
          /\ Goes(t, "open")
    /\ UNCHANGED <<account, files, logins, spent, history, jobs>>

(* Everything before the platform call.  A refresh whose cookie is not the *)
(* saved one is stale.  The request may be put off by other shops' use of  *)
(* the egress lease, the risk circuit or the limiter of its process.  The  *)
(* lane records that a shop has lost its cookie.                           *)
Open(t) ==
    LET stale == ~Replacing(t) /\ files.cookie # tasks[t].cookie
        prev == [cookie |-> files.cookie, verified |-> Verified,
                 products |-> files.products]
    IN  /\ tasks[t].pc = "open"
        /\ \/ /\ ~Current(t) \/ stale
              /\ Fails(t, "fail") /\ UNCHANGED lease
           \/ /\ Current(t) /\ ~stale
              /\ Fails(t, "defer") /\ UNCHANGED lease
           \/ /\ Current(t) /\ ~stale
              /\ lease' = [lease EXCEPT !.sync = t]
              /\ tasks' = [tasks EXCEPT ![t].pc = "call",
                    ![t].prev = IF Replacing(t) THEN prev ELSE NoPrev]
        /\ account' = IF t = Lane /\ files.cookie = None /\ account.enabled
                      THEN [account EXCEPT !.status = "degraded"] ELSE account
        /\ UNCHANGED <<files, logins, spent, history, jobs>>

(* The platform's answer.  A refused cookie or a risk control is recorded  *)
(* on the row, except for a replacement; trouble is temporary.             *)
Call(t) ==
    /\ tasks[t].pc = "call"
    /\ lease' = [lease EXCEPT !.sync = IF @ = t THEN None ELSE @]
    /\ \/ /\ \E result \in {"fail", "trouble", "defer"} : Fails(t, result)
          /\ UNCHANGED account
       \/ /\ ~Replacing(t) /\ account.enabled
          /\ \E result \in {"fail", "defer"} : Fails(t, result)
          /\ account' = [account EXCEPT !.status = "degraded"]
       \/ /\ ~Current(t) /\ Fails(t, "fail") /\ UNCHANGED account
       \/ /\ Current(t) /\ UNCHANGED account
          /\ Goes(t, IF tasks[t].login # None THEN "pause"
                                              ELSE NextWrite(t, "begin"))
    /\ UNCHANGED <<files, logins, spent, history, jobs>>

(* pause_worker_after_verification: the login is still good, the worker    *)
(* pauses (or cannot), and the login is still good.                        *)
Pause(t) ==
    LET good == logins[tasks[t].login].status = "confirmed" /\ Current(t)
    IN  /\ tasks[t].pc = "pause"
        /\ \/ Fails(t, "fail")
           \/ good /\ Goes(t, NextWrite(t, "begin"))
        /\ UNCHANGED <<account, files, lease, logins, spent, history, jobs>>

Editing == \E t \in Tasks : tasks[t].op = "edit"

(* One file is written after its check, then the next check is made.       *)
Write(t) ==
    LET pc == tasks[t].pc
    IN  /\ pc \in Writing
        /\ \/ /\ files' = Written(t, pc)
              /\ history' = [history EXCEPT !.strayed = @ \/ (pc = "cookie" /\ Editing)]
              /\ IF Current(t) THEN Goes(t, NextWrite(t, pc)) ELSE Fails(t, "fail")
              /\ UNCHANGED spent
           \/ /\ spent.faults < MaxFaults
              /\ spent' = [spent EXCEPT !.faults = @ + 1]
              /\ IF Replacing(t) /\ account.enabled
                 THEN tasks' = [tasks EXCEPT ![t].result = "fail",
                                             ![t].pc = Undo(t, "begin")]
                 ELSE Fails(t, "fail")
              /\ UNCHANGED <<files, history>>
        /\ UNCHANGED <<account, lease, logins, jobs>>

(* One file is put back, or its write fails and is skipped.                *)
WriteBack(t) ==
    LET pc == tasks[t].pc
        strays(why) == history' = [history EXCEPT !.strayed = @ \/ (pc = "undo_cookie" /\ why)]
    IN  /\ pc \in Undoing
        /\ \/ files' = PutBack(t, pc) /\ strays(Editing) /\ UNCHANGED spent
           \/ /\ spent.faults < MaxFaults
              /\ spent' = [spent EXCEPT !.faults = @ + 1]
              /\ strays(Changed(t)) /\ UNCHANGED files
        /\ Goes(t, Undo(t, pc))
        /\ UNCHANGED <<account, lease, logins, jobs>>

(* update_shop_account_if_current, and the last check.                     *)
WriteRow(t) ==
    /\ tasks[t].pc = "row"
    /\ account' = IF account.enabled THEN [account EXCEPT !.status = "ready"]
                                     ELSE account
    /\ IF Current(t) THEN Goes(t, IF t = Lane THEN "settle" ELSE "leave")
                     ELSE Fails(t, "fail")
    /\ UNCHANGED <<files, lease, logins, spent, history, jobs>>

(* The reservation made for this sync alone is released.  The lane does so *)
(* after its job is settled, a request before.                             *)
Leave(t) ==
    /\ tasks[t].pc = "leave"
    /\ lease' = IF tasks[t].login = None THEN Released(t) ELSE lease
    /\ IF t = Lane THEN tasks' = [tasks EXCEPT ![t] = Idle] ELSE Goes(t, "settle")
    /\ UNCHANGED <<account, files, logins, spent, history, jobs>>

(* The job is completed for an active account, deferred or failed.         *)
Settle(t) ==
    LET i == tasks[t].job
        then == IF t = Lane THEN "leave" ELSE "answer"
    IN  /\ tasks[t].pc = "settle"
        /\ CASE tasks[t].result = "ok" /\ account.enabled ->
                    CompleteJob(i, t, account.enabled) /\ Goes(t, then)
             [] tasks[t].result = "defer" ->
                    DeferJob(i, t) /\ Goes(t, then)
             [] OTHER ->
                    /\ FailJob(i, t)
                    /\ tasks' = [tasks EXCEPT ![t].pc = then,
                          ![t].result = IF @ = "trouble" THEN @ ELSE "fail"]
        /\ UNCHANGED <<account, files, lease, logins, spent, history>>

(* The request ends.  A consumed login is finished; after a failure it is  *)
(* kept for another try only when waiting can help.                        *)
Answer(t) ==
    LET l == tasks[t].login
        item == [logins[l] EXCEPT !.consuming = FALSE]
    IN  /\ tasks[t].pc = "answer"
        /\ tasks' = [tasks EXCEPT ![t] = Idle]
        /\ IF l = None THEN UNCHANGED <<lease, logins>>
           ELSE IF tasks[t].result \in {"ok", "fail"}
                THEN Cleanup(l, Forgotten(item))
           ELSE IF item.status = "expired" THEN Expire(l, item)
           ELSE logins' = [logins EXCEPT ![l] = item] /\ UNCHANGED lease
        /\ UNCHANGED <<account, files, spent, history, jobs>>

-------------------------------------------------------------------------------
(* The other requests, after their first step.                             *)

(* start: the shop is reserved for the new login and the platform is asked *)
(* for a code, or the request is refused, for now or for good.             *)
BeginLogin(t) ==
    /\ tasks[t].pc = "start"
    /\ \/ /\ account.enabled /\ Free /\ \A l \in Logins : ~Active(l)
          /\ \E l \in Logins :
                /\ logins[l].status = "none"
                /\ lease' = [lease EXCEPT !.connect = l]
                /\ logins' = [logins EXCEPT ![l] =
                      [NoLogin EXCEPT !.status = "waiting", !.listed = TRUE,
                                      !.inFlight = TRUE]]
                /\ tasks' = [tasks EXCEPT ![t].pc = "code", ![t].login = l]
       \/ /\ tasks' = [tasks EXCEPT ![t] = Idle]
          /\ UNCHANGED <<lease, logins>>
    /\ UNCHANGED <<account, files, spent, history, jobs>>

(* The code arrives for a login still wanted; otherwise the login goes.    *)
CodeArrives(t) ==
    LET l == tasks[t].login
        item == [logins[l] EXCEPT !.inFlight = FALSE]
    IN  /\ tasks[t].pc = "code"
        /\ \/ /\ Active(l)
              /\ logins' = [logins EXCEPT ![l] = item] /\ UNCHANGED lease
           \/ ~Active(l) /\ Expire(l, item)
           \/ Cleanup(l, Forgotten(item))
        /\ tasks' = [tasks EXCEPT ![t] = Idle]
        /\ UNCHANGED <<account, files, spent, history, jobs>>

(* The platform's answer to a poll.  A login that was cancelled or cleared *)
(* meanwhile is cleaned up here.                                           *)
PollAnsweredMutant(t) ==
    LET l == tasks[t].login
        item == [logins[l] EXCEPT !.inFlight = FALSE]
    IN  /\ tasks[t].pc = "poll"
        /\ logins' = [logins EXCEPT ![l] = item] /\ UNCHANGED lease
        /\ tasks' = [tasks EXCEPT ![t] = Idle]
        /\ UNCHANGED <<account, files, spent, history, jobs>>

PollAnswered(t) ==
    LET l == tasks[t].login
        item == [logins[l] EXCEPT !.inFlight = FALSE]
        owned == lease.connect = l /\ account.enabled
    IN  /\ tasks[t].pc = "poll"
        /\ \/ ~item.listed /\ Cleanup(l, item)
           \/ item.listed /\ Expire(l, item)
           \/ /\ item.listed /\ item.status = "waiting"
              /\ \/ logins' = [logins EXCEPT ![l] = item] /\ UNCHANGED lease
                 \/ Cleanup(l, Forgotten(item))
                 \/ \E c \in Sellers :
                       IF owned
                       THEN /\ logins' = [logins EXCEPT ![l] =
                                  [item EXCEPT !.status = "confirmed",
                                               !.cookie = c]]
                            /\ UNCHANGED lease
                       ELSE Expire(l, item)
        /\ tasks' = [tasks EXCEPT ![t] = Idle]
        /\ UNCHANGED <<account, files, spent, history, jobs>>

(* write_products: the last checks, then the write.                        *)
CheckProducts(t) ==
    /\ tasks[t].pc = "edit"
    /\ IF account.enabled /\ files.products = tasks[t].prev.products
       THEN Goes(t, "map") ELSE tasks' = [tasks EXCEPT ![t] = Idle]
    /\ UNCHANGED <<account, files, lease, logins, spent, history, jobs>>

WriteProducts(t) ==
    /\ tasks[t].pc = "map"
    /\ files' = [files EXCEPT !.products = tasks[t].cookie]
    /\ history' = [history EXCEPT !.strayed =
          @ \/ \E u \in Tasks : Replacing(u) /\ tasks[u].pc \in Writing \cup Undoing]
    /\ tasks' = [tasks EXCEPT ![t] = Idle]
    /\ UNCHANGED <<account, lease, logins, spent, jobs>>

(* An extra shop is fenced and disabled; the default shop loses its cookie *)
(* and then its snapshot, and stays.  Its mapping is kept.  Only here does *)
(* it matter which of the two the shop is, so it is decided here.          *)
Delete(t) ==
    /\ tasks[t].pc = "delete"
    /\ \/ /\ \/ files' = [files EXCEPT !.cookie = None] /\ UNCHANGED spent
             \/ /\ spent.faults < MaxFaults
                /\ spent' = [spent EXCEPT !.faults = @ + 1]
                /\ UNCHANGED files
          /\ history' = [history EXCEPT !.strayed = TRUE]
          /\ Goes(t, "disconnect")
          /\ account' = [account EXCEPT !.default = TRUE]
       \/ /\ ~account.default
          /\ account' = [account EXCEPT !.enabled = FALSE, !.status = "deleted"]
          /\ tasks' = [tasks EXCEPT ![t] = Idle]
          /\ UNCHANGED <<files, spent, history>>
    /\ UNCHANGED <<lease, logins, jobs>>

Disconnect(t) ==
    /\ tasks[t].pc = "disconnect"
    /\ files' = [files EXCEPT !.snapshot = None]
    /\ account' = [account EXCEPT !.status = "unconfigured"]
    /\ tasks' = [tasks EXCEPT ![t] = Idle]
    /\ UNCHANGED <<lease, logins, spent, history, jobs>>

-------------------------------------------------------------------------------
(* Time and failure.                                                       *)

(* The sweeper expires a login, and later drops it.                        *)
Sweep(l) ==
    /\ logins[l].listed
    /\ IF logins[l].status # "expired" THEN Expire(l, logins[l])
       ELSE /\ ~logins[l].inFlight /\ ~logins[l].consuming
            /\ logins' = [logins EXCEPT ![l].listed = FALSE]
            /\ UNCHANGED lease
    /\ UNCHANGED <<account, files, tasks, spent, history, jobs>>

(* A process is killed: its threads end, what they own is nobody's, and    *)
(* the login registry goes with the API.                                   *)
Crash(members) ==
    LET gone == members \cup (IF Lane \in members THEN {} ELSE Logins)
        orphan(owner) == IF owner \in gone THEN None ELSE owner
    IN  /\ spent.crashes < MaxCrashes
        /\ spent' = [spent EXCEPT !.crashes = @ + 1]
        /\ tasks' = [t \in Tasks |-> IF t \in members THEN Idle ELSE tasks[t]]
        /\ lease' = [lease EXCEPT !.connect = orphan(@), !.sync = orphan(@)]
        /\ jobs' = Orphaned(gone)
        /\ logins' = [l \in Logins |->
              IF l \notin gone \/ logins[l].status = "none" THEN logins[l]
              ELSE [NoLogin EXCEPT !.status = "expired"]]
        /\ UNCHANGED <<account, files, history>>

-------------------------------------------------------------------------------
(* A shop that is not connected, or connected with its products mapped,    *)
(* with no login under way or with one that shows its code or that the     *)
(* seller has confirmed on the phone.  Composed modules pass no task and   *)
(* no login when nothing happens to the shop.                              *)
ConnectionInit(ts, ls) ==
    /\ account = [default |-> FALSE, enabled |-> TRUE, status |-> "ready"]
    /\ \E c \in Cookies :
          files = [cookie |-> c, snapshot |-> c, products |-> c]
    /\ tasks = [t \in ts |-> Idle]
    /\ spent = [requests |-> 0, faults |-> 0, crashes |-> 0]
    /\ history = [strayed |-> FALSE]
    /\ \/ /\ logins = [l \in ls |-> NoLogin]
          /\ lease = [connect |-> None, sync |-> None]
       \/ \E l \in ls, c \in Sellers :
             /\ logins \in {[k \in ls |-> IF k = l THEN item ELSE NoLogin] :
                   item \in {[NoLogin EXCEPT !.status = "waiting",
                                             !.listed = TRUE],
                             [NoLogin EXCEPT !.status = "confirmed",
                                             !.cookie = c, !.listed = TRUE]}}
             /\ lease = [connect |-> l, sync |-> None]

Step(t) ==
    \/ Submit(t) \/ Claim(t) \/ Reserve(t) \/ Open(t) \/ Call(t) \/ Pause(t)
    \/ Write(t) \/ WriteBack(t) \/ WriteRow(t) \/ Leave(t) \/ Settle(t)
    \/ Answer(t) \/ BeginLogin(t) \/ CodeArrives(t) \/ PollAnswered(t)
    \/ CheckProducts(t) \/ WriteProducts(t) \/ Delete(t) \/ Disconnect(t)

Arrives(t) ==
    \/ \E c \in Sellers : SaveCookies(t, c)
    \/ \E l \in Logins : CompleteLogin(t, l) \/ PollLogin(t, l) \/ CancelLogin(t, l)
    \/ SyncSavedShop(t) \/ EnqueueRefresh(t) \/ StartLogin(t)
    \/ SaveProducts(t) \/ DeleteAccount(t)

ConnectionNext ==
    \/ \E t \in Tasks : Step(t)
    \/ \E t \in Threads : Arrives(t)
    \/ \E l \in Logins : Sweep(l)
    \/ LaneClaim
    \/ Crash(Threads) \/ Crash({Lane})

-------------------------------------------------------------------------------
Owners == Tasks \cup Logins \cup {None}

ConnectionTypeOK ==
    /\ account \in [default : BOOLEAN, enabled : BOOLEAN,
          status : {"ready", "degraded", "unconfigured", "deleted"}]
    /\ files \in [cookie : Cookies, snapshot : Cookies, products : Cookies]
    /\ lease \in [connect : Owners, sync : Owners]
    /\ \A t \in DOMAIN tasks : tasks[t].pc \in Writing \cup Undoing \cup
          {"idle", "submit", "claim", "reserve", "open", "call", "pause", "row",
           "leave", "settle", "answer", "start", "code", "poll", "edit", "map",
           "delete", "disconnect"}

(***************************************************************************)
(* Two synchronisations never write a shop's files at the same time,       *)
(* whichever process they run in and whoever crashed before: the           *)
(* reservation is held from before the platform call until the last file.  *)
(***************************************************************************)
OneWriter ==
    \A t, u \in DOMAIN tasks :
        /\ tasks[t].pc \in Writing \cup Undoing \cup {"row"}
        /\ tasks[u].pc \in Writing \cup Undoing \cup {"row"}
        => t = u

(***************************************************************************)
(* "Never carry delivery mappings from a different seller account": at     *)
(* every moment, through failed writes, rollbacks and crashes, the mapping *)
(* belongs to the seller of the saved cookie.  The three exceptions, which *)
(* history.strayed marks, are a mapping saved while the cookie is being    *)
(* replaced or put back, the default shop's mapping kept by a disconnect,  *)
(* and another seller's cookie that cannot be put back after a failed      *)
(* write, beside which the old mapping is put back all the same.           *)
(***************************************************************************)
MappingFollowsSeller ==
    ~history.strayed => files.products \in {None, files.cookie}

(***************************************************************************)
(* A reservation always has someone who will release it: a login that is   *)
(* still listed, in flight or being consumed, a task that is past its      *)
(* acquisition (the leases of an ended process run out by themselves).     *)
(***************************************************************************)
ReservationsAreReleased ==
    /\ \A l \in DOMAIN logins : lease.connect = l =>
          logins[l].listed \/ logins[l].inFlight \/ logins[l].consuming
    /\ \A t \in DOMAIN tasks : (lease.connect = t \/ lease.sync = t) =>
          tasks[t].pc \notin {"idle", "submit", "claim", "reserve"}
===============================================================================
