# A TLA+ model of xianyu-saas

xianyu-saas runs automatic shops on the Xianyu marketplace: a control plane (`backend/`)
manages users, shops and settings, and starts one worker process (`worker/`) per shop,
which reads the shop's websocket, answers buyers, checks payments with the platform and
delivers what was paid for: card codes, pan links or text. `deploy/` installs and
updates the whole.

This directory holds TLA+ modules translated from that code, TLC configurations that check
them on small instances, and TLAPS proofs. `PROJECT.json` maps every definition to the lines
it models and lists runs, mutants, findings, hazards and theorems.

## 1. Inventory

| Component | State | Operations | What makes it hard | What makes it correct |
|---|---|---|---|---|
| Order and code store (`worker/delivery_store.py`) | tables `delivery_events`, `inventory`, `manual_reviews` of one SQLite file | one transaction per method: record, verify, prepare, claim, retry, deliver, review, cancel, revive, import | three kinds of tasks and the operator interleave between transactions; restart in the middle of a send; codes change hands | a code reaches one buyer only; a resend repeats the message; no code leaks; what ends stays ended and is recorded |
| Fulfillment (`worker/main.py`) | asyncio tasks, per-order locks, cached product mapping and code file | paid notice, scan of pending orders, retry loop, `_fulfill_order`, platform shipment | every await lets others run; stale answers and caches; overlapping retry tasks; crash, lost ack, cancellation on reconnect | one message per order; a sending order has an owner; delivered means paid units were sent; every order settles |
| Inbound event queue (`delivery_store.py`, `main.py`) | table `inbound_events`, per-chat workers | persist and ack, claim, complete, requeue, dead letter, operator requeue and discard | crash between record and ack; repeated packets; queue limit; task limit; cancelled workers | acked is durable; order within a chat; handled once; nothing starves |
| Conversations: AI replies, takeover, manual outbox (`main.py`, `context_manager.py`, `records.py`) | mode of the conversation, draft and outcome per message, outbox rows with leases and parts, images | generate, check, split, send, fence; take over, hand back; enqueue, claim, renew, upload, ack, fail, expire, clean up | the console is another process; a handover while a reply is being generated or sent; acks are lost; images are shared | the stored outcome is what the buyer got; after a handover nothing more of the other side leaves; parts in order, none twice |
| Session state (`auth_state.py`, `XianyuApis.py`, `main.py`) | auth status file, token, connection | request a token, connect, register, heartbeat, report, clear, stop | three kinds of tasks write one file; late answers | a hold lasts until the login is renewed |
| Jobs and leases (`backend/db.py`, `job_consumer.py`, `account_leases.py`) | tables of jobs and control leases | enqueue, claim, renew, complete, retry, dead-letter, recover | holder killed between two steps | one holder acts; a job ends or is retried |
| Worker supervision (`bot_manager.py`, `db.py`, `app.py`) | process registry, `worker_runtimes`, leases, desired states | start, stop, adopt, restore, restart, pause, delete, drain | API crashes alone or with its workers; process ids are used again; failing signals | one worker per shop, none forgotten; a stop holds; a drain is final |
| Shop connection and QR login (`app.py`, `shop_sync*.py`, `xianyu_login.py`) | account row, cookie, snapshot and product files, login registry, two leases | save a cookie, synchronise, replace the seller with write-back, save products, disconnect, delete, start/poll/finish/cancel a login | two processes; failure half-way through several files; late polls | one writer; a mapping belongs to the seller; reservations are released |
| Operations (`operations.py`, `operations_tools.py`) | run, dispatches, steps, receipt in the changed file | turn of the model, propose, execute, record, cancel, retry, recover, undo | kill between file and row; the same change asked for twice | a change is made once, and what is reported is what was done |
| Users and administration (`db.py`, `app.py`) | users, sessions, login failures, bootstrap state, directories | claim the platform, register, log in, change passwords and roles, add shops, compensate | two requests at once; compensation after ids were given again | one first claim; an administrator remains; revoked sessions end; directories are kept |
| Platform updates (`update_api.py`, `update_maintenance.py`, `platform_update.py`, `docker_*.py`, `file_update.py`, `deploy/updater`, `launcher.sh`) | operation rows, request and status files, journal, maintenance marker, releases, backups | request, accept, drain, stop, back up, migrate, switch, check, roll back, prune, recover | crash, reboot or failing command at every step; the API that reports is itself restarted | see `Upgrade`; what is reported is what runs |
| Installer (`deploy/manager/installer.py`) | links, units, journal, host | classify, stop, snapshot, install, start, verify, roll back, recover | kill and reboot at every step; hosts of many kinds | all or nothing |
| Update probe (`update_probe.py`, `db.py`) | one row: schedule, lease with a generation, last discovery | claim, ask, commit, renew, abandon, stop, start | the answer of the release source outlives lease, stop and process; several API processes | a discovery is never replaced by an older or withdrawn one |
| Account files, AI settings, console, build scripts | files, browser state | single-file saves, text processing, UI, tooling | - | not modelled (section 6) |

How they interact. The control plane starts and stops workers and talks to them through
files and SQLite: it writes product mapping and code file, which the worker reloads before each
delivery (`Refresh`); it puts dead letters back and enqueues manual replies in the worker's
databases; it clears the auth status after a new login. Inside the worker, the reader fills the inbound
queue, a per-chat worker handles each event and calls the fulfillment code for payment notices; the scanner
and the retry loop reach the same orders from the side. API and job consumer are two processes over one database,
which they divide by leases. An update is requested by the API, performed by an executor
outside of it, and reported by the API the executor restarted; the write gate (maintenance marker)
is what they share.

## 2. Modules

| Module | Models | Composition |
|---|---|---|
| `DeliveryStore` | the order, code and review tables; one action per transaction | alone: any caller, any order |
| `DeliveryStoreProofs` | the theorems about it (section 5) | extends `DeliveryStore` |
| `Fulfillment` | the tasks of the worker, process start and crash, operator and platform | extends `DeliveryStore`, calling its actions |
| `FulfillmentProofs` | the theorems about it | extends `Fulfillment`, `DeliveryStoreProofs` |
| `InboundQueue` | the inbound table, reader, per-chat workers, operator | alone |
| `InboundQueueProofs` | the theorems about it | extends `InboundQueue` |
| `Conversations` | AI and manual replies of one conversation, console and crashes | part of `ShopWorker` |
| `Session` | token, connection and auth status of the worker | part of `ShopWorker` |
| `ShopWorker` | the worker process beside its inbound queue | extends `Fulfillment`, `Conversations`, `Session` |
| `ShopWorkerProofs` | the theorems about conversations, session and their composition with the fulfilment | extends `ShopWorker`, `FulfillmentProofs` |
| `WorkerControl` | supervision of the workers by the API | alone |
| `WorkerControlProofs` | the theorems about it | extends `WorkerControl` |
| `JobQueue` | the job table and its transactions | library of the next two |
| `ShopConnection` | cookies, synchronisation, products, QR logins of one shop | extends `JobQueue` |
| `Operations` | one run of the operations assistant | extends `JobQueue` |
| `Users` | users, sessions, administrators, directories | part of `ControlPlane` |
| `UpdateProbe` | the coordinators of several API processes and the row they share | part of `ControlPlane` |
| `ControlPlane` | API and consumer over one database | extends `ShopConnection`, `Operations`, `Users`, `UpdateProbe` |
| `ControlPlaneProofs` | the theorems about shops, users, runs and the probe | extends `ControlPlane` |
| `Upgrade` | abstract: what an update promises | refined by `PlatformUpdate` |
| `UpdateApi` | the requesting side of updates and the host | extended by the executors |
| `SystemdUpdater`, `DockerUpdater`, `LauncherUpdate` | the three executors | extend `UpdateApi` |
| `Installer` | the manager's `install` | part of `PlatformUpdate` |
| `PlatformUpdate` | a host with one of these | extends the four above |
| `PlatformUpdateProofs` | the theorems about the executors and the installer | extends `PlatformUpdate` |
| `OutcomeProofs` | the theorems about what an update reports | extends `PlatformUpdateProofs` |
| `MC...` | instances for TLC | extend the above |

**DeliveryStore.** `orders`, `inventory` and `reviews` are the three tables; `sent` is a history
variable, the sets of codes put on the wire per order. A transaction is `BEGIN IMMEDIATE`,
so one action. `StoreStep` allows every transaction in every state, and `StoreNext` is `StoreStep` under the bound on
recorded attempts that TLC needs: what holds of `StoreSpec`
holds whatever the callers do, including callers of a future release. Kept of the data: status, proof of payment,
quantity, kind of delivery, payload, the ids of the codes held, whether the last error is the
takeover reason (a transaction looks at it), platform shipment and its attempts. Left out: amounts,
buyer and item ids that are equal in every caller, timestamps, error text.

**Fulfillment.** Each asyncio task has a program counter. The event loop runs one task
between two awaits; a `pc` in `Sync` is a point inside such a block, where no other task intervenes, only a crash or the console; every
other `pc` is an await at which all other tasks and the platform may act. The operator's console is another process and replaces the mapping and the
code file between any two steps, also inside a synchronous block (`EditManifest`, `EditConfig`). A step commits
at most one transaction, so a crash falls between any two (`StepsAreTransactions`, checked and proved: the store
variables only change by steps of `StoreStep`). The tables may begin with orders that an earlier release
left to a takeover (`LegacyStore`). `files` is the disk, `cache` what the worker last loaded,
`platform` the state the platform reports, `posted` the history of pan and text messages. An API call
answers with the state of the platform when it answers, or fails; the ack of a message arrives, is refused or is lost.

**InboundQueue.** `status`, `attempts`, `waits` (backoff not over), `at` (arrival) and `aged` (retention over)
stand for the rows. The reader records a packet event by event without an await, then acks
it, then starts workers; `worker[c]` is the task of chat `c`. Stopping for an expired
session cancels the workers, whose done callbacks start others on the closing loop, as
in the code. The operator acts from another process at any time.

**Conversations.** `handler` is the inbound worker of the chat while it answers a message: it checks the mode, generates
(any text), stores the draft, splits it into bubbles and sends them, checking the hand before each; `courier` is the
manual outbox loop: claim, take the sending slot, verify the takeover, upload, send, await the ack, record. `ledger` and `outbox`
are the rows both leave behind; `wire` remembers what really left, which is what the properties compare
the rows with. The console changes the mode, the rules and the outbox between any two steps.

**Session.** `auth` is the status file, `live` the main loop and what the process remembers, `asking` a token request with the task it is
made for, `calls` the requests of order tasks that outlive a reconnection. Answers are classified in the code's order
(`_response_error_code`) and an answer that asks for a person writes a hold. `mark` is
history: whether a hold was recorded and what was tried after it.

**ShopWorker** puts the three into one process. They share the event loop but no table and no variable, so their
steps commute; a behaviour follows one workload, chosen at the start, and the union of the workloads is the state space.

**WorkerControl.** `runtime` and `lease` are rows, `reg`, `trans` and `resv` the registry of `bot_manager.py` in the memory of the API,
`os` what really runs under a process id. A request thread holds the account's lease over many steps; at every step the
API may be killed (with or without its children), a worker may die, an id may be given to another process,
a signal may fail or the lease lapse (`LeaseExpires`), wherever its owner is: a request renews it, but the renewal can fail; a restoration takes 45 seconds and never renews
them, while it ends processes and waits for `_worker_maintenance_lock`. Who has lost its lease goes on as far as the code lets it: a request notices before it prepares a start, after it has replaced a process and
after the launch, and then undoes it (`Started`); a restoration never looks. `halted` remembers the stops confirmed to an owner. Two kinds of process escape the supervision, and the history variables
name them so that the properties can speak of all the others: `lost` has the workers spawned but not yet recorded when the API
was killed alone, those of accounts that a restoration passed over because a dead API's lease still held, and those whose row an automatic start that failed
overwrote with the registry's (empty) answer (`Raised`, `StartLocked`). And an account leaves `halted` when a task without its lease
writes its row as wanted, or as still running, over the owner's stop (`Heeds`), or fails to end the worker it launched; section 4 says where. `spoilt` marks a stop that one of these overtook before it was confirmed.

**JobQueue, ShopConnection, Operations, Users, ControlPlane.** `jobs` is the job table. In `ShopConnection` each request thread and the consumer's lane
have a program counter over the steps of a synchronisation: lease, call, the files written one by one,
the row, and on failure the write-back in the reverse order; cookies, snapshots and mappings stand for the seller they belong to. In `Operations`
the file carries the receipt of the call that wrote it, as in the code, so that recovery can tell whether the write
took place before the kill. In `Users` a handler's database statements are single steps and the
file system lies between them. `ControlPlane` chooses one workload per behaviour, as `ShopWorker` does:
the lanes claim only rows of their own kind, account requests touch none, and the probe has a row of its own.

**UpdateProbe.** `probe` is the row, `probers` the coordinator of each API process with its attempt, `source` what the release source
says, as a number that grows with every change. The call to the source takes place outside every lock, so its answer may come after the lease
ran out, after another process committed, after `stop()` and another `start()`. Times are kept as what they are compared with (a lease live or
expired, a backoff, a cooldown, a due check). `barred` is history: the claims that `stop()` withdrew. The length of a backoff and
the projection for display (`snapshot`) are left out.

**Upgrade and PlatformUpdate.** `Upgrade` has three variables: the installed version, the serving version and the write gate. Code
is exchanged and stopped only behind the gate, which opens only in front of the installed version. `PlatformUpdate` maps
`installed` to what the pointers select, `serving` to the running API and the gate to the maintenance marker (for
the launcher, which has no marker, to the API being down) and TLC checks
`Upgraded == INSTANCE Upgrade WITH ...` as a property for all three executors. `SystemdUpdater` follows `process_intent` and
`_recover` of `updater.py` journal write by journal write; `DockerUpdater` the phases of `_advance`; `LauncherUpdate`
`file_update.py` with `launcher.sh`; `UpdateApi` the rows, request and status files of `update_api.py` and `db.py`. A
candidate or release is usable or not; signatures, manifests and archives are behind that.

**Installer.** `site` is the host, `deed` the journal on disk, `crew` the running installer with what it
remembers. A failing step leads to `_rollback` from memory, a kill to `recover` from the journal. Empty hosts, old layouts,
signed releases without a manager, current and outdated installations are initial states.

## 3. Runs

| Run | Instance | Shows |
|---|---|---|
| `store` | 2 orders, 2 codes, up to 2 units each, one payload; orders symmetric | all store invariants and `NothingIsUndone` under every order of transactions |
| `fulfillment_race` | `ShopWorker`. Orders: 2 orders of one chat (1 and 2 units) and their notice key, 2 codes, chat worker and retry task; 1 crash, 2 faults, 1 edit. Conversation: 2 messages, or 2 manual replies with images (one shared) and text, or a message and a text reply; 2 changes of hands or rules, any 2 failed calls, lost acks, stalls or crashes, 2 attempts. Left out of the view: what a workload does not touch. Session: 2 order tasks, 2 starts, 1 new login, 2 lost connections | codes are scarce and contested, delivered orders are complete, revoked codes are not sent; stored outcomes are true, handovers are kept, parts arrive in order, images stay, a hold is kept |
| `fulfillment_remap` | 1 order, all kinds of delivery and two payloads, chat worker, scanner, retry task; 1 crash, fault, edit and platform change | one message per order, no orphaned send, every step a transaction |
| `fulfillment_live` | 1 order, all tasks, 1 crash, fault and platform change, fairness | every order settles |
| `fulfillment_revive` | 1 order left by a takeover | finding 1 |
| `fulfillment_ship` | 2 retry tasks, limit 2 | finding 2 |
| `inbound` | 3 events of 2 chats in 3 overlapping packets, 2 attempts, queue of 2, one task slot, scan of one row; 1 crash or disconnect, 2 failures, 2 operator or retention steps | durability, order, ownership, no repetition |
| `inbound_live` | the same with 2 packets and one event per chat, fairness | every event settles |
| `inbound_retention` | as `inbound` | finding 3 |
| `update` | 2 operations, 3 versions (one older release installed), 2 events among crashes, reboots, restarts, failing commands, lost candidates, aged requests and business writes, for each of the three executors; installer: 2 calls, 2 mishaps, 1 write, 1 foreign update, on every kind of host | the refinement `UpgradeIsSafe`; cold backups, truthful outcomes, clean rest, atomic installation |
| `workers` | 2 shops, one with an owner, capacity 1, 3 process ids (symmetric; the view leaves out the recorded state, which no step reads, and the locals of a task that are set again before they are read, and takes the two request threads in one order while none of them boots), 2 request threads and the maintenance thread, 2 requests, 2 events of any kind | one worker, none forgotten, stops hold, drains are final, wherever a lease lapses |
| `control_plane` | shop: 2 sellers, 2 threads and the lane, 2 logins, 2 requests, 2 faults, 1 crash; run: 2 calls (equal, equivalent or distinct), 2 attempts, 1 change, error and kill; accounts: 2 handlers, 2 users, 3 tokens, 3 requests, 1 upset; probe: 2 processes, 2 claims, 2 editions of the source, 1 stop, restart, pause, failed renewal or database error; sellers, threads and logins symmetric; the recorded state of the account, which no step reads, is left out of the view | the eight properties of shops, runs, accounts and probe |

Why the bounds suffice. Conflicts are between two orders over codes, or two tasks over one
order; two units against two codes make both partial availability and exhaustion happen. One crash may fall at
any point, including inside the recovery of an earlier fault; a second crash is not explored. Two faults take an order or event through retry to its limit.
`AttemptBound` caps in TLC's runs a counter no transaction reads beyond `MaxShipAttempts`; the theorems about the worker do without it (`StoreStep`). Limits are scaled
down (50 units, 5 attempts, 2048 events, 1024 rows) so that runs reach them. Budgets bound only the environment: crashes, faults, edits;
the program itself is never bounded. In `workers` and `update` an event budget is shared by all kinds, so any
two kinds meet in any order; capacity 1 with 2 shops makes restoration and start compete; 3 ids allow an old process, its successor
and a stranger under a used id. Two operations let an update meet what an earlier one left behind; versions on both sides of the first make upgrade and rollback possible.
Requests are bounded at two or three because a conflict takes two. Deadlock is not checked where a run may end with its budget spent and nothing to do.

Each property has a mutant: a definition next to the mapped one that a plausible bug
would produce, under which TLC finds the property violated.

**Fairness.** In `Fulfillment`: weak fairness of the start sequence (the supervisor restarts the worker) and strong fairness of
each task except an idle conversation: asyncio serves ready tasks in turn, its locks are
first come first served (`_keyed_lock`), calls and acks have timeouts, scanner and retry loop run on timers. Strong, because
a task is disabled whenever another is inside a synchronous block. In `InboundQueue`: the same for workers, and for the recovery loop, which runs again after
every reconnect; weak for reader, reconnection, start and the passing of time. Nothing is assumed of buyers, platform or operator.

## 4. Findings

1. `revive_takeover_blocked_orders` restores a reviewed order but keeps its quarantined codes, so a card order
   cannot be sent and returns to review; its docstring promises an automatically deliverable state.
2. `record_platform_ship_attempt` does not enforce the limit its docstring states; overlapping retry tasks exceed it.
3. `record_inbound_event` deletes dead letters with their retention; the next event of the chat is then claimed although
   the earlier one was neither handled nor discarded, against the docstring of `claim_inbound_event`.

Observations made while modelling. They contradict no statement of the repository; the models follow the code, and the properties name the
exception where one applies.

* `installer.py:2366`: `_rollback` always removes the initialization record, so a rolled-back upgrade leaves `manager_install_incomplete`
  until the next install (`Unchanged` allows record 0). It reopens the gate (2361-2365) before the journal is removed, and a rollback
  killed at `services_started` is taken for a completed installation (1893-1908) (`prior.reopened`). When taking `updater.lock` fails after the snapshot, it
  runs without the lock (1972, 2108; `prior.overtaken`). Outdated templates are always refused at 1048, so the repair at 749-752 is never reached.
* `launcher.sh:97-100`: a kill between result and removal of the state undoes a switch that was reported; file updates hold no lock.
* `updater.py:2269-2277`: a step that fails after the manager was handed over leaves the old initialization record, and later updates are refused;
  2288: after a crash the consumer may run the old version until the next switch (`RestIsClean` asks only that it runs).
* `app.py:2291`: a worker spawned but not recorded when the API is killed alone is out of its reach (`lost`). 2228-2239, 2414-2423: an automatic start
  of a shop that has lost its connection records the registry's process, none after a crash, over the number of a worker that still lives (`lost`).
  2131-2161: the row of an invalid configuration is written without a look at the lease, over an owner's stop (`Heeds`). `app.py:4988`: completing a QR login
  arms automatic resumption again after a stop.
* `app.py:6736`: a restoration's lease lasts 45 seconds and is not renewed. One that ends a process or waits at 447 for longer starts the worker and records it as wanted
  over a stop that was confirmed meanwhile (6913-6928), although the comments at 6742 and 6950 say that a concurrent stop is not undone, and `internal_update_drain`, which counts restorations by
  their leases, may have answered ready while such a one was inside `bot_start`. An automatic start that lost its lease is undone but recorded as wanted (2302-2309). `StopHolds` and `DrainIsFinal` hold but for this (`Heeds`, `drained`). That no shop gets a second worker does not depend on it.
* `main.py:2198`: a code revoked after the refresh that follows the platform's answer, and before the websocket send at 2620, still leaves. `RevokedCodesAreNotSent` speaks of the file as it was when the answer arrived.
* `shop_sync_service.py:341-363`: on failure the old cookie and the old mapping are put back one after the other, each ignoring its own error. If the cookie
  is not put back after a failed snapshot write, the old mapping is put back beside another seller's cookie, against the intent of the comment at 315;
  it takes two failed writes. Found by the proof attempt, shown by TLC with two faults (`history.strayed`).
* `app.py:5211`: products saved while the cookie is being replaced, and a disconnect of the default shop, leave a mapping of the former seller (`history.strayed`).
* `main.py` about 2430: a token answer already under way overwrites a hold (`mark.during`).
* `delivery_store.py:1085`: a payment notice whose retention is over is closed without a review row. `main.py:2203`: the payload of a material product is not compared again before a resend.
  `main.py:4969`: when `requeue_inbound_event` itself fails, the event waits for the next start.

## 5. Proofs

`DeliveryStoreProofs`, checked by TLAPS for any sets of orders, codes, chats and payloads and any limits that
satisfy `StoreAssumption` (keys and codes are distinct from their null values, codes are numbers, limits are naturals):

* `StoreIsSafe`: `StoreSpec => []StoreInv`, the inductive invariant;
* `StoreIsWellTyped`, `CodesAreSentOnce`, `SentCodesAreKept`, `ResendsRepeat`, `NoCodeLeaks`, `DeliveriesAreKept`, `NobodyWaitsUnseen`: its parts;
* `NothingIsEverUndone`: the action property `NothingIsUndone`.

`NoCodeSentTwice` is not inductive: it follows from `SentCodesStayBound` (a sent code still belongs
to its order, and is merely reserved only while a resend is possible), which in turn needs to know
that a resend carries the same codes (`ResendsAreIdentical`), that a held code belongs to an order that
can still claim it (`ReservationsAreBacked`) and that delivered orders kept theirs (`DeliveredIsSettled`).
`StoreInv` is the conjunction, whose parts the run `store` also checks, all but the type invariant `StoreTypeOK`. The proof does not
go through the conjuncts action by action. It defines what a harmless step does to one code
(`CodeStep`) and to one order (`OrderStep`), shows once that a step made of these keeps `StoreInv` (`SafeStepKeeps`), and
then that each transaction is such a step: one lemma per transaction, with shared lemmas for those that end orders
(`EndStepSafe`), change one row (`RowStepSafe`, `FillRowSafe`) or a status (`StatusStepSafe`). Only `SendCodes`, which
extends `sent`, is shown separately to keep the invariant.

`FulfillmentProofs`, for any tasks, orders, manifests, configurations, edits, crashes and legacy rows
(`StoreAssumption` and `FulfillmentAssumption`: platform orders are orders, each with a notice key of the same chat and a quantity within the limit):

* `WorkerUsesTransactions` (`StepsAreTransactions`): every step of the worker is a transaction of the store or leaves it alone, so that
  `StoreInv` holds of the worker too, now also from `LegacyStore`; with it `WorkerSendsCodesOnce` and `WorkerUndoesNothing`;
* `ClaimsHaveOneSender`, `DeliveriesAreComplete`, `MessagesRepeatThemselves`, `RevokedCodesStay`: the properties of the runs;
* `WorkerIsSafe`: their inductive invariant `FulfillInv`, and `WorkerIsWellTyped`.

`SendingIsOwned` is stated of rows, and holds because of what the tasks know: where a task is, its locals describe the row (`LocalsOK`, `RowsOK`), the order
lock excludes (`LocksExclude`), a process that starts has no sender (`StartIsClean`) and every sender in the `try` block owns a claimed row (`SendersExist`).
`DeliveredInFull` and `OneMessagePerOrder` need that what awaits an ack is what the row says (`AcksAreBacked`) and that a delivered row is what was sent (`DeliveredAsRow`);
`RevokedCodesAreNotSent`, that a pool that is in step with the file offers only what the file offers (`PoolIsCurrent`), and that what a sender may use was offered by the file when it last looked (`SendersAreCurrent`), whatever the file says now.
Nearly all steps are calm (`CalmStep`): they move one task (`TaskMove`) and change no row a sender relies on (`RowMove`). That calm steps keep the invariant is shown once;
what prepares, claims, sends, acknowledges and crashes is shown on its own.

`InboundQueueProofs`, for any events, chats, packets and limits (`InboundAssumption`: finitely many events and chats, packets are not empty, limits are positive):

* `AckedEventsAreDurable`, `ChatsAreServedInOrder`, `ClaimsAreOwned` and the action property `HandledEventsStayHandled`, from
* `QueueIsSafe`: `Spec => []QueueInv`.

`NoOvertaking` is not inductive, because an operator who discards a dead letter makes it a completed event: nothing unfinished may be before any event that was taken up, dead letters
included (`HandledInOrder`), and a new row must come behind every other (`RowsAreNumbered`). `AckedIsDurable` needs to know how much of its packet the reader has
recorded (`PacketIsStored`), and retention only takes rows that are over (`AgedAreOver`).

`ShopWorkerProofs`, for any messages, replies, images and limits (besides the above, `ConversationAssumption`: a reply has a text or an image):

* `WorkerFulfilsOrders`: `WorkerSpec => Spec`, the worker process implements the fulfilment beside its other work, so that all the theorems about it carry over (`WorkerDeliversInFull`);
* `OutcomesAreTrue`, `TurnsAreRespected`, `RepliesArriveInOrder`, `ImagesStayOnDisk`, from `ConversationIsSafe`: `WorkerSpec => []TalkInv`;
* `HoldsStand`: a recorded request for a person stands, from `SessionInv`.

`TalkInv` has one invariant per table. The ledger is true of the wire because the handler carries the draft that is stored and has sent exactly the bubbles it counts (`HandlerOK`);
a side whose turn is over has sent at most what had passed its last check (`TurnInv`); the courier is at the first part that is not recorded (`PartsInv`); what an open reply has yet to send is on disk (`ImagesInv`).
`HoldIsKept` speaks of one file; `SessionInv` says why nobody writes it again: no request is under way, and the main loop is stopped or cannot pass its registration (`Frozen`).

`WorkerControlProofs`, for any shops, threads, process ids, requests and faults (`WorkerAssumption`: accounts are finitely many positive numbers, offers are pairs of an account and an operation, a thread is no process name, bounds are naturals):

* `NoSecondWorker`, `WorkersAreKnown`, `DrainsAreFinal` (`OneWorker`, `NoneForgotten`, `DrainIsFinal`) and `TypesHold`, from
* `ControlIsSafe`: `Spec => []ControlInv`;
* `StopsHold` (`StopHolds`), from `ControlInv` and `HaltInv`.

The danger is a worker that lives outside the registry (`Apart`), known by one number in a row that every operation writes. The invariant says that then the registry holds nothing else of the shop and the row has
that number (`AccountOK`); that every thread at work on the shop has not come further than the preparation of a start and, if it is stopping the shop, will end this process or record it again (`Guarded`);
what such a thread has in its locals (`WorkOK`); and that after a drain nobody starts anything, but for a restoration without its lease (`DrainOK`). None of this rests on the leases, which may lapse at any step.
A thread at work relies on its own account only, so each action is reduced to what it does to that account (`StepIsGood`, `GoodSteps`): most are instances of `Moves`, which says which processes a step ended, which handles it
kept and which lease it gave up. There is one lemma per action.

`StopsHold` does rest on the leases, and has a second invariant next to `ControlInv`: a halted shop is stopped in its row (`Resting`), and what the registry still holds of it (`RegOK`, `TransOK`) was launched by a task that has lost its lease
and is about to end or record it (`Ending`, `Parting`), which is the exception `StopHolds` names. It is inductive because who works on a shop with its lease either knows that the shop is not halted, or is stopping it and has
left nothing else in the registry (`OwnerOK`), and because a step without the lease that would break this ends the halt (`Heeds`) and spoils the stop that is under way.

`ControlPlaneProofs`, for any users, sessions, handlers, sellers, threads, logins, tool calls, requests, faults and crashes (`UsersAssumption`, `BoundsAssumption`, `OwnersAssumption`,
`OperationsAssumption`: bounds are naturals, a platform admits a user, a session and a try, the owners of leases are told apart, calls are positive numbers):

* `AdministratorRemains`, `DirectoriesAreKept`, `RevocationIsKept` (`AdminRemains`, `StorageIsKept`, `RevocationHolds`);
* `ShopHasOneWriter`, `MappingIsOfSeller`, `NoReservationIsLeft` (`OneWriter`, `MappingFollowsSeller`, `ReservationsAreReleased`);
* `ReportsAreExact` (`ChangesAreExact`);
* `DiscoveriesNeverGoBack`, the action property `DiscoveriesAdvance`, from `ProbeIsFenced`: `ProbeSpec => []ProbeInv` (`ProbeAssumption`: the empty owner is no process, bounds are naturals).

Each kind of work has an inductive invariant of its own, stated of the behaviours that follow it; what rests has no request, task or change to speak of. `UsersInv`: a compensation may take away a directory
only while its shop is unmarked, so no two requests may have made the same one and no marker is set while one has (`ShopOK`); ids are given in order (`Numbered`), so the id of a
registration under way is nobody's. `ConnectionInv`: who is past reserving owns the reservation (`ReservedOK`), under its own name or its login's; two tasks never share a login (`Apart`), and a login in flight
or being consumed has its task, so there is one owner; and at each step of writing and of putting back it says which files already belong to the new seller and what a replacement found
before it (`FilesOK`). `OpsInv`: each intent has one canonical step, whose change was not in the file it was planned from (`StepsOK`); a change in the file is there once, has been marked and is vouched for by a call that
counts it, is marked for recovery or needs review (`ConfigOK`); one call counts a step's success (`CountsOK`); and between planning and writing the file stays what it was planned from, because the leases are held (`CallOK`).
`ProbeInv`: the stored discovery does not go back because an answer that may still be committed is no older than what is stored (`AnswersAreFresh`: only the owner of the newest claim commits, and it asked
after its claim), no two attempts under way have the same generation (`ClaimsAreDistinct`), and a withdrawn attempt is cancelled (`WithdrawnAreCancelled`).
TLC checks `OpsInv` on the instance of the run `control_plane` with two changes, and a large part of the states with three calls.

`PlatformUpdateProofs`, for any operations, versions, mishaps, writes, calls of `install` and updates meanwhile (`UpdateAssumption`: finitely many operations, operations and versions are positive,
the first version is one of them, bounds are naturals; `InstallerAssumption`: bounds are naturals):

* `UpgradeIsAlwaysSafe`: `Spec => UpgradeIsSafe`, all three executors implement `Upgrade`;
* `ChangeIsAlwaysCold`, `RestIsAlwaysClean` (`ChangeIsCold`, `RestIsClean`), from `UpdateInvariant`: `Spec => []UpdateInv`;
* `InstallIsAlwaysAtomic` (`InstallIsAtomic`), from `InstallerInvariant`: `Spec => []InstallerInv`.

The properties of the executors are not inductive, because each of them can be killed between any two of its writes and goes on from a journal. `UpdateInv` has one invariant per executor, which ties four things that
change at different times: the program counter, the journal on disk, the marker and the services. For `updater.py` (`SystemdInv`), `JournalOK` says what is true of the host when the journal says so (a backup it names is
of today's data and nobody writes; before its manager is replaced the old version is current), `Alike` what the journal in memory has in common with it, and `Where` what is true at each step; an
operation that is not pending is settled or was never begun (`JournalsOK`). For `docker_updater.py` (`DockerInv`) it is the phase of the only active journal (`RecordOK`, `EngineAt`), and that a marker nobody
waits for is opened (`QuietOK`); for `launcher.sh` (`LauncherInv`) that the services are down wherever the link moves. The refinement then has one lemma per executor (`SystemdReplaces`, `DockerReplaces`,
`LauncherReplaces`): each step replaces code behind the gate, stops or starts a service, or leaves code and services alone.

`InstallerInv` says at each step of `install` that what the journal remembers is enough to give back the host that was found, and so is what the running installer remembers (`Undoable`): a unit or link that may
differ is noted before it is changed, what will be created is planned before it is there, and a backup is of today's data because nobody writes behind the gate. `Transacting` adds what each step of `_commit` has achieved,
`Backing` what each step of `_rollback` has given back, `Journalled` what an attempt that was broken off leaves. One lemma per action shows that it moves from one of these to another. The invariant is silent
once a rollback was broken off after it had reopened the gate, as the property is. TLC checks both invariants on the instance of the run `update`.

`OutcomeProofs`, from the same assumptions as `PlatformUpdateProofs`:

* `OutcomeIsAlwaysTrue`: the action property `OutcomeIsTrue`, from `TruthInvariant`: `Spec => [](UpdateInv /\ TruthInv)`.

`UpdateInv` says in what state the host is at each step of an executor, not what was promised of the operation. The truth of a deployment does, and is inductive next to it. For `updater.py`
(`SystemdTruth`), `LogsTrue` relates the rows, what is published and the journals: at most one operation was claimed without its end being published, it is the pending one (or is still queued while none is), its journal says
what the host is like (`LogTrue`), and a published end is that of its journal; `UnitTrue` says where the program can be before and after it has published the end (`AtWork`, `Ended`). For `docker_updater.py`
(`DockerTruth`) the phase of the active journal says which version runs, and a settled one that the outcome is justified; for `launcher.sh` (`LauncherTruth`), which keeps an operation until its result is on disk, the link and the
remembered previous version do. All three rest on `ReportsOK`: one operation is pending at a time, so no other one can move the host between the publication of an outcome and its consumption by the API. There is
one lemma per group of steps of each executor (`SystemdTells`, `DockerTells`, `LauncherTells`). TLC checks `TruthInv` on the instance of the run `update` as well.

Only model-checked: all liveness, because TLAPS does not handle fairness and `ENABLED`.

## 6. Not modelled

SQLite errors inside a transaction (except where a run names storage faults) and disk corruption; schema migrations (`_init_db` is modelled from the
current schema on); the clock running backwards; payload decoding, key derivation and collisions of inbound
events; rare error paths of a reference that becomes invalid after a step of `Operations` was prepared, of the removal of an older release record of the same
version (`DockerUpdater`) and of a directory the installer cannot create before it has its lock; the byte limit of the queue; the text of messages, prompts and model answers; paging, search and pruning of records.

* Account files (`account_storage.py`, `fulfillment_config.py`, `automation.py`): single atomic replacements, used as steps of `ShopConnection`,
  `Operations` and `Users`; their validation is text processing.
* AI settings and providers (`ai_customer_service.py`, `platform_ai.py`, `user_ai_connection.py`): prompts and HTTP around external services with single-row saves.
* Registration of a Docker deployment and the import of an offline baseline; redemption codes and audit rows; the browser console;
  build and packaging scripts.

## 7. Plan

1. Proofs: one owner per running row of `JobQueue`.
2. `AccountFiles`: compensating writes over several files with validation, below `ShopConnection` and `Operations`.
3. The registration of a Docker deployment, redemption codes.
4. Liveness of the control plane: a claimed job ends, maintenance ends, under fairness of threads and lanes.
