-------------------------------- MODULE Users --------------------------------
(***************************************************************************)
(* Who may use the platform: the first administrator, registrations,       *)
(* sessions, passwords, what administrators do to other users, and the     *)
(* private directory that comes with every user and every shop             *)
(* (src/backend/db.py, app.py, bot_manager.py).                            *)
(*                                                                         *)
(* Each handler is a request thread of the API.  A handler's database      *)
(* statements are serialised by DB._lock and BEGIN IMMEDIATE; what happens *)
(* between two of them is not, and neither is the file system.  User ids   *)
(* are given in order and, because a rollback also takes back the          *)
(* AUTOINCREMENT counter, given again after a failed registration.         *)
(***************************************************************************)
EXTENDS Naturals, FiniteSets

CONSTANTS
    Handlers,       \* request threads
    MaxUsers,       \* bound: user ids 1..MaxUsers
    MaxTokens,      \* bound: sessions ever opened
    MaxSessions,    \* SAAS_MAX_ACTIVE_SESSIONS
    FreeTries,      \* failed logins before the first delay
    MaxCalls,       \* bound: requests
    MaxUpsets       \* bound: storage errors and crashes

ASSUME UsersAssumption ==
    /\ {MaxUsers, MaxSessions, FreeTries} \subseteq Nat \ {0}
    /\ {MaxTokens, MaxCalls, MaxUpsets} \subseteq Nat

VARIABLES
    users,          \* users, with the marker of their default shop
    homes,          \* the users' private directories
    setup,          \* bootstrap_state, registration_open and the deployment
    tokens,         \* sessions, by number in the order they were opened
    fails,          \* login_failures of the usernames, and of the client
    shop,           \* one further shop of user 1 and its directory
    desks,          \* what each handler is doing
    toll            \* requests and upsets so far

userVars == <<users, homes, setup, tokens, fails, shop, desks, toll>>

UserIds == DOMAIN users
TokenIds == DOMAIN tokens
Client == 0

NoUser == [role |-> "none", enabled |-> FALSE, pw |-> 0, legacy |-> FALSE,
           marked |-> FALSE]
NoToken == [user |-> 0, basis |-> 0, late |-> FALSE]
NoShop == [row |-> "none", dir |-> "none", marked |-> FALSE]
Vacant == [pc |-> "idle", user |-> 0, basis |-> 0, legacy |-> FALSE, token |-> 0,
           made |-> FALSE]

Rows == {u \in UserIds : users[u].role # "none"}
NextId == Cardinality(Rows) + 1
Admins == {u \in Rows : users[u].role = "admin" /\ users[u].enabled}
Sessions(u) == {k \in TokenIds : tokens[k].user = u}

Serve(h, desk) ==
    /\ desks[h].pc = "idle"
    /\ toll.calls < MaxCalls
    /\ toll' = [toll EXCEPT !.calls = @ + 1]
    /\ desks' = [desks EXCEPT ![h] = desk]

Proceed(h, pc) == desks' = [desks EXCEPT ![h].pc = pc]
Respond(h) == desks' = [desks EXCEPT ![h] = Vacant]
Upset == toll.upsets < MaxUpsets /\ toll' = [toll EXCEPT !.upsets = @ + 1]

-------------------------------------------------------------------------------
(* Registration.                                                           *)

(* first_registration_available: nobody has, and no token guards, the      *)
(* installation.                                                           *)
FirstAvailable == setup.state = "pending" /\ ~setup.bound /\ Rows = {}

(* POST /api/auth/register, before its transaction.                        *)
Register(h) ==
    /\ setup.allowed \/ (~setup.guarded /\ FirstAvailable)
    /\ Serve(h, [Vacant EXCEPT !.pc = "register"])
    /\ UNCHANGED <<users, homes, setup, tokens, fails, shop>>

(* configure_bootstrap: the digest of the token is bound on its first use, *)
(* and never replaced.                                                     *)
Configured == setup' = [setup EXCEPT !.bound = TRUE]

(* POST /api/auth/bootstrap with the right token, before its transaction.  *)
Bootstrap(h) ==
    /\ setup.guarded /\ setup.state = "pending" /\ Rows = {}
    /\ Serve(h, [Vacant EXCEPT !.pc = "bootstrap"])
    /\ Configured
    /\ UNCHANGED <<users, homes, tokens, fails, shop>>

(* The role a transaction gives its user, "none" when it refuses:          *)
(* bootstrap_user, register_user for the first user and for the others.    *)
BootstrapRole ==
    IF setup.state = "pending" /\ setup.bound /\ Rows = {} THEN "admin" ELSE "none"

RegisterRole ==
    IF Rows = {} THEN IF ~setup.guarded /\ FirstAvailable THEN "admin" ELSE "none"
                 ELSE IF setup.allowed /\ setup.open THEN "owner" ELSE "none"

Role(h) == IF desks[h].pc = "bootstrap" THEN BootstrapRole ELSE RegisterRole

NewUser(role) == [NoUser EXCEPT !.role = role, !.enabled = TRUE, !.pw = 1,
                                !.marked = TRUE]

(* initialize_new_user_storage refuses a directory with anything but the   *)
(* initial files in it.                                                    *)
Initializable(u) == homes[u] \in {"none", "residue", "initial"}

(* ensure_dir for a directory that is not there, what is missing added to  *)
(* one that is.                                                            *)
Initialized(u) == homes' = [homes EXCEPT ![u] = "initial"]

(* The whole transaction.  The user and the role are decided, the row is   *)
(* inserted and the directory prepared before the commit; the directory    *)
(* stays when the commit does not happen, and the request remembers        *)
(* whether it made it.                                                     *)
Enrol(h) ==
    LET u == NextId
        role == Role(h)
        made == homes[u] = "none"
        abandons == desks' = [desks EXCEPT ![h] = IF made
                       THEN [Vacant EXCEPT !.pc = "discard", !.user = u] ELSE Vacant]
    IN  /\ desks[h].pc \in {"register", "bootstrap"} /\ u \in UserIds
        /\ \/ /\ role = "none" \/ Rows # {} \/ ~Initializable(u)
              /\ Respond(h)
              /\ UNCHANGED <<users, homes, setup, toll>>
           \/ /\ role # "none" /\ Initializable(u)
              /\ users' = [users EXCEPT ![u] = NewUser(role)]
              /\ setup' = IF role = "admin" THEN [setup EXCEPT !.state = "consumed",
                                                               !.bound = FALSE]
                                            ELSE setup
              /\ Initialized(u)
              /\ Respond(h)
              /\ UNCHANGED toll
           \/ /\ role # "none" /\ Initializable(u) /\ Upset
              /\ \/ Respond(h) /\ (UNCHANGED homes \/ (made /\ homes' = [homes EXCEPT ![u] = "residue"]))
                 \/ Initialized(u) /\ abandons
              /\ UNCHANGED <<users, setup>>
        /\ UNCHANGED <<tokens, fails, shop>>

(* discard_unregistered_storage: only while nobody has the id, and only    *)
(* a directory whose files have the initial names.                         *)
DiscardableMutant(u) == homes[u] \in {"residue", "initial", "edited"}

Discardable(u) == u \notin Rows /\ homes[u] \in {"residue", "initial", "edited"}

Discard(h) ==
    LET u == desks[h].user
    IN  /\ desks[h].pc = "discard"
        /\ \/ /\ homes' = IF Discardable(u) THEN [homes EXCEPT ![u] = "none"] ELSE homes
              /\ UNCHANGED toll
           \/ Upset /\ UNCHANGED homes
        /\ Respond(h)
        /\ UNCHANGED <<users, setup, tokens, fails, shop>>

-------------------------------------------------------------------------------
(* Sessions.                                                               *)

(* POST /api/auth/login: the rate and the user's row are read; the         *)
(* password is then compared with what was read.  After FreeTries failures *)
(* every attempt is refused for a while, which may or may not have passed. *)
Delayed(u) == fails[u] >= FreeTries \/ fails[Client] >= FreeTries

Login(h, u, right) ==
    /\ u \in Rows
    /\ \/ /\ right /\ users[u].enabled
          /\ Serve(h, [Vacant EXCEPT !.pc = "login", !.user = u,
                          !.basis = users[u].pw, !.legacy = users[u].legacy])
       \/ /\ ~right \/ ~users[u].enabled \/ Delayed(u)
          /\ Serve(h, [Vacant EXCEPT !.pc = "refuse", !.user = u])
    /\ UNCHANGED <<users, homes, setup, tokens, fails, shop>>

(* record_login_failure, for the username and for the client.              *)
Refuse(h) ==
    /\ desks[h].pc = "refuse"
    /\ fails' = [s \in DOMAIN fails |->
                    IF s \in {desks[h].user, Client} /\ fails[s] < FreeTries
                    THEN fails[s] + 1 ELSE fails[s]]
    /\ Respond(h)
    /\ UNCHANGED <<users, homes, setup, tokens, shop, toll>>

(* initialize_unused_default_storage: a directory that was never marked    *)
(* and holds nothing of its own is completed; a storage error ends the     *)
(* login.                                                                  *)
Repair(h) ==
    LET u == desks[h].user
        unused == users[u].enabled /\ ~users[u].marked /\ Initializable(u)
    IN  /\ desks[h].pc = "login"
        /\ \/ /\ users' = IF unused THEN [users EXCEPT ![u].marked = TRUE] ELSE users
              /\ IF unused THEN Initialized(u) ELSE UNCHANGED homes
              /\ Proceed(h, "clear") /\ UNCHANGED toll
           \/ Upset /\ Respond(h) /\ UNCHANGED <<users, homes>>
        /\ UNCHANGED <<setup, tokens, fails, shop>>

(* upgrade_password_hash: an old hash is replaced if it is still the one   *)
(* that was compared.                                                      *)
Upgradable(h, u) ==
    /\ desks[h].legacy /\ users[u].legacy /\ users[u].enabled
    /\ users[u].pw = desks[h].basis

(* clear_login_failures, and the upgrade.                                  *)
Clear(h) ==
    LET u == desks[h].user
    IN  /\ desks[h].pc = "clear"
        /\ fails' = [fails EXCEPT ![u] = 0]
        /\ users' = IF Upgradable(h, u)
                    THEN [users EXCEPT ![u].legacy = FALSE] ELSE users
        /\ Proceed(h, "token")
        /\ UNCHANGED <<homes, setup, tokens, shop, toll>>

(* create_token: the session is opened for the user as read at the start,  *)
(* and the oldest ones beyond the limit are closed.                        *)
CreateToken(h) ==
    LET u == desks[h].user
        k == Cardinality({j \in TokenIds : \E i \in TokenIds : i >= j /\ tokens[i].basis # 0}) + 1
        opened == [tokens EXCEPT ![k] =
                      [user |-> u, basis |-> desks[h].basis,
                       late |-> ~users[u].enabled \/ users[u].pw # desks[h].basis]]
        newer(j) == {i \in TokenIds : i > j /\ opened[i].user = u}
    IN  /\ desks[h].pc = "token" /\ k \in TokenIds
        /\ tokens' = [j \in TokenIds |->
              IF opened[j].user = u /\ Cardinality(newer(j)) >= MaxSessions
              THEN [opened[j] EXCEPT !.user = 0] ELSE opened[j]]
        /\ Respond(h)
        /\ UNCHANGED <<users, homes, setup, fails, shop, toll>>

Closed(ks) == [k \in TokenIds |-> IF k \in ks THEN [tokens[k] EXCEPT !.user = 0]
                                              ELSE tokens[k]]

(* A request with a session: an expired token or one of a disabled user is *)
(* closed, any other lets the request in with the row as it is now.        *)
Enter(h, k, pc) ==
    LET u == tokens[k].user
    IN  /\ u # 0
        /\ \/ /\ users[u].enabled
              /\ Serve(h, [Vacant EXCEPT !.pc = pc, !.user = u, !.token = k,
                              !.basis = users[u].pw, !.legacy = users[u].legacy])
              /\ UNCHANGED tokens
           \/ Serve(h, Vacant) /\ tokens' = Closed({k})
        /\ UNCHANGED <<users, homes, setup, fails, shop>>

(* POST /api/auth/logout                                                   *)
Logout(h) ==
    /\ desks[h].pc = "logout"
    /\ tokens' = Closed({desks[h].token})
    /\ Respond(h)
    /\ UNCHANGED <<users, homes, setup, fails, shop, toll>>

(* POST /api/auth/password: if the hash is the one compared, it is         *)
(* replaced and every other session closed.                                *)
RevokedMutant(u, k) == {}

Revoked(u, k) == Sessions(u) \ {k}

ChangePassword(h) ==
    LET u == desks[h].user
        same == /\ users[u].enabled /\ users[u].pw = desks[h].basis
                /\ users[u].legacy = desks[h].legacy
    IN  /\ desks[h].pc = "password"
        /\ IF same
           THEN /\ users' = [users EXCEPT ![u].pw = @ + 1, ![u].legacy = FALSE]
                /\ tokens' = [k \in TokenIds |->
                      IF k \in Revoked(u, desks[h].token)
                      THEN [tokens[k] EXCEPT !.user = 0]
                      ELSE IF k = desks[h].token /\ tokens[k].user = u
                      THEN [tokens[k] EXCEPT !.basis = @ + 1] ELSE tokens[k]]
           ELSE UNCHANGED <<users, tokens>>
        /\ Respond(h)
        /\ UNCHANGED <<homes, setup, fails, shop, toll>>

-------------------------------------------------------------------------------
(* Administration.                                                         *)

(* require_platform_admin, with a session or, from the host itself, with   *)
(* the emergency token (user 0).                                           *)
Authorise(h, k) ==
    /\ k # 0 => tokens[k].user \in Admins
    /\ Serve(h, [Vacant EXCEPT !.pc = "admin", !.token = k,
                    !.user = IF k = 0 THEN 0 ELSE tokens[k].user])
    /\ UNCHANGED <<users, homes, setup, tokens, fails, shop>>

OthersMutant(u) == {v \in Rows \ {u} : users[v].role = "admin"}

(* update_platform_user counts the other enabled administrators.           *)
Others(u) == Admins \ {u}

(* A change ends the user's sessions; the last administrator stays.        *)
UpdatePlatformUser(u, role, enabled) ==
    LET removes == u \in Admins /\ (role # "admin" \/ ~enabled)
        changed == users[u].role # role \/ users[u].enabled # enabled
    IN  IF removes /\ Others(u) = {}
        THEN UNCHANGED <<users, tokens>>
        ELSE /\ users' = [users EXCEPT ![u].role = role, ![u].enabled = enabled]
             /\ tokens' = IF changed THEN Closed(Sessions(u)) ELSE tokens

(* PATCH /api/admin/users: not oneself.                                    *)
UpdateUser(h, u, role, enabled) ==
    /\ desks[h].pc = "admin" /\ u \in Rows /\ u # desks[h].user
    /\ UpdatePlatformUser(u, role, enabled)
    /\ Respond(h)
    /\ UNCHANGED <<homes, setup, fails, shop, toll>>

(* Revoking another user's sessions or one's other ones, unlocking a user, *)
(* opening or closing registration.                                        *)
RevokeSessions(h, u) ==
    /\ desks[h].pc = "admin" /\ u \in Rows
    /\ tokens' = Closed(Sessions(u) \ {IF u = desks[h].user THEN desks[h].token ELSE 0})
    /\ Respond(h)
    /\ UNCHANGED <<users, homes, setup, fails, shop, toll>>

Unlock(h, u) ==
    /\ desks[h].pc = "admin" /\ u \in Rows
    /\ fails' = [fails EXCEPT ![u] = 0]
    /\ Respond(h)
    /\ UNCHANGED <<users, homes, setup, tokens, shop, toll>>

SetRegistration(h, open) ==
    /\ desks[h].pc = "admin"
    /\ setup' = [setup EXCEPT !.open = open]
    /\ Respond(h)
    /\ UNCHANGED <<users, homes, tokens, fails, shop, toll>>

-------------------------------------------------------------------------------
(* A further shop: row, directory, runtime, marker; a failure on the way   *)
(* takes back the row and then the directory this request made.            *)

CreateShop(h) ==
    /\ desks[h].pc = "shop"
    /\ \/ /\ shop.row = "none"
          /\ shop' = [shop EXCEPT !.row = "new"] /\ Proceed(h, "dir")
       \/ UNCHANGED shop /\ Respond(h)
    /\ UNCHANGED <<users, homes, setup, tokens, fails, toll>>

(* ensure_dir(initialize=True) refuses a directory that exists.            *)
MakeDir(h) ==
    /\ desks[h].pc = "dir"
    /\ \/ /\ shop.dir = "none"
          /\ shop' = [shop EXCEPT !.dir = "initial"]
          /\ desks' = [desks EXCEPT ![h].pc = "runtime", ![h].made = TRUE]
          /\ UNCHANGED toll
       \/ shop.dir # "none" /\ Proceed(h, "undo") /\ UNCHANGED <<shop, toll>>
       \/ Upset /\ Proceed(h, "undo") /\ UNCHANGED shop
    /\ UNCHANGED <<users, homes, setup, tokens, fails>>

(* The waiting runtime is stored, and the shop is marked initialised.      *)
MarkShop(h) ==
    /\ desks[h].pc = "runtime"
    /\ \/ /\ shop' = IF shop.row = "none" THEN shop ELSE [shop EXCEPT !.marked = TRUE]
          /\ Respond(h) /\ UNCHANGED toll
       \/ Upset /\ Proceed(h, "undo") /\ UNCHANGED shop
    /\ UNCHANGED <<users, homes, setup, tokens, fails>>

(* remove_unconfigured_shop_account                                        *)
Removable == shop.row = "new"

UndoShop(h) ==
    /\ desks[h].pc = "undo"
    /\ IF Removable
       THEN /\ shop' = [shop EXCEPT !.row = "none", !.marked = FALSE]
            /\ IF desks[h].made THEN Proceed(h, "undo_dir") ELSE Respond(h)
       ELSE UNCHANGED shop /\ Respond(h)
    /\ UNCHANGED <<users, homes, setup, tokens, fails, toll>>

(* discard_initialized_dir: not a directory with files of a connected shop *)
(* in it.                                                                  *)
UndoDir(h) ==
    /\ desks[h].pc = "undo_dir"
    /\ shop' = [shop EXCEPT !.dir = IF @ = "initial" THEN "none" ELSE @]
    /\ Respond(h)
    /\ UNCHANGED <<users, homes, setup, tokens, fails, toll>>

-------------------------------------------------------------------------------
(* A user works: the directory is edited or filled, the new shop is        *)
(* connected, which also writes to its directory.                          *)
Work(u, how) ==
    /\ users[u].marked /\ homes[u] \in {"initial", "edited"}
    /\ homes' = [homes EXCEPT ![u] = how]
    /\ UNCHANGED <<users, setup, tokens, fails, shop, desks, toll>>

Connect ==
    /\ shop.row = "new" /\ shop.dir # "none"
    /\ shop' = [shop EXCEPT !.row = "connected", !.dir = "data"]
    /\ UNCHANGED <<users, homes, setup, tokens, fails, desks, toll>>

(* The API process is killed, a registration in its transaction too.       *)
CrashApi ==
    LET u == NextId
        enrolling == \E h \in Handlers :
                        desks[h].pc \in {"register", "bootstrap"} /\ Role(h) # "none"
    IN  /\ Upset
        /\ desks' = [h \in Handlers |-> Vacant]
        /\ \/ UNCHANGED homes
           \/ /\ enrolling /\ u \in UserIds /\ homes[u] \in {"none", "residue"}
              /\ \E how \in {"residue", "initial"} : homes' = [homes EXCEPT ![u] = how]
        /\ UNCHANGED <<users, setup, tokens, fails, shop>>

-------------------------------------------------------------------------------
(* A fresh installation, open or guarded by a bootstrap token, or one with *)
(* two administrators, each with a session, the second from before         *)
(* directories were marked and with an old password hash.  The user ids    *)
(* and the handlers are the parameters: composed modules pass none when    *)
(* nothing happens to users.                                               *)
UsersInit(ids, nums, hs) ==
    /\ \E guarded, allowed \in BOOLEAN :
          \/ /\ setup = [state |-> "pending", bound |-> FALSE, open |-> TRUE,
                         guarded |-> guarded, allowed |-> allowed]
             /\ users = [u \in ids |-> NoUser]
             /\ homes = [u \in ids |-> "none"]
             /\ tokens = [k \in nums |-> NoToken]
          \/ /\ ~guarded /\ ~allowed
             /\ setup = [state |-> "consumed", bound |-> FALSE, open |-> FALSE,
                         guarded |-> FALSE, allowed |-> FALSE]
             /\ users = [u \in ids |->
                   IF u > 2 THEN NoUser
                   ELSE [NewUser("admin") EXCEPT !.marked = (u = 1), !.legacy = (u = 2)]]
             /\ homes = [u \in ids |->
                   CASE u = 1 -> "data" [] u = 2 -> "residue" [] OTHER -> "none"]
             /\ tokens = [k \in nums |-> IF k \in ids \cap {1, 2}
                                         THEN [NoToken EXCEPT !.user = k, !.basis = 1]
                                         ELSE NoToken]
    /\ fails = [s \in ids \cup {Client} |-> 0]
    /\ shop = NoShop
    /\ desks = [h \in hs |-> Vacant]
    /\ toll = [calls |-> 0, upsets |-> 0]

Handle(h) ==
    \/ Register(h) \/ Bootstrap(h) \/ Enrol(h) \/ Discard(h)
    \/ \E u \in UserIds, right \in BOOLEAN : Login(h, u, right)
    \/ Refuse(h) \/ Repair(h) \/ Clear(h) \/ CreateToken(h)
    \/ \E k \in TokenIds, pc \in {"logout", "password", "shop"} : Enter(h, k, pc)
    \/ Logout(h) \/ ChangePassword(h)
    \/ \E k \in TokenIds \cup {0} : Authorise(h, k)
    \/ \E u \in UserIds, role \in {"owner", "admin"}, enabled \in BOOLEAN :
          UpdateUser(h, u, role, enabled)
    \/ \E u \in UserIds : RevokeSessions(h, u) \/ Unlock(h, u)
    \/ \E open \in BOOLEAN : SetRegistration(h, open)
    \/ CreateShop(h) \/ MakeDir(h) \/ MarkShop(h) \/ UndoShop(h) \/ UndoDir(h)

UsersNext ==
    \/ \E h \in Handlers : Handle(h)
    \/ \E u \in UserIds, how \in {"edited", "data"} : Work(u, how)
    \/ Connect
    \/ CrashApi

-------------------------------------------------------------------------------
UsersTypeOK ==
    /\ users \in [UserIds -> [role : {"none", "owner", "admin"}, enabled : BOOLEAN,
                              pw : 0..MaxCalls + 1, legacy : BOOLEAN, marked : BOOLEAN]]
    /\ homes \in [UserIds -> {"none", "residue", "initial", "edited", "data"}]
    /\ tokens \in [TokenIds -> [user : 0..MaxUsers, basis : 0..MaxCalls + 1, late : BOOLEAN]]
    /\ fails \in [UserIds \cup {Client} -> 0..FreeTries]
    /\ shop \in [row : {"none", "new", "connected"}, dir : {"none", "initial", "data"}, marked : BOOLEAN]

(***************************************************************************)
(* Once the platform has been claimed it always has an administrator who   *)
(* can log in, even when administrators demote and disable one another at  *)
(* the same time, and it is never claimed twice.                           *)
(***************************************************************************)
AdminRemains == (setup.state = "consumed" <=> Rows # {}) /\ (Rows # {} => Admins # {})

(***************************************************************************)
(* The directory of an initialised user or shop is never taken away by     *)
(* another request's compensation, although ids and keys are used again    *)
(* after a failure and the directory is removed after the row.             *)
(***************************************************************************)
StorageIsKept ==
    /\ \A u \in UserIds : users[u].marked => homes[u] \notin {"none", "residue"}
    /\ shop.marked \/ shop.row = "connected" => shop.dir # "none"

(***************************************************************************)
(* A session that outlives a change of password or a disabled user is one  *)
(* whose login had compared the old row before the change; nobody has more *)
(* sessions than allowed.                                                  *)
(***************************************************************************)
RevocationHolds ==
    /\ \A k \in TokenIds : tokens[k].user # 0 =>
          \/ tokens[k].late
          \/ /\ users[tokens[k].user].enabled
             /\ tokens[k].basis = users[tokens[k].user].pw
    /\ \A u \in UserIds : Cardinality(Sessions(u)) <= MaxSessions
===============================================================================
