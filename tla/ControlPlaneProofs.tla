------------------------------ MODULE ControlPlaneProofs ---------------------------
(***************************************************************************)
(* Users, sessions and administration, the connection of a shop, the runs  *)
(* of the operations assistant and the probe for updates, for any number   *)
(* of users, sessions, threads, logins, requests, tool calls, API          *)
(* processes, claims, failed writes and crashes.                           *)
(*                                                                         *)
(* UsersInv is inductive.  Its parts are the types, what a request and a   *)
(* session know of their user (DesksKnown, SessionsKnown), the properties  *)
(* themselves, and for the further shop of a user who may take away what   *)
(* (ShopOK): at most one request has made the shop's directory, and while  *)
(* one has, the shop is not marked.  User ids are given in order           *)
(* (Numbered), so the id of a registration under way is nobody's.          *)
(*                                                                         *)
(* ConnectionInv is inductive too.  ReservedOK is about the reservation: a *)
(* task past acquiring it owns it, under its own name or its login's       *)
(* (Apart keeps two tasks from sharing a login), a login in flight or      *)
(* being consumed has its task.  FilesOK is about the writes: what a       *)
(* replacement found before it began, and which of the files already       *)
(* belong to the new seller at each step of writing and putting back.      *)
(*                                                                         *)
(* OpsInv is the third.  There is one planned step per intent, and its     *)
(* change was not in the file it was planned from (StepsOK); a change in   *)
(* the file is there once, has been marked and is vouched for by a call    *)
(* (ConfigOK); one call counts a step's success (CountsOK); and the lane   *)
(* still finds the file as it was planned from when it writes (CallOK).    *)
(*                                                                         *)
(* ProbeInv is the last.  A coordinator whose claim is still the row's     *)
(* (Mine) is the only one that can store something, so nothing was stored  *)
(* since it asked, and what it read is no older than what is stored.  A    *)
(* generation is never given out twice, so the attempt that stop()         *)
(* withdrew is the one that is cancelled.                                  *)
(***************************************************************************)
EXTENDS ControlPlane, FiniteSetTheorems, WellFoundedInduction, TLAPS

-------------------------------------------------------------------------------
(* The invariant.                                                          *)

UserRow == [role : {"none", "owner", "admin"}, enabled : BOOLEAN, pw : Nat,
            legacy : BOOLEAN, marked : BOOLEAN]
TokenRow == [user : 0..MaxUsers, basis : Nat, late : BOOLEAN]
Homes == {"none", "residue", "initial", "edited", "data"}
SetupRow == [state : {"pending", "consumed"}, bound : BOOLEAN, open : BOOLEAN,
             guarded : BOOLEAN, allowed : BOOLEAN]
FurtherShop == [row : {"none", "new", "connected"}, dir : {"none", "initial", "data"},
                marked : BOOLEAN]
DeskPcs == {"idle", "register", "bootstrap", "discard", "login", "refuse", "clear", "token",
            "logout", "password", "admin", "shop", "dir", "runtime", "undo", "undo_dir"}
DeskRow == [pc : DeskPcs, user : 0..MaxUsers, basis : Nat, legacy : BOOLEAN,
            token : 0..MaxTokens, made : BOOLEAN]

UsersTyped ==
    /\ users \in [1..MaxUsers -> UserRow]
    /\ homes \in [1..MaxUsers -> Homes]
    /\ setup \in SetupRow
    /\ tokens \in [1..MaxTokens -> TokenRow]
    /\ fails \in [0..MaxUsers -> Nat]
    /\ shop \in FurtherShop
    /\ desks \in [Handlers -> DeskRow]
    /\ toll \in [calls : Nat, upsets : Nat]

\* Ids are given in order, and what nobody has is empty.
Numbered ==
    /\ \E n \in Nat : Rows = 1..n
    /\ \A u \in 1..MaxUsers : u \notin Rows => users[u] = NoUser

\* Requests that act on the user they read, and sessions, have a user.
AtUser == {"login", "clear", "token", "logout", "password"}

DesksKnown == \A h \in Handlers : desks[h].pc \in AtUser => desks[h].user \in Rows
SessionsKnown == \A k \in 1..MaxTokens : tokens[k].user # 0 => tokens[k].user \in Rows

\* The request that made the shop's directory.
MakerOK(row) ==
    /\ row.made => row.pc \in {"runtime", "undo", "undo_dir"}
    /\ row.pc \in {"runtime", "undo_dir"} => row.made

ShopOK ==
    /\ shop.row = "connected" => shop.dir = "data"
    /\ shop.marked => shop.dir # "none" /\ \A h \in Handlers : ~desks[h].made
    /\ \A h \in Handlers : MakerOK(desks[h]) /\ (desks[h].made => shop.dir # "none")
    /\ \A g, h \in Handlers : desks[g].made /\ desks[h].made => g = h

HomesOK == \A u \in 1..MaxUsers : users[u].marked => homes[u] \notin {"none", "residue"}

SessionsOK ==
    /\ \A k \in 1..MaxTokens : tokens[k].user # 0 =>
          \/ tokens[k].late
          \/ /\ users[tokens[k].user].enabled
             /\ tokens[k].basis = users[tokens[k].user].pw
    /\ \A u \in 1..MaxUsers : Cardinality(Sessions(u)) <= MaxSessions

UsersInv ==
    /\ UsersTyped
    /\ Numbered
    /\ SessionsKnown
    /\ AdminRemains
    /\ HomesOK
    /\ SessionsOK
    /\ DesksKnown
    /\ ShopOK

-------------------------------------------------------------------------------
(* Sets and rows.                                                          *)

\* Of the numbers in a finite set fewer than m of which are larger, there are at most m.
LEMMA NewestAreFew ==
    ASSUME NEW S \in SUBSET Nat, IsFiniteSet(S), NEW m \in Nat
    PROVE  Cardinality({j \in S : Cardinality({i \in S : i > j}) < m}) <= m
<1> DEFINE T == {j \in S : Cardinality({i \in S : i > j}) < m}
<1>1. CASE T = {}
  <2>1. Cardinality(T) = 0
    BY <1>1, FS_EmptySet
  <2> HIDE DEF T
  <2>2. Cardinality(T) <= m
    BY <2>1
  <2> QED BY <2>2 DEF T
<1>2. CASE T # {}
  <2> DEFINE Less == {ss \in Nat \X Nat : ss[1] < ss[2]}
  <2>1. IsWellFoundedOn(Less, Nat)
    BY NatLessThanWellFounded DEF OpToRel
  <2>2. T \subseteq Nat /\ \A k, l \in Nat : k < l => <<k, l>> \in Less
    OBVIOUS
  <2> HIDE DEF T, Less
  <2>3. \E x \in T : \A y \in T : ~(<<y, x>> \in Less)
    <3>1. IsWellFoundedOn(Less, Nat) /\ T \subseteq Nat /\ T # {}
      BY <1>2, <2>1, <2>2
    <3> QED BY <3>1, WFMin, Zenon
  <2>4. PICK l \in T : \A k \in T : ~(<<k, l>> \in Less)
    BY <2>3
  <2>5. l \in Nat /\ \A k \in T : k \in Nat /\ k >= l
    <3>1. \A k \in T : k \in Nat
      BY <2>2
    <3>2. \A k \in T : ~(k < l)
      BY <2>2, <2>4, <3>1
    <3> QED BY <3>1, <3>2
  <2> USE DEF T
  <2> DEFINE U == {i \in S : i > l}
  <2>6. T \ {l} \subseteq U /\ U \subseteq S /\ T \subseteq S
    <3>1. \A k \in T \ {l} : k \in S /\ k > l
      BY <2>5
    <3> QED BY <3>1
  <2>7. IsFiniteSet(U) /\ IsFiniteSet(T)
    BY <2>6, FS_Subset
  <2>8. IsFiniteSet(T \ {l}) /\ Cardinality(T) = Cardinality(T \ {l}) + 1
    <3>1. Cardinality(T \ {l}) = Cardinality(T) - 1 /\ IsFiniteSet(T \ {l})
      BY <2>5, <2>7, FS_RemoveElement
    <3>2. Cardinality(T) \in Nat
      BY <2>7, FS_CardinalityType
    <3> QED BY <3>1, <3>2
  <2>9. Cardinality(T \ {l}) <= Cardinality(U)
    BY <2>6, <2>7, FS_Subset
  <2>10. Cardinality(U) < m
    BY <2>5
  <2>11. Cardinality(U) \in Nat /\ Cardinality(T \ {l}) \in Nat
    BY <2>7, <2>8, FS_CardinalityType
  <2> HIDE DEF T, U
  <2>12. Cardinality(T) <= m
    BY <2>8, <2>9, <2>10, <2>11
  <2> QED BY <2>12 DEF T
<1> QED BY <1>1, <1>2

\* The next id is the one after the last that is given, and nobody's.
LEMMA NextIdIsFree ==
    ASSUME Numbered
    PROVE  NextId \in Nat \ Rows /\ NextId # 0 /\ Rows \cup {NextId} = 1..NextId
<1>1. PICK n \in Nat : Rows = 1..n
  BY DEF Numbered
<1>2. Cardinality(Rows) = n
  BY <1>1, FS_Interval
<1>3. NextId = n + 1
  BY <1>2 DEF NextId
<1> QED BY <1>1, <1>3

-------------------------------------------------------------------------------
(* What the helpers of the requests do.                                    *)

\* What the bounds are.
LEMMA BoundsAre ==
    /\ MaxUsers \in Nat /\ MaxUsers > 0 /\ MaxTokens \in Nat
    /\ MaxSessions \in Nat /\ MaxSessions > 0
    /\ 0 \in 0..MaxUsers /\ 0 \in 0..MaxTokens
    /\ IsFiniteSet(1..MaxTokens)
<1>1. /\ MaxUsers \in Nat /\ MaxUsers > 0 /\ MaxTokens \in Nat
      /\ MaxSessions \in Nat /\ MaxSessions > 0
  BY UsersAssumption
<1>2. 0 \in 0..MaxUsers /\ 0 \in 0..MaxTokens
  BY <1>1
<1>3. IsFiniteSet(1..MaxTokens)
  BY <1>1, FS_Interval
<1> QED BY <1>1, <1>2, <1>3

\* The ids and the numbers of the sessions do not change.
LEMMA IdsStay ==
    ASSUME UsersTyped
    PROVE  UserIds = 1..MaxUsers /\ TokenIds = 1..MaxTokens
BY DEF UsersTyped, UserIds, TokenIds

\* A request that moves on to a row that neither makes nor owns the shop's directory
\* keeps what is known of the requests and of the shop.
LEMMA DeskMoves ==
    ASSUME UsersTyped, DesksKnown, ShopOK, NEW h \in Handlers, NEW row \in DeskRow,
           desks' = [desks EXCEPT ![h] = row], Rows \subseteq Rows', UNCHANGED shop,
           ~row.made, row.pc \notin {"runtime", "undo_dir"},
           row.pc \in AtUser => row.user \in Rows'
    PROVE  desks' \in [Handlers -> DeskRow] /\ DesksKnown' /\ ShopOK'
<1>1. /\ desks' \in [Handlers -> DeskRow]
      /\ desks'[h] = row /\ \A g \in Handlers \ {h} : desks'[g] = desks[g]
  BY DEF UsersTyped
<1>2. DesksKnown'
  BY <1>1 DEF DesksKnown
<1>3. \A g \in Handlers : MakerOK(desks[g])' /\ (desks'[g].made => desks[g].made)
  BY <1>1 DEF ShopOK, MakerOK
<1>4. ShopOK'
  BY <1>3 DEF ShopOK
<1> QED BY <1>1, <1>2, <1>4

\* A new request.
LEMMA ServeKeeps ==
    ASSUME UsersTyped, DesksKnown, ShopOK, NEW h \in Handlers, NEW row \in DeskRow,
           Serve(h, row), UNCHANGED <<users, shop>>,
           ~row.made, row.pc \notin {"runtime", "undo_dir"},
           row.pc \in AtUser => row.user \in Rows
    PROVE  /\ desks' \in [Handlers -> DeskRow] /\ DesksKnown' /\ ShopOK'
           /\ toll' \in [calls : Nat, upsets : Nat]
<1>1. desks' = [desks EXCEPT ![h] = row] /\ toll' \in [calls : Nat, upsets : Nat]
  BY DEF Serve, UsersTyped
<1>2. Rows' = Rows
  BY DEF Rows, UserIds
<1> QED BY <1>1, <1>2, DeskMoves

\* The end of a request.
LEMMA RespondKeeps ==
    ASSUME UsersTyped, DesksKnown, ShopOK, NEW h \in Handlers, Respond(h),
           Rows \subseteq Rows', UNCHANGED shop
    PROVE  desks' \in [Handlers -> DeskRow] /\ DesksKnown' /\ ShopOK'
<1>1. Vacant \in DeskRow /\ ~Vacant.made /\ Vacant.pc = "idle"
  BY BoundsAre DEF Vacant, DeskRow, DeskPcs
<1>2. desks' = [desks EXCEPT ![h] = Vacant]
  BY DEF Respond
<1> QED BY <1>1, <1>2, DeskMoves DEF AtUser

\* A storage error or a crash is counted.
LEMMA UpsetIsCounted ==
    ASSUME UsersTyped, Upset PROVE toll' \in [calls : Nat, upsets : Nat]
BY DEF Upset, UsersTyped

\* Closing sessions only takes sessions away.
LEMMA ClosedIs ==
    ASSUME UsersTyped, NEW ks, tokens' = Closed(ks)
    PROVE  /\ tokens' \in [1..MaxTokens -> TokenRow]
           /\ \A k \in 1..MaxTokens :
                 /\ k \in ks => tokens'[k].user = 0
                 /\ k \notin ks => tokens'[k] = tokens[k]
           /\ \A u \in 1..MaxUsers : Sessions(u)' \subseteq Sessions(u)
<1>1. TokenIds = 1..MaxTokens
  BY IdsStay
<1>2. \A k \in 1..MaxTokens : /\ tokens[k] \in TokenRow
                              /\ [tokens[k] EXCEPT !.user = 0] \in TokenRow
                              /\ [tokens[k] EXCEPT !.user = 0].user = 0
  BY BoundsAre DEF UsersTyped, TokenRow
<1>3. tokens' \in [1..MaxTokens -> TokenRow]
  BY <1>1, <1>2 DEF Closed
<1>4. \A k \in 1..MaxTokens :
         /\ k \in ks => tokens'[k].user = 0
         /\ k \notin ks => tokens'[k] = tokens[k]
  BY <1>1, <1>2 DEF Closed
<1>5. \A u \in 1..MaxUsers : Sessions(u)' \subseteq Sessions(u)
  BY <1>1, <1>3, <1>4 DEF Sessions, TokenIds
<1> QED BY <1>3, <1>4, <1>5

\* Fewer sessions are within the limit too.
LEMMA FewerAreFew ==
    ASSUME UsersTyped, SessionsOK, NEW u \in 1..MaxUsers, Sessions(u)' \subseteq Sessions(u)
    PROVE  Cardinality(Sessions(u)') <= MaxSessions
<1>1. Sessions(u) \subseteq 1..MaxTokens
  BY IdsStay DEF Sessions
<1>2. IsFiniteSet(Sessions(u)) /\ IsFiniteSet(Sessions(u)')
  <2>1. Sessions(u)' \subseteq 1..MaxTokens
    BY <1>1
  <2> QED BY <1>1, <2>1, FS_Subset, BoundsAre
<1>3. Cardinality(Sessions(u)') <= Cardinality(Sessions(u))
  BY <1>2, FS_Subset
<1>4. /\ Cardinality(Sessions(u)') \in Nat /\ Cardinality(Sessions(u)) \in Nat
      /\ MaxSessions \in Nat
  BY <1>2, FS_CardinalityType, BoundsAre
<1>5. Cardinality(Sessions(u)) <= MaxSessions
  BY DEF SessionsOK
<1> QED BY <1>3, <1>4, <1>5

-------------------------------------------------------------------------------
(* Steps that leave users, directories and sessions alone.                 *)

\* Users, directories and sessions that do not change stay in order.
LEMMA UsersRest ==
    ASSUME UsersInv, UNCHANGED <<users, homes, tokens>>, setup' \in SetupRow,
           setup'.state = setup.state, fails' \in [0..MaxUsers -> Nat],
           shop' \in FurtherShop, desks' \in [Handlers -> DeskRow],
           toll' \in [calls : Nat, upsets : Nat], DesksKnown', ShopOK'
    PROVE  UsersInv'
<1>1. UsersTyped'
  BY DEF UsersInv, UsersTyped
<1>2. Rows' = Rows /\ Admins' = Admins
  BY DEF Rows, Admins, UserIds
<1>3. \A u \in 1..MaxUsers : Sessions(u)' = Sessions(u)
  BY DEF Sessions, TokenIds
<1>4. Numbered' /\ SessionsKnown' /\ AdminRemains' /\ HomesOK'
  BY <1>2 DEF UsersInv, Numbered, SessionsKnown, AdminRemains, HomesOK
<1>5. SessionsOK'
  BY <1>3 DEF UsersInv, SessionsOK
<1> QED BY <1>1, <1>4, <1>5 DEF UsersInv

\* The first step of a request, and the requests that only count failures or open and
\* close registration.
LEMMA RequestsKeep ==
    ASSUME UsersInv, NEW h \in Handlers,
           \/ Register(h) \/ Bootstrap(h) \/ Refuse(h)
           \/ \E u \in UserIds, right \in BOOLEAN : Login(h, u, right)
           \/ \E k \in TokenIds \cup {0} : Authorise(h, k)
           \/ \E u \in UserIds : Unlock(h, u)
           \/ \E open \in BOOLEAN : SetRegistration(h, open)
    PROVE  UsersInv'
<1>1. UsersTyped /\ DesksKnown /\ ShopOK /\ SessionsKnown
  BY DEF UsersInv
<1>2. /\ UserIds = 1..MaxUsers /\ TokenIds = 1..MaxTokens
      /\ setup \in SetupRow /\ fails \in [0..MaxUsers -> Nat] /\ shop \in FurtherShop
      /\ toll \in [calls : Nat, upsets : Nat]
      /\ \A u \in 1..MaxUsers : users[u] \in UserRow
      /\ \A k \in 1..MaxTokens : tokens[k] \in TokenRow
  BY <1>1, IdsStay DEF UsersTyped
<1>3. Vacant \in DeskRow /\ ~Vacant.made
  BY BoundsAre DEF Vacant, DeskRow, DeskPcs
<1>4. CASE Register(h)
  <2>1. [Vacant EXCEPT !.pc = "register"] \in DeskRow
    BY BoundsAre DEF Vacant, DeskRow, DeskPcs
  <2>2. /\ desks' \in [Handlers -> DeskRow] /\ DesksKnown' /\ ShopOK'
        /\ toll' \in [calls : Nat, upsets : Nat]
    BY <1>1, <1>4, <2>1, ServeKeeps DEF Register, Vacant, AtUser
  <2> QED BY <1>2, <1>4, <2>2, UsersRest DEF Register
<1>5. CASE Bootstrap(h)
  <2>1. [Vacant EXCEPT !.pc = "bootstrap"] \in DeskRow
    BY BoundsAre DEF Vacant, DeskRow, DeskPcs
  <2>2. /\ desks' \in [Handlers -> DeskRow] /\ DesksKnown' /\ ShopOK'
        /\ toll' \in [calls : Nat, upsets : Nat]
    BY <1>1, <1>5, <2>1, ServeKeeps DEF Bootstrap, Vacant, AtUser
  <2>3. setup' \in SetupRow /\ setup'.state = setup.state
    BY <1>2, <1>5 DEF Bootstrap, Configured, SetupRow
  <2> QED BY <1>2, <1>5, <2>2, <2>3, UsersRest DEF Bootstrap
<1>6. CASE Refuse(h)
  <2>1. Rows' = Rows
    BY <1>6 DEF Refuse, Rows, UserIds
  <2>2. desks' \in [Handlers -> DeskRow] /\ DesksKnown' /\ ShopOK'
    BY <1>1, <1>6, <2>1, RespondKeeps DEF Refuse
  <2>3. fails' \in [0..MaxUsers -> Nat]
    <3>1. DOMAIN fails = 0..MaxUsers /\ \A s \in 0..MaxUsers : fails[s] \in Nat
      BY <1>2, SMTT(30)
    <3> QED BY <1>6, <3>1 DEF Refuse
  <2> QED BY <1>2, <1>6, <2>2, <2>3, UsersRest DEF Refuse
<1>7. ASSUME NEW u \in UserIds, NEW right \in BOOLEAN, Login(h, u, right) PROVE UsersInv'
  <2> DEFINE in == [Vacant EXCEPT !.pc = "login", !.user = u,
                                  !.basis = users[u].pw, !.legacy = users[u].legacy]
             out == [Vacant EXCEPT !.pc = "refuse", !.user = u]
  <2>1. u \in Rows /\ u \in 0..MaxUsers /\ users[u] \in UserRow
    <3>1. u \in Rows
      BY <1>7 DEF Login
    <3>2. u \in 1..MaxUsers
      BY <1>2
    <3> QED BY <1>2, <3>1, <3>2, BoundsAre, SMTT(30)
  <2>2. in \in DeskRow /\ ~in.made /\ in.pc = "login" /\ in.user = u
    BY <2>1, BoundsAre DEF Vacant, DeskRow, DeskPcs, UserRow
  <2>3. out \in DeskRow /\ ~out.made /\ out.pc = "refuse" /\ out.user = u
    BY <2>1, BoundsAre DEF Vacant, DeskRow, DeskPcs
  <2>4. Serve(h, in) \/ Serve(h, out)
    BY ZenonT(30), <1>7 DEF Login
  <2> HIDE DEF in, out
  <2>5. /\ desks' \in [Handlers -> DeskRow] /\ DesksKnown' /\ ShopOK'
        /\ toll' \in [calls : Nat, upsets : Nat]
    BY <1>1, <1>7, <2>1, <2>2, <2>3, <2>4, ServeKeeps DEF Login, AtUser
  <2> QED BY <1>2, <1>7, <2>5, UsersRest DEF Login
<1>8. ASSUME NEW k \in TokenIds \cup {0}, Authorise(h, k) PROVE UsersInv'
  <2> DEFINE user == IF k = 0 THEN 0 ELSE tokens[k].user
             row == [Vacant EXCEPT !.pc = "admin", !.token = k, !.user = user]
  <2>1. user \in 0..MaxUsers /\ k \in 0..MaxTokens
    BY <1>2, BoundsAre DEF TokenRow
  <2> HIDE DEF user
  <2>2. row \in DeskRow /\ ~row.made /\ row.pc = "admin"
    BY <2>1, BoundsAre DEF Vacant, DeskRow, DeskPcs
  <2>3. Serve(h, row)
    BY <1>8 DEF Authorise, user
  <2> HIDE DEF row
  <2>4. /\ desks' \in [Handlers -> DeskRow] /\ DesksKnown' /\ ShopOK'
        /\ toll' \in [calls : Nat, upsets : Nat]
    BY <1>1, <1>8, <2>2, <2>3, ServeKeeps DEF Authorise, AtUser
  <2> QED BY <1>2, <1>8, <2>4, UsersRest DEF Authorise
<1>9. ASSUME NEW u \in UserIds, Unlock(h, u) PROVE UsersInv'
  <2>1. Rows' = Rows
    BY <1>9 DEF Unlock, Rows, UserIds
  <2>2. desks' \in [Handlers -> DeskRow] /\ DesksKnown' /\ ShopOK'
    BY <1>1, <1>9, <2>1, RespondKeeps DEF Unlock
  <2>3. fails' \in [0..MaxUsers -> Nat]
    BY <1>2, <1>9 DEF Unlock
  <2> QED BY <1>2, <1>9, <2>2, <2>3, UsersRest DEF Unlock
<1>10. ASSUME NEW open \in BOOLEAN, SetRegistration(h, open) PROVE UsersInv'
  <2>1. Rows' = Rows
    BY <1>10 DEF SetRegistration, Rows, UserIds
  <2>2. desks' \in [Handlers -> DeskRow] /\ DesksKnown' /\ ShopOK'
    BY <1>1, <1>10, <2>1, RespondKeeps DEF SetRegistration
  <2>3. setup' \in SetupRow /\ setup'.state = setup.state
    BY <1>2, <1>10 DEF SetRegistration, SetupRow
  <2> QED BY <1>2, <1>10, <2>2, <2>3, UsersRest DEF SetRegistration
<1> QED BY <1>4, <1>5, <1>6, <1>7, <1>8, <1>9, <1>10

-------------------------------------------------------------------------------
(* Steps on sessions and on the row of a user.                             *)

\* Closing sessions keeps everything that is known of those that stay.
LEMMA ClosingKeeps ==
    ASSUME UsersInv, NEW ks, tokens' = Closed(ks), UNCHANGED <<users, homes, setup, fails, shop>>,
           desks' \in [Handlers -> DeskRow], toll' \in [calls : Nat, upsets : Nat],
           DesksKnown', ShopOK'
    PROVE  UsersInv'
<1>1. /\ tokens' \in [1..MaxTokens -> TokenRow]
      /\ \A k \in 1..MaxTokens :
            /\ k \in ks => tokens'[k].user = 0
            /\ k \notin ks => tokens'[k] = tokens[k]
      /\ \A u \in 1..MaxUsers : Sessions(u)' \subseteq Sessions(u)
  BY ClosedIs DEF UsersInv
<1>2. UsersTyped'
  BY <1>1 DEF UsersInv, UsersTyped
<1>3. Rows' = Rows /\ Admins' = Admins
  BY DEF Rows, Admins, UserIds
<1>4. Numbered' /\ AdminRemains' /\ HomesOK'
  BY <1>3 DEF UsersInv, Numbered, AdminRemains, HomesOK
<1>5. SessionsKnown'
  BY <1>1, <1>3 DEF UsersInv, SessionsKnown
<1>6. SessionsOK'
  <2>1. \A u \in 1..MaxUsers : Cardinality(Sessions(u)') <= MaxSessions
    BY <1>1, FewerAreFew DEF UsersInv
  <2>2. ASSUME NEW k \in 1..MaxTokens, tokens'[k].user # 0
        PROVE  \/ tokens'[k].late
               \/ /\ users'[tokens'[k].user].enabled
                  /\ tokens'[k].basis = users'[tokens'[k].user].pw
    BY <1>1, <2>2 DEF UsersInv, SessionsOK
  <2> QED BY <2>1, <2>2 DEF SessionsOK
<1> QED BY <1>2, <1>4, <1>5, <1>6 DEF UsersInv

\* A new row for a user who has one.
LEMMA RowChanges ==
    ASSUME UsersTyped, Numbered, NEW u \in Rows, NEW row \in UserRow, row.role # "none",
           users' = [users EXCEPT ![u] = row]
    PROVE  /\ users' \in [1..MaxUsers -> UserRow] /\ Rows' = Rows /\ Numbered'
           /\ u \in 1..MaxUsers /\ users'[u] = row
           /\ \A v \in 1..MaxUsers \ {u} : users'[v] = users[v]
<1>1. /\ u \in 1..MaxUsers /\ users' \in [1..MaxUsers -> UserRow] /\ users'[u] = row
      /\ \A v \in 1..MaxUsers \ {u} : users'[v] = users[v]
  BY IdsStay DEF UsersTyped, Rows
<1>2. Rows' = Rows
  BY <1>1, IdsStay DEF Rows, UserIds
<1>3. Numbered'
  BY <1>1, <1>2 DEF Numbered
<1> QED BY <1>1, <1>2, <1>3

\* Changing what a row says of passwords and directories keeps the administrators.
LEMMA AdminsStay ==
    ASSUME UsersInv, NEW u \in Rows, NEW row \in UserRow, users' = [users EXCEPT ![u] = row],
           row.role = users[u].role, row.enabled = users[u].enabled, setup'.state = setup.state
    PROVE  AdminRemains'
<1>1. row.role # "none"
  BY DEF Rows
<1>2. /\ Rows' = Rows /\ u \in 1..MaxUsers /\ users'[u] = row
      /\ \A v \in 1..MaxUsers \ {u} : users'[v] = users[v]
  BY <1>1, RowChanges DEF UsersInv
<1>3. Admins' = Admins
  BY <1>2, IdsStay DEF Admins, Rows, UsersInv
<1> QED BY <1>2, <1>3 DEF UsersInv, AdminRemains

\* Sessions whose user keeps the password and stays as enabled as before keep what is
\* known of them.
LEMMA SessionsStay ==
    ASSUME UsersInv, NEW u \in Rows, NEW row \in UserRow, users' = [users EXCEPT ![u] = row],
           row.role # "none", row.enabled = users[u].enabled, row.pw = users[u].pw,
           UNCHANGED tokens
    PROVE  SessionsKnown' /\ SessionsOK'
<1>1. /\ Rows' = Rows /\ u \in 1..MaxUsers /\ users'[u] = row
      /\ \A v \in 1..MaxUsers \ {u} : users'[v] = users[v]
  BY RowChanges DEF UsersInv
<1>2. SessionsKnown'
  BY <1>1 DEF UsersInv, SessionsKnown
<1>3. \A v \in 1..MaxUsers : Sessions(v)' = Sessions(v)
  BY DEF Sessions, TokenIds
<1>4. ASSUME NEW k \in 1..MaxTokens, tokens[k].user # 0
      PROVE  \/ tokens[k].late
             \/ /\ users'[tokens[k].user].enabled
                /\ tokens[k].basis = users'[tokens[k].user].pw
  <2>1. tokens[k].user \in 1..MaxUsers
    BY <1>4, IdsStay DEF UsersInv, SessionsKnown, Rows
  <2> QED BY <1>1, <1>4, <2>1 DEF UsersInv, SessionsOK
<1>5. SessionsOK'
  BY <1>3, <1>4 DEF UsersInv, SessionsOK
<1> QED BY <1>2, <1>5

\* A request with a session, a logout, and the revocation of sessions.
LEMMA SessionStepsKeep ==
    ASSUME UsersInv, NEW h \in Handlers,
           \/ \E k \in TokenIds, pc \in {"logout", "password", "shop"} : Enter(h, k, pc)
           \/ Logout(h)
           \/ \E u \in UserIds : RevokeSessions(h, u)
    PROVE  UsersInv'
<1>1. UsersTyped /\ DesksKnown /\ ShopOK /\ SessionsKnown
  BY DEF UsersInv
<1>2. /\ UserIds = 1..MaxUsers /\ TokenIds = 1..MaxTokens
      /\ setup \in SetupRow /\ fails \in [0..MaxUsers -> Nat] /\ shop \in FurtherShop
      /\ toll \in [calls : Nat, upsets : Nat]
      /\ \A u \in 1..MaxUsers : users[u] \in UserRow
      /\ \A k \in 1..MaxTokens : tokens[k] \in TokenRow
  BY <1>1, IdsStay DEF UsersTyped
<1>3. ASSUME NEW k \in TokenIds, NEW pc \in {"logout", "password", "shop"}, Enter(h, k, pc)
      PROVE  UsersInv'
  <2> DEFINE u == tokens[k].user
             row == [Vacant EXCEPT !.pc = pc, !.user = u, !.token = k,
                                   !.basis = users[u].pw, !.legacy = users[u].legacy]
  <2>1. /\ UNCHANGED <<users, homes, setup, fails, shop>>
        /\ u # 0 /\ ((Serve(h, row) /\ UNCHANGED tokens)
                     \/ (Serve(h, Vacant) /\ tokens' = Closed({k})))
    BY ZenonT(30), <1>3 DEF Enter
  <2>2. u \in Rows /\ u \in 1..MaxUsers /\ k \in 1..MaxTokens
    <3>1. k \in 1..MaxTokens
      BY <1>2
    <3>2. u \in Rows
      BY <1>1, <2>1, <3>1 DEF SessionsKnown
    <3> QED BY <1>2, <3>1, <3>2 DEF Rows
  <2>3. u \in 0..MaxUsers /\ k \in 0..MaxTokens /\ users[u] \in UserRow
    BY <1>2, <2>2, BoundsAre
  <2> HIDE DEF u
  <2>4. row \in DeskRow /\ ~row.made /\ row.pc = pc /\ row.user = u
    BY <2>3, BoundsAre DEF Vacant, DeskRow, DeskPcs, UserRow
  <2>5. Vacant \in DeskRow /\ ~Vacant.made /\ Vacant.pc = "idle"
    BY BoundsAre DEF Vacant, DeskRow, DeskPcs
  <2> HIDE DEF row
  <2>6. /\ desks' \in [Handlers -> DeskRow] /\ DesksKnown' /\ ShopOK'
        /\ toll' \in [calls : Nat, upsets : Nat]
    BY <1>1, <2>1, <2>2, <2>4, <2>5, ServeKeeps DEF AtUser
  <2>7. CASE UNCHANGED tokens
    <3>1. /\ UNCHANGED <<users, homes, tokens>> /\ setup'.state = setup.state
          /\ setup' \in SetupRow /\ fails' \in [0..MaxUsers -> Nat] /\ shop' \in FurtherShop
      BY <1>2, <2>1, <2>7
    <3> QED BY <2>6, <3>1, UsersRest
  <2>8. CASE tokens' = Closed({k})
    BY <2>1, <2>6, <2>8, ClosingKeeps
  <2> QED BY <2>1, <2>7, <2>8, Zenon
<1>4. ASSUME NEW ks, tokens' = Closed(ks), Respond(h),
             UNCHANGED <<users, homes, setup, fails, shop, toll>>
      PROVE  UsersInv'
  <2>1. Rows' = Rows
    BY <1>4 DEF Rows, UserIds
  <2>2. desks' \in [Handlers -> DeskRow] /\ DesksKnown' /\ ShopOK'
    BY <1>1, <1>4, <2>1, RespondKeeps
  <2> QED BY <1>2, <1>4, <2>2, ClosingKeeps
<1>5. CASE Logout(h)
  BY <1>4, <1>5 DEF Logout
<1>6. ASSUME NEW u \in UserIds, RevokeSessions(h, u) PROVE UsersInv'
  BY <1>4, <1>6 DEF RevokeSessions
<1> QED BY <1>3, <1>5, <1>6

\* The steps of a login that repair the user's directory and replace an old password hash.
LEMMA LoginStepsKeep ==
    ASSUME UsersInv, NEW h \in Handlers, Repair(h) \/ Clear(h)
    PROVE  UsersInv'
<1> DEFINE u == desks[h].user
<1>1. UsersTyped /\ DesksKnown /\ ShopOK /\ SessionsKnown /\ Numbered
  BY DEF UsersInv
<1>2. desks[h].pc \in {"login", "clear"}
  BY DEF Repair, Clear
<1>3. /\ u \in Rows /\ u \in 1..MaxUsers /\ users[u] \in UserRow /\ users[u].role # "none"
      /\ desks[h] \in DeskRow /\ homes \in [1..MaxUsers -> Homes]
      /\ fails \in [0..MaxUsers -> Nat] /\ ~desks[h].made
  <2>1. u \in Rows
    BY <1>1, <1>2 DEF DesksKnown, AtUser
  <2>2. u \in 1..MaxUsers /\ users[u].role # "none"
    BY <1>1, <2>1, IdsStay DEF Rows
  <2>3. ~desks[h].made
    BY <1>1, <1>2 DEF ShopOK, MakerOK
  <2> QED BY <1>1, <2>1, <2>2, <2>3 DEF UsersTyped
<1> HIDE DEF u
<1>4. ASSUME NEW pc \in {"clear", "token"}, Proceed(h, pc), Rows' = Rows, UNCHANGED shop
      PROVE  desks' \in [Handlers -> DeskRow] /\ DesksKnown' /\ ShopOK'
  <2> DEFINE row == [desks[h] EXCEPT !.pc = pc]
  <2>1. row \in DeskRow /\ ~row.made /\ row.pc = pc /\ row.user = u
    BY <1>3 DEF DeskRow, DeskPcs, u
  <2>2. desks' = [desks EXCEPT ![h] = row]
    BY <1>4 DEF Proceed
  <2> HIDE DEF row
  <2> QED BY <1>1, <1>3, <1>4, <2>1, <2>2, DeskMoves
<1>5. CASE Repair(h)
  <2> DEFINE unused == users[u].enabled /\ ~users[u].marked /\ Initializable(u)
             row == [users[u] EXCEPT !.marked = TRUE]
  <2>1. row \in UserRow /\ row.role = users[u].role /\ row.enabled = users[u].enabled
        /\ row.pw = users[u].pw
    BY <1>3 DEF UserRow
  <2>2. CASE unused /\ users' = [users EXCEPT ![u] = row] /\ Initialized(u) /\ Proceed(h, "clear")
             /\ UNCHANGED toll
    <3>1. /\ users' \in [1..MaxUsers -> UserRow] /\ Rows' = Rows /\ Numbered'
          /\ users'[u] = row /\ \A v \in 1..MaxUsers \ {u} : users'[v] = users[v]
      BY <1>1, <1>3, <2>1, <2>2, RowChanges
    <3>2. AdminRemains' /\ SessionsKnown' /\ SessionsOK'
      BY <1>3, <1>5, <2>1, <2>2, AdminsStay, SessionsStay DEF Repair
    <3>3. homes' \in [1..MaxUsers -> Homes] /\ homes'[u] = "initial"
          /\ \A v \in 1..MaxUsers \ {u} : homes'[v] = homes[v]
      BY <1>3, <2>2 DEF Initialized, Homes
    <3>4. HomesOK'
      BY <3>1, <3>3 DEF HomesOK, UsersInv
    <3>5. desks' \in [Handlers -> DeskRow] /\ DesksKnown' /\ ShopOK'
      BY <1>4, <1>5, <2>2, <3>1 DEF Repair
    <3>6. UsersTyped'
      BY <1>1, <1>5, <2>2, <3>1, <3>3, <3>5 DEF Repair, UsersTyped
    <3> QED BY <3>1, <3>2, <3>4, <3>5, <3>6 DEF UsersInv
  <2>3. CASE users' = users /\ homes' = homes /\ Proceed(h, "clear") /\ UNCHANGED toll
    <3>1. Rows' = Rows
      BY <2>3 DEF Rows, UserIds
    <3>2. desks' \in [Handlers -> DeskRow] /\ DesksKnown' /\ ShopOK'
      BY <1>4, <1>5, <2>3, <3>1 DEF Repair
    <3> QED BY <1>1, <1>5, <2>3, <3>2, UsersRest DEF Repair, UsersTyped
  <2>4. CASE Upset /\ Respond(h) /\ UNCHANGED <<users, homes>>
    <3>1. Rows' = Rows
      BY <2>4 DEF Rows, UserIds
    <3>2. desks' \in [Handlers -> DeskRow] /\ DesksKnown' /\ ShopOK'
      BY <1>1, <1>5, <2>4, <3>1, RespondKeeps DEF Repair
    <3>3. toll' \in [calls : Nat, upsets : Nat]
      BY <1>1, <2>4, UpsetIsCounted
    <3> QED BY <1>1, <1>5, <2>4, <3>2, <3>3, UsersRest DEF Repair, UsersTyped
  <2> QED BY <1>5, <2>2, <2>3, <2>4 DEF Repair, u
<1>6. CASE Clear(h)
  <2> DEFINE row == [users[u] EXCEPT !.legacy = FALSE]
  <2>1. row \in UserRow /\ row.role = users[u].role /\ row.enabled = users[u].enabled
        /\ row.pw = users[u].pw /\ row.marked = users[u].marked
    BY <1>3 DEF UserRow
  <2>2. /\ fails' = [fails EXCEPT ![u] = 0] /\ Proceed(h, "token")
        /\ UNCHANGED <<homes, setup, tokens, shop, toll>>
        /\ users' = users \/ users' = [users EXCEPT ![u] = row]
    BY <1>6 DEF Clear, u
  <2>3. fails' \in [0..MaxUsers -> Nat]
    BY <1>3, <2>2
  <2>4. CASE users' = users
    <3>1. Rows' = Rows
      BY <2>4 DEF Rows, UserIds
    <3>2. desks' \in [Handlers -> DeskRow] /\ DesksKnown' /\ ShopOK'
      BY <1>4, <2>2, <3>1
    <3> QED BY <1>1, <2>2, <2>3, <2>4, <3>2, UsersRest DEF UsersTyped
  <2>5. CASE users' = [users EXCEPT ![u] = row]
    <3>1. /\ users' \in [1..MaxUsers -> UserRow] /\ Rows' = Rows /\ Numbered'
          /\ users'[u] = row /\ \A v \in 1..MaxUsers \ {u} : users'[v] = users[v]
      BY <1>1, <1>3, <2>1, <2>5, RowChanges
    <3>2. AdminRemains' /\ SessionsKnown' /\ SessionsOK'
      BY <1>3, <2>1, <2>2, <2>5, AdminsStay, SessionsStay
    <3>3. HomesOK'
      BY <1>3, <2>1, <2>2, <3>1 DEF HomesOK, UsersInv
    <3>4. desks' \in [Handlers -> DeskRow] /\ DesksKnown' /\ ShopOK'
      BY <1>4, <2>2, <3>1
    <3>5. UsersTyped'
      BY <1>1, <2>2, <2>3, <3>1, <3>4 DEF UsersTyped
    <3> QED BY <3>1, <3>2, <3>3, <3>4, <3>5 DEF UsersInv
  <2> QED BY <2>2, <2>4, <2>5
<1> QED BY <1>5, <1>6

\* A changed password closes every other session of the user, and the session it was
\* changed in goes on with the new one.
LEMMA ChangePasswordKeeps ==
    ASSUME UsersInv, NEW h \in Handlers, ChangePassword(h)
    PROVE  UsersInv'
<1> DEFINE u == desks[h].user
           own == desks[h].token
           row == [users[u] EXCEPT !.pw = @ + 1, !.legacy = FALSE]
           same == /\ users[u].enabled /\ users[u].pw = desks[h].basis
                   /\ users[u].legacy = desks[h].legacy
           left(k) == IF k \in Revoked(u, own) THEN [tokens[k] EXCEPT !.user = 0]
                      ELSE IF k = own /\ tokens[k].user = u
                      THEN [tokens[k] EXCEPT !.basis = @ + 1] ELSE tokens[k]
<1>1. UsersTyped /\ DesksKnown /\ ShopOK /\ SessionsKnown /\ Numbered /\ SessionsOK
  BY DEF UsersInv
<1>2. /\ desks[h].pc = "password" /\ Respond(h) /\ UNCHANGED <<homes, setup, fails, shop, toll>>
      /\ IF same THEN users' = [users EXCEPT ![u] = row] /\ tokens' = [k \in TokenIds |-> left(k)]
                 ELSE UNCHANGED <<users, tokens>>
  BY DEF ChangePassword
<1>3. u \in Rows /\ u \in 1..MaxUsers /\ users[u] \in UserRow /\ users[u].role # "none"
  <2>1. u \in Rows
    BY <1>1, <1>2 DEF DesksKnown, AtUser
  <2> QED BY <1>1, <2>1, IdsStay DEF Rows, UsersTyped
<1> HIDE DEF u, own
<1>4. CASE same
  <2>1. row \in UserRow /\ row.role = users[u].role /\ row.enabled = users[u].enabled
        /\ row.pw = users[u].pw + 1 /\ row.marked = users[u].marked
    <3>1. users[u].pw \in Nat /\ users[u].pw + 1 \in Nat
      BY <1>3 DEF UserRow
    <3> QED BY <1>3, <3>1 DEF UserRow
  <2>2. users' = [users EXCEPT ![u] = row] /\ tokens' = [k \in 1..MaxTokens |-> left(k)]
    BY <1>1, <1>2, <1>4, IdsStay
  <2> HIDE DEF row, same
  <2>3. /\ users' \in [1..MaxUsers -> UserRow] /\ Rows' = Rows /\ Numbered'
        /\ users'[u] = row /\ \A v \in 1..MaxUsers \ {u} : users'[v] = users[v]
    BY <1>1, <1>3, <2>1, <2>2, RowChanges
  <2>4. \A k \in 1..MaxTokens :
           /\ k \in Revoked(u, own) <=> tokens[k].user = u /\ k # own
           /\ tokens[k] \in TokenRow
    BY <1>1, IdsStay DEF Revoked, Sessions, UsersTyped
  <2>5. \A k \in 1..MaxTokens :
           /\ left(k) \in TokenRow
           /\ tokens[k].user = u /\ k # own => left(k).user = 0
           /\ tokens[k].user = u /\ k = own =>
                 /\ left(k).user = u /\ left(k).basis = tokens[k].basis + 1
                 /\ left(k).late = tokens[k].late
           /\ tokens[k].user # u => left(k) = tokens[k]
    BY <2>4, BoundsAre DEF TokenRow
  <2> HIDE DEF left
  <2>6. tokens' \in [1..MaxTokens -> TokenRow] /\ \A k \in 1..MaxTokens : tokens'[k] = left(k)
    BY <2>2, <2>5
  <2>7. AdminRemains'
    BY <1>2, <1>3, <2>1, <2>2, AdminsStay
  <2>8. HomesOK'
    BY <1>2, <1>3, <2>1, <2>3 DEF HomesOK, UsersInv
  <2>9. desks' \in [Handlers -> DeskRow] /\ DesksKnown' /\ ShopOK'
    BY <1>1, <1>2, <2>3, RespondKeeps
  <2>10. SessionsKnown'
    BY <1>1, <1>3, <2>3, <2>5, <2>6 DEF SessionsKnown
  <2>11. \A k \in 1..MaxTokens : tokens'[k].user # 0 => tokens'[k].user = tokens[k].user
    BY <2>5, <2>6
  <2>12. ASSUME NEW v \in 1..MaxUsers PROVE Cardinality(Sessions(v)') <= MaxSessions
    <3>1. DOMAIN tokens = 1..MaxTokens /\ DOMAIN tokens' = 1..MaxTokens
      BY <1>1, <2>6 DEF UsersTyped
    <3>2. Sessions(v)' \subseteq Sessions(v)
      BY <2>11, <3>1 DEF Sessions, TokenIds
    <3> QED BY <1>1, <3>2, FewerAreFew
  <2>13. ASSUME NEW k \in 1..MaxTokens, tokens'[k].user # 0
         PROVE  \/ tokens'[k].late
                \/ /\ users'[tokens'[k].user].enabled
                   /\ tokens'[k].basis = users'[tokens'[k].user].pw
    <3>1. /\ tokens[k].user # 0 /\ tokens'[k] = left(k)
          /\ tokens'[k].user = tokens[k].user /\ tokens[k].user \in 1..MaxUsers
      <4>1. tokens[k].user \in Rows
        BY <1>1, <2>11, <2>13 DEF SessionsKnown
      <4> QED BY <1>1, <2>6, <2>11, <2>13, <4>1, IdsStay DEF Rows
    <3>2. \/ tokens[k].late
          \/ /\ users[tokens[k].user].enabled
             /\ tokens[k].basis = users[tokens[k].user].pw
      BY <1>1, <3>1 DEF SessionsOK
    <3>3. CASE tokens[k].user = u
      BY <2>1, <2>3, <2>5, <3>1, <3>2, <3>3, <2>13, <1>3
    <3>4. CASE tokens[k].user # u
      BY <2>3, <2>5, <3>1, <3>2, <3>4
    <3> QED BY <3>3, <3>4
  <2>14. UsersTyped'
    BY <1>1, <1>2, <2>3, <2>6, <2>9 DEF UsersTyped
  <2> QED BY <2>3, <2>7, <2>8, <2>9, <2>10, <2>12, <2>13, <2>14 DEF UsersInv, SessionsOK
<1>5. CASE ~same
  <2>1. UNCHANGED <<users, tokens>>
    BY <1>2, <1>5
  <2>2. Rows' = Rows
    BY <2>1 DEF Rows, UserIds
  <2>3. desks' \in [Handlers -> DeskRow] /\ DesksKnown' /\ ShopOK'
    BY <1>1, <1>2, <2>2, RespondKeeps
  <2> QED BY <1>1, <1>2, <2>1, <2>3, UsersRest DEF UsersTyped
<1> QED BY <1>4, <1>5

\* An administrator changes the role of another user, or whether the user may log in: the
\* user's sessions are closed, and the last administrator who can log in stays one.
LEMMA UpdateUserKeeps ==
    ASSUME UsersInv, NEW h \in Handlers, NEW u \in UserIds, NEW role \in {"owner", "admin"},
           NEW enabled \in BOOLEAN, UpdateUser(h, u, role, enabled)
    PROVE  UsersInv'
<1> DEFINE row == [users[u] EXCEPT !.role = role, !.enabled = enabled]
           changed == users[u].role # role \/ users[u].enabled # enabled
           last == u \in Admins /\ (role # "admin" \/ ~enabled) /\ Others(u) = {}
<1>1. UsersTyped /\ DesksKnown /\ ShopOK /\ SessionsKnown /\ Numbered /\ SessionsOK
  BY DEF UsersInv
<1>2. /\ u \in Rows /\ Respond(h) /\ UNCHANGED <<homes, setup, fails, shop, toll>>
      /\ last => UNCHANGED <<users, tokens>>
      /\ ~last => /\ users' = [users EXCEPT ![u] = row]
                  /\ tokens' = IF changed THEN Closed(Sessions(u)) ELSE tokens
  BY DEF UpdateUser, UpdatePlatformUser
<1>3. u \in 1..MaxUsers /\ users[u] \in UserRow
  BY <1>1, IdsStay DEF UsersTyped
<1>4. CASE last
  <2>1. UNCHANGED <<users, tokens>>
    BY <1>2, <1>4
  <2>2. Rows' = Rows
    BY <2>1 DEF Rows, UserIds
  <2>3. desks' \in [Handlers -> DeskRow] /\ DesksKnown' /\ ShopOK'
    BY <1>1, <1>2, <2>2, RespondKeeps
  <2> QED BY <1>1, <1>2, <2>1, <2>3, UsersRest DEF UsersTyped
<1>5. CASE ~last
  <2>1. row \in UserRow /\ row.role = role /\ row.enabled = enabled /\ row.pw = users[u].pw
        /\ row.marked = users[u].marked /\ row.role # "none"
    BY <1>3 DEF UserRow
  <2>2. users' = [users EXCEPT ![u] = row]
    BY <1>2, <1>5
  <2> HIDE DEF row
  <2>3. /\ users' \in [1..MaxUsers -> UserRow] /\ Rows' = Rows /\ Numbered'
        /\ users'[u] = row /\ \A v \in 1..MaxUsers \ {u} : users'[v] = users[v]
    BY <1>1, <1>2, <2>1, <2>2, RowChanges
  <2>4. AdminRemains'
    <3>1. DOMAIN users = 1..MaxUsers
      BY <1>1 DEF UsersTyped
    <3>2. /\ \A v \in Others(u) : v \in Admins'
          /\ role = "admin" /\ enabled => u \in Admins'
      BY <1>2, <1>3, <2>1, <2>3, <3>1 DEF Others, Admins, Rows, UserIds
    <3>3. Rows # {} /\ Admins # {} /\ (setup.state = "consumed" <=> Rows # {})
      BY <1>2 DEF UsersInv, AdminRemains
    <3>4. Admins' # {}
      <4>1. CASE Others(u) # {}
        BY <3>2, <4>1
      <4>2. CASE Others(u) = {}
        <5>1. Admins = {u}
          BY <3>3, <4>2 DEF Others
        <5>2. role = "admin" /\ enabled
          BY <1>5, <4>2, <5>1
        <5> QED BY <3>2, <5>2
      <4> QED BY <4>1, <4>2
    <3> QED BY <1>2, <2>3, <3>3, <3>4 DEF AdminRemains
  <2>5. HomesOK'
    BY <1>2, <1>3, <2>1, <2>3 DEF HomesOK, UsersInv
  <2>6. desks' \in [Handlers -> DeskRow] /\ DesksKnown' /\ ShopOK'
    BY <1>1, <1>2, <2>3, RespondKeeps
  <2>7. CASE changed
    <3>1. /\ tokens' \in [1..MaxTokens -> TokenRow]
          /\ \A k \in 1..MaxTokens :
                /\ k \in Sessions(u) => tokens'[k].user = 0
                /\ k \notin Sessions(u) => tokens'[k] = tokens[k]
          /\ \A v \in 1..MaxUsers : Sessions(v)' \subseteq Sessions(v)
      BY <1>1, <1>2, <1>5, <2>7, ClosedIs
    <3>2. ASSUME NEW k \in 1..MaxTokens, tokens'[k].user # 0
          PROVE  /\ tokens'[k] = tokens[k] /\ tokens[k].user # u
                 /\ tokens[k].user \in Rows /\ tokens[k].user \in 1..MaxUsers
      <4>1. k \notin Sessions(u) /\ k \in TokenIds
        BY <1>1, <3>1, <3>2, IdsStay
      <4>2. tokens'[k] = tokens[k] /\ tokens[k].user # u
        BY <3>1, <4>1 DEF Sessions
      <4>3. tokens[k].user \in Rows
        BY <1>1, <3>2, <4>2 DEF SessionsKnown
      <4> QED BY <1>1, <4>2, <4>3, IdsStay DEF Rows
    <3>3. SessionsKnown'
      BY <2>3, <3>2 DEF SessionsKnown
    <3>4. SessionsOK'
      <4>1. \A v \in 1..MaxUsers : Cardinality(Sessions(v)') <= MaxSessions
        BY <1>1, <3>1, FewerAreFew
      <4>2. \A k \in 1..MaxTokens : tokens'[k].user # 0 =>
               \/ tokens'[k].late
               \/ /\ users'[tokens'[k].user].enabled
                  /\ tokens'[k].basis = users'[tokens'[k].user].pw
        BY <1>1, <2>3, <3>2 DEF SessionsOK
      <4> QED BY <4>1, <4>2 DEF SessionsOK
    <3>5. UsersTyped'
      BY <1>1, <1>2, <2>3, <2>6, <3>1 DEF UsersTyped
    <3> QED BY <2>3, <2>4, <2>5, <2>6, <3>3, <3>4, <3>5 DEF UsersInv
  <2>8. CASE ~changed
    <3>1. tokens' = tokens
      BY <1>2, <1>5, <2>8
    <3>2. SessionsKnown' /\ SessionsOK'
      BY <1>2, <2>1, <2>2, <2>8, <3>1, SessionsStay
    <3>3. UsersTyped'
      BY <1>1, <1>2, <2>3, <2>6, <3>1 DEF UsersTyped
    <3> QED BY <2>3, <2>4, <2>5, <2>6, <3>2, <3>3 DEF UsersInv
  <2> QED BY <2>7, <2>8
<1> QED BY <1>4, <1>5

\* A session that is opened is of the user as read at the start of the login, or marked
\* as late; the user's newest sessions stay open, no more than allowed.
LEMMA CreateTokenKeeps ==
    ASSUME UsersInv, NEW h \in Handlers, CreateToken(h)
    PROVE  UsersInv'
<1> DEFINE u == desks[h].user
           late == ~users[u].enabled \/ users[u].pw # desks[h].basis
           new == [user |-> u, basis |-> desks[h].basis, late |-> late]
<1>1. UsersTyped /\ DesksKnown /\ ShopOK /\ SessionsKnown /\ Numbered /\ SessionsOK
  BY DEF UsersInv
<1>2. TokenIds = 1..MaxTokens /\ UserIds = 1..MaxUsers
  BY <1>1, IdsStay
<1>3. u \in Rows /\ u \in 1..MaxUsers /\ u # 0 /\ users[u] \in UserRow /\ desks[h] \in DeskRow
  <2>1. u \in Rows
    BY <1>1 DEF CreateToken, DesksKnown, AtUser
  <2>2. u \in 1..MaxUsers
    BY <1>2, <2>1 DEF Rows
  <2> QED BY <1>1, <2>1, <2>2 DEF UsersTyped
<1>4. late \in BOOLEAN /\ new \in TokenRow
  BY <1>3, BoundsAre DEF TokenRow, DeskRow, UserRow
<1>5. /\ new.user = u /\ new.basis = desks[h].basis /\ new.late = late
      /\ ~new.late => users[u].enabled /\ new.basis = users[u].pw
  OBVIOUS
<1> HIDE DEF new, late
<1>6. PICK k \in 1..MaxTokens :
         LET opened == [tokens EXCEPT ![k] = new]
             newer(j) == {i \in TokenIds : i > j /\ opened[i].user = u}
         IN  tokens' = [j \in TokenIds |->
                IF opened[j].user = u /\ Cardinality(newer(j)) >= MaxSessions
                THEN [opened[j] EXCEPT !.user = 0] ELSE opened[j]]
  <2> DEFINE n == Cardinality({j \in TokenIds : \E i \in TokenIds : i >= j /\ tokens[i].basis # 0}) + 1
  <2>1. n \in 1..MaxTokens
    BY <1>2 DEF CreateToken
  <2>2. LET opened == [tokens EXCEPT ![n] = new]
            newer(j) == {i \in TokenIds : i > j /\ opened[i].user = u}
        IN  tokens' = [j \in TokenIds |->
               IF opened[j].user = u /\ Cardinality(newer(j)) >= MaxSessions
               THEN [opened[j] EXCEPT !.user = 0] ELSE opened[j]]
    BY Zenon DEF CreateToken, new, late
  <2> HIDE DEF n
  <2> QED BY <2>1, <2>2
<1> DEFINE opened == [tokens EXCEPT ![k] = new]
           S == {j \in 1..MaxTokens : opened[j].user = u}
           newer(j) == {i \in S : i > j}
           left(j) == IF j \in S /\ Cardinality(newer(j)) >= MaxSessions
                      THEN [opened[j] EXCEPT !.user = 0] ELSE opened[j]
<1>7. /\ opened \in [1..MaxTokens -> TokenRow] /\ opened[k] = new
      /\ \A j \in 1..MaxTokens \ {k} : opened[j] = tokens[j]
  BY <1>1, <1>4 DEF UsersTyped
<1>8. tokens' = [j \in 1..MaxTokens |-> left(j)]
  <2>1. \A j \in 1..MaxTokens :
           {i \in TokenIds : i > j /\ opened[i].user = u} = newer(j)
    BY <1>2
  <2> HIDE DEF opened
  <2> QED BY <1>2, <1>6, <2>1 DEF opened
<1> HIDE DEF opened
<1>9. \A j \in 1..MaxTokens :
         /\ left(j) \in TokenRow
         /\ left(j).user # 0 => left(j) = opened[j]
         /\ left(j).user = u => j \in S /\ ~(Cardinality(newer(j)) >= MaxSessions)
  <2>1. \A j \in 1..MaxTokens :
           /\ opened[j] \in TokenRow /\ [opened[j] EXCEPT !.user = 0] \in TokenRow
           /\ [opened[j] EXCEPT !.user = 0].user = 0
    BY <1>7, BoundsAre DEF TokenRow
  <2> QED BY <1>3, <2>1
<1> HIDE DEF left
<1>10. /\ tokens' \in [1..MaxTokens -> TokenRow]
       /\ \A j \in 1..MaxTokens : tokens'[j] = left(j)
  BY <1>8, <1>9
<1>11. Respond(h) /\ UNCHANGED <<users, homes, setup, fails, shop, toll>>
  BY DEF CreateToken
<1>12. Rows' = Rows /\ Admins' = Admins
  BY <1>11 DEF Rows, Admins, UserIds
<1>13. desks' \in [Handlers -> DeskRow] /\ DesksKnown' /\ ShopOK'
  BY <1>1, <1>11, <1>12, RespondKeeps
<1>14. UsersTyped'
  BY <1>1, <1>10, <1>11, <1>13 DEF UsersTyped
<1>15. Numbered' /\ AdminRemains' /\ HomesOK'
  BY <1>11, <1>12 DEF UsersInv, Numbered, AdminRemains, HomesOK
<1>16. SessionsKnown'
  BY ZenonT(30), <1>1, <1>3, <1>5, <1>7, <1>9, <1>10, <1>12 DEF SessionsKnown
<1>17. ASSUME NEW j \in 1..MaxTokens, tokens'[j].user # 0
       PROVE  \/ tokens'[j].late
              \/ /\ users'[tokens'[j].user].enabled
                 /\ tokens'[j].basis = users'[tokens'[j].user].pw
  <2>1. tokens'[j] = opened[j]
    BY <1>9, <1>10, <1>17
  <2>2. CASE j = k
    BY <1>5, <1>7, <1>11, <2>1, <2>2
  <2>3. CASE j # k
    BY <1>1, <1>7, <1>11, <1>17, <2>1, <2>3 DEF SessionsOK
  <2> QED BY <2>2, <2>3
<1>18. ASSUME NEW v \in 1..MaxUsers PROVE Cardinality(Sessions(v)') <= MaxSessions
  <2>1. TokenIds' = 1..MaxTokens
    BY <1>10 DEF TokenIds
  <2>2. CASE v = u
    <3> DEFINE few == {j \in S : Cardinality(newer(j)) < MaxSessions}
    <3>1. S \subseteq Nat /\ S \subseteq 1..MaxTokens /\ IsFiniteSet(S)
      <4>1. S \subseteq 1..MaxTokens
        OBVIOUS
      <4> QED BY <4>1, BoundsAre, FS_Subset
    <3>2. \A j \in S : Cardinality(newer(j)) \in Nat
      <4>1. \A j \in S : newer(j) \subseteq S
        OBVIOUS
      <4> HIDE DEF newer, S
      <4> QED BY <3>1, <4>1, FS_Subset, FS_CardinalityType
    <3> HIDE DEF newer, S
    <3>3. Sessions(v)' \subseteq few
      <4>1. \A j \in Sessions(v)' : j \in 1..MaxTokens /\ left(j).user = u
        BY <1>10, <2>1, <2>2 DEF Sessions
      <4> QED BY <1>9, <3>2, <4>1, BoundsAre
    <3>4. Cardinality(few) <= MaxSessions
      BY <3>1, BoundsAre, NewestAreFew DEF newer
    <3>5. few \subseteq S
      OBVIOUS
    <3> HIDE DEF few
    <3>6. IsFiniteSet(few) /\ IsFiniteSet(Sessions(v)')
          /\ Cardinality(Sessions(v)') <= Cardinality(few)
      BY <3>1, <3>3, <3>5, FS_Subset
    <3>7. Cardinality(few) \in Nat /\ Cardinality(Sessions(v)') \in Nat
      BY <3>6, FS_CardinalityType
    <3> QED BY <3>4, <3>6, <3>7, BoundsAre
  <2>3. CASE v # u
    <3>1. \A j \in 1..MaxTokens : tokens'[j].user = v => tokens[j].user = v
      <4>1. \A j \in 1..MaxTokens : tokens'[j].user = v => opened[j].user = v
        <5>1. v # 0
          OBVIOUS
        <5> QED BY <1>9, <1>10, <5>1
      <4> QED BY <1>5, <1>7, <2>3, <4>1
    <3>2. Sessions(v)' \subseteq Sessions(v)
      BY <1>2, <2>1, <3>1 DEF Sessions
    <3> QED BY <1>1, <3>2, FewerAreFew
  <2> QED BY <2>2, <2>3
<1> QED BY <1>13, <1>14, <1>15, <1>16, <1>17, <1>18 DEF UsersInv, SessionsOK

-------------------------------------------------------------------------------
(* Registration, and the directories of the users.                         *)

\* Directories that change, none of an initialised user's taken away.
LEMMA HomesChange ==
    ASSUME UsersInv, UNCHANGED <<users, setup, tokens, fails, shop>>,
           homes' \in [1..MaxUsers -> Homes], HomesOK', desks' \in [Handlers -> DeskRow],
           toll' \in [calls : Nat, upsets : Nat], DesksKnown', ShopOK'
    PROVE  UsersInv'
<1>1. UsersTyped'
  BY DEF UsersInv, UsersTyped
<1>2. Rows' = Rows /\ Admins' = Admins
  BY DEF Rows, Admins, UserIds
<1>3. \A u \in 1..MaxUsers : Sessions(u)' = Sessions(u)
  BY DEF Sessions, TokenIds
<1>4. Numbered' /\ SessionsKnown' /\ AdminRemains'
  BY <1>2 DEF UsersInv, Numbered, SessionsKnown, AdminRemains
<1>5. SessionsOK'
  BY <1>3 DEF UsersInv, SessionsOK
<1> QED BY <1>1, <1>4, <1>5 DEF UsersInv

\* The directory of an id that nobody has may be anything.
LEMMA UnownedIsFree ==
    ASSUME UsersInv, NEW u, u \notin Rows, NEW how \in Homes,
           homes' = [homes EXCEPT ![u] = how], UNCHANGED users
    PROVE  homes' \in [1..MaxUsers -> Homes] /\ HomesOK'
<1>1. homes \in [1..MaxUsers -> Homes] /\ HomesOK /\ Numbered
  BY DEF UsersInv, UsersTyped
<1>2. homes' \in [1..MaxUsers -> Homes] /\ \A v \in 1..MaxUsers \ {u} : homes'[v] = homes[v]
  BY <1>1
<1>3. u \in 1..MaxUsers => ~users[u].marked
  BY <1>1 DEF Numbered, NoUser
<1>4. HomesOK'
  BY <1>1, <1>2, <1>3 DEF HomesOK
<1> QED BY <1>2, <1>4

\* A registration that commits: the new user is the one with the next id, an administrator
\* if nobody was there before.
LEMMA NewcomerKeeps ==
    ASSUME UsersInv, NEW h \in Handlers, NEW role \in {"owner", "admin"}, role = Role(h),
           NextId \in UserIds, users' = [users EXCEPT ![NextId] = NewUser(role)],
           setup' = IF role = "admin" THEN [setup EXCEPT !.state = "consumed", !.bound = FALSE]
                                      ELSE setup,
           Initialized(NextId), Respond(h), UNCHANGED <<tokens, fails, shop, toll>>
    PROVE  UsersInv'
<1> DEFINE u == NextId
           row == NewUser(role)
<1>1. UsersTyped /\ DesksKnown /\ ShopOK /\ SessionsKnown /\ Numbered /\ SessionsOK
  BY DEF UsersInv
<1>2. UserIds = 1..MaxUsers /\ TokenIds = 1..MaxTokens /\ u \in 1..MaxUsers
  BY <1>1, IdsStay
<1>3. u \in Nat /\ u \notin Rows /\ Rows \cup {u} = 1..u
  BY <1>1, NextIdIsFree
<1>4. row \in UserRow /\ row.role = role /\ row.enabled /\ row.role # "none"
  BY DEF NewUser, NoUser, UserRow
<1> HIDE DEF u, row
<1>5. /\ users' \in [1..MaxUsers -> UserRow] /\ users'[u] = row
      /\ \A v \in 1..MaxUsers \ {u} : users'[v] = users[v]
  BY <1>1, <1>2, <1>4 DEF UsersTyped, u, row
<1>6. UserIds' = 1..MaxUsers
  BY <1>5 DEF UserIds
<1>7. Rows' = Rows \cup {u}
  BY <1>2, <1>4, <1>5, <1>6 DEF Rows
<1>8. Numbered'
  <2>1. \E n \in Nat : Rows' = 1..n
    BY <1>3, <1>7
  <2>2. \A v \in 1..MaxUsers : v \notin Rows' => users'[v] = NoUser
    BY <1>1, <1>5, <1>7 DEF Numbered
  <2> QED BY <2>1, <2>2 DEF Numbered
<1>9. AdminRemains'
  <2>1. /\ setup.state = "consumed" <=> Rows # {}
        /\ Rows # {} => Admins # {}
    BY DEF UsersInv, AdminRemains
  <2>2. setup'.state = IF role = "admin" THEN "consumed" ELSE setup.state
    BY <1>1 DEF UsersTyped, SetupRow
  <2>3. Rows = {} => role = "admin"
    BY DEF Role, BootstrapRole, RegisterRole
  <2>4. \A v \in Admins : v \in Admins'
    BY <1>2, <1>3, <1>5, <1>7 DEF Admins, Rows
  <2>5. role = "admin" => u \in Admins'
    BY <1>4, <1>5, <1>7 DEF Admins
  <2> QED BY <1>7, <2>1, <2>2, <2>3, <2>4, <2>5 DEF AdminRemains
<1>10. homes' \in [1..MaxUsers -> Homes] /\ homes'[u] = "initial"
       /\ \A v \in 1..MaxUsers \ {u} : homes'[v] = homes[v]
  BY <1>1, <1>2 DEF UsersTyped, Initialized, Homes, u
<1>11. HomesOK'
  BY <1>5, <1>10 DEF UsersInv, HomesOK
<1>12. SessionsKnown'
  BY <1>1, <1>7 DEF SessionsKnown
<1>13. SessionsOK'
  <2>1. \A v \in 1..MaxUsers : Sessions(v)' = Sessions(v)
    BY DEF Sessions, TokenIds
  <2>2. ASSUME NEW k \in 1..MaxTokens, tokens[k].user # 0
        PROVE  users'[tokens[k].user] = users[tokens[k].user]
    <3>1. tokens[k].user \in Rows
      BY <1>1, <2>2 DEF SessionsKnown
    <3> QED BY <1>2, <1>3, <1>5, <3>1 DEF Rows
  <2> QED BY <1>1, <2>1, <2>2 DEF SessionsOK
<1>14. desks' \in [Handlers -> DeskRow] /\ DesksKnown' /\ ShopOK'
  BY <1>1, <1>7, RespondKeeps
<1>15. setup' \in SetupRow
  BY <1>1 DEF UsersTyped, SetupRow
<1>16. UsersTyped'
  BY <1>1, <1>5, <1>10, <1>14, <1>15 DEF UsersTyped
<1> QED BY <1>8, <1>9, <1>11, <1>12, <1>13, <1>14, <1>16 DEF UsersInv

\* A registration's transaction, whether it commits, is refused or fails.
LEMMA EnrolKeeps ==
    ASSUME UsersInv, NEW h \in Handlers, Enrol(h)
    PROVE  UsersInv'
<1> DEFINE u == NextId
           row == [Vacant EXCEPT !.pc = "discard", !.user = u]
<1>1. UsersTyped /\ DesksKnown /\ ShopOK /\ Numbered
  BY DEF UsersInv
<1>2. u \in UserIds /\ u \in 1..MaxUsers /\ u \notin Rows
  BY <1>1, IdsStay, NextIdIsFree DEF Enrol
<1>3. CASE Respond(h) /\ UNCHANGED <<users, homes, setup, tokens, fails, shop, toll>>
  <2>1. Rows' = Rows
    BY <1>3 DEF Rows, UserIds
  <2>2. desks' \in [Handlers -> DeskRow] /\ DesksKnown' /\ ShopOK'
    BY <1>1, <1>3, <2>1, RespondKeeps
  <2> QED BY <1>1, <1>3, <2>2, UsersRest DEF UsersTyped
<1>4. CASE /\ Role(h) # "none" /\ users' = [users EXCEPT ![u] = NewUser(Role(h))]
           /\ setup' = IF Role(h) = "admin"
                       THEN [setup EXCEPT !.state = "consumed", !.bound = FALSE] ELSE setup
           /\ Initialized(u) /\ Respond(h) /\ UNCHANGED <<tokens, fails, shop, toll>>
  <2>1. Role(h) \in {"owner", "admin"}
    BY <1>4 DEF Role, BootstrapRole, RegisterRole
  <2> QED BY <1>2, <1>4, <2>1, NewcomerKeeps
<1>5. CASE /\ Upset /\ UNCHANGED <<users, setup, tokens, fails, shop>>
           /\ Respond(h) \/ desks' = [desks EXCEPT ![h] = row]
           /\ UNCHANGED homes \/ \E how \in Homes : homes' = [homes EXCEPT ![u] = how]
  <2>1. Rows' = Rows
    BY <1>5 DEF Rows, UserIds
  <2> HIDE DEF u
  <2>2. row \in DeskRow /\ ~row.made /\ row.pc = "discard"
    <3>1. u \in 0..MaxUsers
      BY <1>2, BoundsAre
    <3> QED BY <3>1, BoundsAre DEF Vacant, DeskRow, DeskPcs
  <2> HIDE DEF row
  <2>3. desks' \in [Handlers -> DeskRow] /\ DesksKnown' /\ ShopOK'
    BY <1>1, <1>5, <2>1, <2>2, RespondKeeps, DeskMoves DEF AtUser
  <2>4. toll' \in [calls : Nat, upsets : Nat]
    BY <1>1, <1>5, UpsetIsCounted
  <2>5. homes' \in [1..MaxUsers -> Homes] /\ HomesOK'
    <3>1. CASE UNCHANGED homes
      BY <1>5, <3>1 DEF UsersInv, UsersTyped, HomesOK
    <3>2. CASE \E how \in Homes : homes' = [homes EXCEPT ![u] = how]
      <4>1. PICK how \in Homes : homes' = [homes EXCEPT ![u] = how]
        BY <3>2
      <4> QED BY <1>2, <1>5, <4>1, UnownedIsFree
    <3> QED BY <1>5, <3>1, <3>2
  <2> QED BY <1>5, <2>3, <2>4, <2>5, HomesChange
<1>6. "residue" \in Homes /\ "initial" \in Homes
  BY DEF Homes
<1>7. ASSUME Upset, UNCHANGED <<users, setup, tokens, fails, shop>>,
             \/ Respond(h) /\ (UNCHANGED homes \/ homes' = [homes EXCEPT ![u] = "residue"])
             \/ /\ Initialized(u)
                /\ desks' = [desks EXCEPT ![h] = row] \/ desks' = [desks EXCEPT ![h] = Vacant]
      PROVE  UsersInv'
  <2>1. Respond(h) \/ desks' = [desks EXCEPT ![h] = row]
    BY <1>7 DEF Respond
  <2>2. UNCHANGED homes \/ \E how \in Homes : homes' = [homes EXCEPT ![u] = how]
    BY <1>6, <1>7 DEF Initialized
  <2> QED BY <1>5, <1>7, <2>1, <2>2
<1> HIDE DEF u, row
<1>8. \/ Respond(h) /\ UNCHANGED <<users, homes, setup, toll>>
      \/ /\ Role(h) # "none" /\ users' = [users EXCEPT ![u] = NewUser(Role(h))]
         /\ setup' = IF Role(h) = "admin"
                     THEN [setup EXCEPT !.state = "consumed", !.bound = FALSE] ELSE setup
         /\ Initialized(u) /\ Respond(h) /\ UNCHANGED toll
      \/ /\ Upset /\ UNCHANGED <<users, setup>>
         /\ \/ Respond(h) /\ (UNCHANGED homes \/ homes' = [homes EXCEPT ![u] = "residue"])
            \/ /\ Initialized(u)
               /\ desks' = [desks EXCEPT ![h] = row] \/ desks' = [desks EXCEPT ![h] = Vacant]
  BY Zenon DEF Enrol, u, row
<1>9. UNCHANGED <<tokens, fails, shop>>
  BY DEF Enrol
<1> QED BY <1>3, <1>4, <1>7, <1>8, <1>9

\* Taking back the directory of a failed registration.
LEMMA DiscardKeeps ==
    ASSUME UsersInv, NEW h \in Handlers, Discard(h)
    PROVE  UsersInv'
<1> DEFINE u == desks[h].user
<1>1. UsersTyped /\ DesksKnown /\ ShopOK
  BY DEF UsersInv
<1>2. Respond(h) /\ UNCHANGED <<users, setup, tokens, fails, shop>>
  BY DEF Discard
<1>3. Rows' = Rows
  BY <1>2 DEF Rows, UserIds
<1>4. desks' \in [Handlers -> DeskRow] /\ DesksKnown' /\ ShopOK'
  BY <1>1, <1>2, <1>3, RespondKeeps
<1>5. toll' \in [calls : Nat, upsets : Nat]
  BY <1>1, UpsetIsCounted DEF Discard, UsersTyped
<1>6. UNCHANGED homes \/ (u \notin Rows /\ homes' = [homes EXCEPT ![u] = "none"])
  BY DEF Discard, Discardable
<1>7. homes' \in [1..MaxUsers -> Homes] /\ HomesOK'
  <2>1. CASE UNCHANGED homes
    BY <1>2, <2>1 DEF UsersInv, UsersTyped, HomesOK
  <2>2. CASE u \notin Rows /\ homes' = [homes EXCEPT ![u] = "none"]
    <3>1. "none" \in Homes
      BY DEF Homes
    <3> QED BY <1>2, <2>2, <3>1, UnownedIsFree
  <2> QED BY <1>6, <2>1, <2>2
<1> QED BY <1>2, <1>4, <1>5, <1>7, HomesChange

\* A user works in the directory.
LEMMA WorkKeeps ==
    ASSUME UsersInv, NEW u \in UserIds, NEW how \in {"edited", "data"}, Work(u, how)
    PROVE  UsersInv'
<1>1. UsersTyped /\ DesksKnown /\ ShopOK /\ HomesOK
  BY DEF UsersInv
<1>2. homes' = [homes EXCEPT ![u] = how] /\ UNCHANGED <<users, setup, tokens, fails, shop, desks, toll>>
  BY DEF Work
<1>3. homes' \in [1..MaxUsers -> Homes] /\ homes'[u] = how
      /\ \A v \in 1..MaxUsers \ {u} : homes'[v] = homes[v]
  BY <1>1, <1>2, IdsStay DEF UsersTyped, Homes
<1>4. HomesOK'
  BY <1>1, <1>2, <1>3 DEF HomesOK
<1>5. DesksKnown' /\ ShopOK'
  BY <1>1, <1>2 DEF DesksKnown, Rows, UserIds, ShopOK, MakerOK
<1> QED BY <1>1, <1>2, <1>3, <1>4, <1>5, HomesChange DEF UsersTyped

\* A crash of the API ends every request; the directory a registration was making is of an
\* id that nobody has.
LEMMA CrashKeeps ==
    ASSUME UsersInv, CrashApi
    PROVE  UsersInv'
<1> DEFINE u == NextId
<1>1. UsersTyped /\ DesksKnown /\ ShopOK /\ Numbered
  BY DEF UsersInv
<1>2. u \notin Rows
  BY <1>1, NextIdIsFree
<1>3. /\ Upset /\ desks' = [h \in Handlers |-> Vacant]
      /\ UNCHANGED <<users, setup, tokens, fails, shop>>
      /\ UNCHANGED homes \/ \E how \in Homes : homes' = [homes EXCEPT ![u] = how]
  BY DEF CrashApi, Homes
<1> HIDE DEF u
<1>4. Vacant \in DeskRow /\ ~Vacant.made /\ Vacant.pc = "idle"
  BY BoundsAre DEF Vacant, DeskRow, DeskPcs
<1>5. desks' \in [Handlers -> DeskRow] /\ \A h \in Handlers : desks'[h] = Vacant
  BY <1>3, <1>4
<1>6. DesksKnown'
  BY <1>4, <1>5 DEF DesksKnown, AtUser
<1>7. ShopOK'
  BY <1>1, <1>3, <1>4, <1>5 DEF ShopOK, MakerOK
<1>8. toll' \in [calls : Nat, upsets : Nat]
  BY <1>1, <1>3, UpsetIsCounted
<1>9. homes' \in [1..MaxUsers -> Homes] /\ HomesOK'
  <2>1. CASE UNCHANGED homes
    BY <1>3, <2>1 DEF UsersInv, UsersTyped, HomesOK
  <2>2. CASE \E how \in Homes : homes' = [homes EXCEPT ![u] = how]
    BY <1>2, <1>3, <2>2, UnownedIsFree
  <2> QED BY <1>3, <2>1, <2>2
<1> QED BY <1>3, <1>5, <1>6, <1>7, <1>8, <1>9, HomesChange

-------------------------------------------------------------------------------
(* The further shop.                                                       *)

\* A step of the further shop by one request.
LEMMA ShopMoves ==
    ASSUME UsersInv, NEW h \in Handlers, NEW row \in DeskRow, row.pc \notin AtUser,
           desks' = [desks EXCEPT ![h] = row], UNCHANGED <<users, homes, setup, tokens, fails>>,
           shop' \in FurtherShop, toll' \in [calls : Nat, upsets : Nat],
           shop'.row = "connected" => shop'.dir = "data",
           shop'.marked => shop'.dir # "none" /\ \A g \in Handlers \ {h} : ~desks[g].made,
           shop'.marked => ~row.made,
           MakerOK(row), row.made => shop'.dir # "none",
           row.made => \A g \in Handlers \ {h} : ~desks[g].made,
           \A g \in Handlers \ {h} : desks[g].made => shop'.dir # "none"
    PROVE  UsersInv'
<1>1. UsersTyped /\ DesksKnown /\ ShopOK
  BY DEF UsersInv
<1>2. /\ desks' \in [Handlers -> DeskRow] /\ desks'[h] = row
      /\ \A g \in Handlers \ {h} : desks'[g] = desks[g]
  BY <1>1 DEF UsersTyped
<1>3. DesksKnown'
  <2>1. Rows' = Rows
    BY DEF Rows, UserIds
  <2> QED BY <1>1, <1>2, <2>1 DEF DesksKnown
<1>4. \A g \in Handlers : MakerOK(desks'[g]) /\ (desks'[g].made => shop'.dir # "none")
  BY <1>1, <1>2 DEF ShopOK
<1>5. \A f, g \in Handlers : desks'[f].made /\ desks'[g].made => f = g
  BY <1>1, <1>2 DEF ShopOK
<1>6. shop'.marked => shop'.dir # "none" /\ \A g \in Handlers : ~desks'[g].made
  BY <1>2
<1>7. ShopOK'
  BY <1>4, <1>5, <1>6 DEF ShopOK, MakerOK
<1> QED BY <1>1, <1>2, <1>3, <1>7, UsersRest DEF UsersTyped

\* The row, the directory and the marker of the further shop, and the steps that take the
\* row and the directory back: what one request takes back, no other has finished.
LEMMA ShopStepsKeep ==
    ASSUME UsersInv, NEW h \in Handlers,
           CreateShop(h) \/ MakeDir(h) \/ MarkShop(h) \/ UndoShop(h) \/ UndoDir(h)
    PROVE  UsersInv'
<1> DEFINE at(pc, made) == [desks[h] EXCEPT !.pc = pc, !.made = made]
           others == Handlers \ {h}
<1>1. UsersTyped /\ ShopOK
  BY DEF UsersInv
<1>2. /\ desks \in [Handlers -> DeskRow] /\ desks[h] \in DeskRow /\ shop \in FurtherShop
      /\ toll \in [calls : Nat, upsets : Nat] /\ MakerOK(desks[h])
      /\ desks[h].made => shop.dir # "none" /\ \A g \in others : ~desks[g].made
      /\ \A g \in others : desks[g].made => shop.dir # "none"
      /\ shop.marked => shop.dir # "none" /\ ~desks[h].made /\ \A g \in others : ~desks[g].made
      /\ shop.row = "connected" => shop.dir = "data"
  BY <1>1 DEF UsersTyped, ShopOK
<1>3. Vacant \in DeskRow /\ ~Vacant.made /\ Vacant.pc = "idle"
  BY BoundsAre DEF Vacant, DeskRow, DeskPcs
<1>4. Vacant.pc \notin AtUser /\ MakerOK(Vacant)
  BY <1>3 DEF AtUser, MakerOK
<1>5. \A pc \in DeskPcs : \A made \in BOOLEAN :
         /\ at(pc, made) \in DeskRow /\ at(pc, made).pc = pc /\ at(pc, made).made = made
  BY <1>2 DEF DeskRow
<1>6. \A pc \in DeskPcs : Proceed(h, pc) => desks' = [desks EXCEPT ![h] = at(pc, desks[h].made)]
  <2>1. \A pc \in DeskPcs : at(pc, desks[h].made) = [desks[h] EXCEPT !.pc = pc]
    BY <1>2 DEF DeskRow
  <2> HIDE DEF at
  <2> QED BY <1>2, <2>1 DEF Proceed
<1>7. Respond(h) => desks' = [desks EXCEPT ![h] = Vacant]
  BY DEF Respond
<1>8. desks[h].made \in BOOLEAN /\ {"dir", "runtime", "undo", "undo_dir"} \subseteq DeskPcs
      /\ \A pc \in {"dir", "runtime", "undo", "undo_dir"} : pc \notin AtUser
  BY <1>2 DEF DeskRow, DeskPcs, AtUser
<1>9. Upset => toll' \in [calls : Nat, upsets : Nat]
  BY <1>1, UpsetIsCounted
<1>10. UNCHANGED <<users, homes, setup, tokens, fails>>
  BY DEF CreateShop, MakeDir, MarkShop, UndoShop, UndoDir
<1> HIDE DEF at
<1>11. ASSUME UNCHANGED shop, toll' \in [calls : Nat, upsets : Nat],
              \/ Respond(h)
              \/ Proceed(h, "undo") /\ desks[h].pc \in {"dir", "runtime"}
       PROVE  UsersInv'
  <2>1. CASE Respond(h)
    BY <1>2, <1>3, <1>4, <1>7, <1>10, <1>11, <2>1, ShopMoves
  <2>2. CASE Proceed(h, "undo") /\ desks[h].pc \in {"dir", "runtime"}
    <3> DEFINE row == at("undo", desks[h].made)
    <3>1. row \in DeskRow /\ row.pc = "undo" /\ row.made = desks[h].made /\ row.pc \notin AtUser
          /\ desks' = [desks EXCEPT ![h] = row]
      BY <1>5, <1>6, <1>8, <2>2
    <3>2. MakerOK(row)
      BY <3>1 DEF MakerOK
    <3> HIDE DEF row
    <3> QED BY <1>2, <1>10, <1>11, <3>1, <3>2, ShopMoves
  <2> QED BY <1>11, <2>1, <2>2
<1>12. CASE CreateShop(h)
  <2>1. desks[h].pc = "shop" /\ UNCHANGED toll
    BY <1>12 DEF CreateShop
  <2>2. ~desks[h].made
    BY <1>2, <2>1 DEF MakerOK
  <2>3. CASE shop' = [shop EXCEPT !.row = "new"] /\ Proceed(h, "dir")
    <3> DEFINE row == at("dir", desks[h].made)
    <3>1. row \in DeskRow /\ row.pc = "dir" /\ row.made = desks[h].made /\ row.pc \notin AtUser
          /\ desks' = [desks EXCEPT ![h] = row]
      BY <1>5, <1>6, <1>8, <2>3
    <3>2. MakerOK(row)
      BY <2>2, <3>1 DEF MakerOK
    <3> HIDE DEF row
    <3>3. shop' \in FurtherShop /\ shop'.row = "new" /\ shop'.dir = shop.dir
          /\ shop'.marked = shop.marked
      BY <1>2, <2>3 DEF FurtherShop
    <3> QED BY <1>2, <1>10, <2>1, <2>2, <3>1, <3>2, <3>3, ShopMoves
  <2>4. CASE UNCHANGED shop /\ Respond(h)
    BY <1>2, <1>11, <2>1, <2>4
  <2> QED BY <1>12, <2>3, <2>4 DEF CreateShop
<1>13. CASE MakeDir(h)
  <2>1. desks[h].pc = "dir"
    BY <1>13 DEF MakeDir
  <2>2. CASE /\ shop.dir = "none" /\ shop' = [shop EXCEPT !.dir = "initial"]
             /\ desks' = [desks EXCEPT ![h].pc = "runtime", ![h].made = TRUE] /\ UNCHANGED toll
    <3> DEFINE row == at("runtime", TRUE)
    <3>1. row \in DeskRow /\ row.pc = "runtime" /\ row.made /\ row.pc \notin AtUser
      BY <1>5, <1>8
    <3>2. desks' = [desks EXCEPT ![h] = row]
      BY <1>2, <2>2 DEF at
    <3>3. MakerOK(row)
      BY <3>1 DEF MakerOK
    <3> HIDE DEF row
    <3>4. shop' \in FurtherShop /\ shop'.row = shop.row /\ shop'.dir = "initial"
          /\ shop'.marked = shop.marked
      BY <1>2, <2>2 DEF FurtherShop
    <3> QED BY <1>2, <1>10, <2>2, <3>1, <3>2, <3>3, <3>4, ShopMoves
  <2>3. CASE Proceed(h, "undo") /\ UNCHANGED <<shop, toll>>
    BY <1>2, <1>11, <2>1, <2>3
  <2>4. CASE Upset /\ Proceed(h, "undo") /\ UNCHANGED shop
    BY <1>9, <1>11, <2>1, <2>4
  <2> QED BY <1>13, <2>2, <2>3, <2>4 DEF MakeDir
<1>14. CASE MarkShop(h)
  <2>1. desks[h].pc = "runtime" /\ desks[h].made
    BY <1>2, <1>14 DEF MarkShop, MakerOK
  <2>2. CASE /\ shop' = IF shop.row = "none" THEN shop ELSE [shop EXCEPT !.marked = TRUE]
             /\ Respond(h) /\ UNCHANGED toll
    <3>1. shop' \in FurtherShop /\ shop'.row = shop.row /\ shop'.dir = shop.dir
      BY <1>2, <2>2 DEF FurtherShop
    <3> QED BY <1>2, <1>3, <1>4, <1>7, <1>10, <2>1, <2>2, <3>1, ShopMoves
  <2>3. CASE Upset /\ Proceed(h, "undo") /\ UNCHANGED shop
    BY <1>9, <1>11, <2>1, <2>3
  <2> QED BY <1>14, <2>2, <2>3 DEF MarkShop
<1>15. CASE UndoShop(h)
  <2>1. desks[h].pc = "undo" /\ UNCHANGED toll
    BY <1>15 DEF UndoShop
  <2>2. CASE /\ shop' = [shop EXCEPT !.row = "none", !.marked = FALSE]
             /\ IF desks[h].made THEN Proceed(h, "undo_dir") ELSE Respond(h)
    <3>1. shop' \in FurtherShop /\ shop'.row = "none" /\ shop'.dir = shop.dir /\ ~shop'.marked
      BY <1>2, <2>2 DEF FurtherShop
    <3>2. CASE desks[h].made
      <4> DEFINE row == at("undo_dir", desks[h].made)
      <4>1. row \in DeskRow /\ row.pc = "undo_dir" /\ row.made /\ row.pc \notin AtUser
            /\ desks' = [desks EXCEPT ![h] = row]
        BY <1>5, <1>6, <1>8, <2>2, <3>2
      <4>2. MakerOK(row)
        BY <4>1 DEF MakerOK
      <4> HIDE DEF row
      <4> QED BY <1>2, <1>10, <2>1, <3>1, <3>2, <4>1, <4>2, ShopMoves
    <3>3. CASE ~desks[h].made
      BY <1>2, <1>3, <1>4, <1>7, <1>10, <2>1, <2>2, <3>1, <3>3, ShopMoves
    <3> QED BY <3>2, <3>3
  <2>3. CASE UNCHANGED shop /\ Respond(h)
    BY <1>2, <1>11, <2>1, <2>3
  <2> QED BY <1>15, <2>2, <2>3 DEF UndoShop
<1>16. CASE UndoDir(h)
  <2>1. desks[h].pc = "undo_dir" /\ Respond(h) /\ UNCHANGED toll
        /\ shop' = [shop EXCEPT !.dir = IF shop.dir = "initial" THEN "none" ELSE shop.dir]
    BY <1>16 DEF UndoDir
  <2>2. desks[h].made
    BY <1>2, <2>1 DEF MakerOK
  <2>3. ~shop.marked /\ \A g \in others : ~desks[g].made
    BY <1>2, <2>2
  <2>4. shop' \in FurtherShop /\ shop'.row = shop.row /\ shop'.marked = shop.marked
        /\ (shop.dir = "data" => shop'.dir = "data")
    BY <1>2, <2>1 DEF FurtherShop
  <2> QED BY <1>2, <1>3, <1>4, <1>7, <1>10, <2>1, <2>3, <2>4, ShopMoves
<1> QED BY <1>12, <1>13, <1>14, <1>15, <1>16

\* The further shop is connected.
LEMMA ConnectKeeps ==
    ASSUME UsersInv, Connect
    PROVE  UsersInv'
<1>1. UsersTyped /\ DesksKnown /\ ShopOK
  BY DEF UsersInv
<1>2. UNCHANGED <<users, homes, setup, tokens, fails, desks, toll>>
      /\ shop' = [shop EXCEPT !.row = "connected", !.dir = "data"]
  BY DEF Connect
<1>3. shop' \in FurtherShop /\ shop'.dir = "data" /\ shop'.marked = shop.marked
  BY <1>1, <1>2 DEF UsersTyped, FurtherShop
<1>4. DesksKnown' /\ ShopOK'
  BY <1>1, <1>2, <1>3 DEF DesksKnown, Rows, UserIds, ShopOK, MakerOK
<1> QED BY <1>1, <1>2, <1>3, <1>4, UsersRest DEF UsersTyped

-------------------------------------------------------------------------------
(* Every step of the accounts' work, and the start.                        *)

\* Every request, the work of a user, the connection and a crash keep the invariant.
LEMMA UsersStepsKeep ==
    ASSUME UsersInv, UsersNext
    PROVE  UsersInv'
<1>1. ASSUME NEW h \in Handlers, Handle(h) PROVE UsersInv'
  <2>1. CASE \/ Register(h) \/ Bootstrap(h) \/ Refuse(h)
             \/ \E u \in UserIds, right \in BOOLEAN : Login(h, u, right)
             \/ \E k \in TokenIds \cup {0} : Authorise(h, k)
             \/ \E u \in UserIds : Unlock(h, u)
             \/ \E open \in BOOLEAN : SetRegistration(h, open)
    BY <2>1, RequestsKeep
  <2>2. CASE \/ \E k \in TokenIds, pc \in {"logout", "password", "shop"} : Enter(h, k, pc)
             \/ Logout(h)
             \/ \E u \in UserIds : RevokeSessions(h, u)
    BY <2>2, SessionStepsKeep
  <2>3. CASE Repair(h) \/ Clear(h) \/ CreateToken(h) \/ ChangePassword(h) \/ Enrol(h) \/ Discard(h)
    BY <2>3, LoginStepsKeep, CreateTokenKeeps, ChangePasswordKeeps, EnrolKeeps, DiscardKeeps
  <2>4. CASE \E u \in UserIds, role \in {"owner", "admin"}, enabled \in BOOLEAN :
                UpdateUser(h, u, role, enabled)
    BY <2>4, UpdateUserKeeps
  <2>5. CASE CreateShop(h) \/ MakeDir(h) \/ MarkShop(h) \/ UndoShop(h) \/ UndoDir(h)
    BY <2>5, ShopStepsKeep
  <2> QED BY <1>1, <2>1, <2>2, <2>3, <2>4, <2>5 DEF Handle
<1> QED BY <1>1, WorkKeeps, ConnectKeeps, CrashKeeps DEF UsersNext

\* A fresh installation, or one with its first administrators.
LEMMA UsersStart ==
    ASSUME UsersInit(1..MaxUsers, 1..MaxTokens, Handlers)
    PROVE  UsersInv
<1> DEFINE older(u) == [NewUser("admin") EXCEPT !.marked = (u = 1), !.legacy = (u = 2)]
           begun(k) == [NoToken EXCEPT !.user = k, !.basis = 1]
<1>1. /\ NoUser \in UserRow /\ ~NoUser.marked /\ NoUser.role = "none"
      /\ \A u \in 1..MaxUsers :
            /\ older(u) \in UserRow /\ older(u).role = "admin" /\ older(u).enabled
            /\ older(u).pw = 1 /\ (older(u).marked <=> u = 1)
  BY DEF NoUser, NewUser, UserRow
<1>2. /\ NoToken \in TokenRow /\ NoToken.user = 0
      /\ \A k \in 1..MaxUsers : begun(k) \in TokenRow /\ begun(k).user = k /\ begun(k).basis = 1
  <2>1. NoToken \in TokenRow /\ NoToken.user = 0
    BY BoundsAre DEF NoToken, TokenRow
  <2>2. \A k \in 1..MaxUsers : k \in 0..MaxUsers
    BY BoundsAre
  <2> QED BY <2>1, <2>2 DEF TokenRow
<1> HIDE DEF older, begun
<1>3. desks = [h \in Handlers |-> Vacant] /\ Vacant \in DeskRow /\ ~Vacant.made /\ Vacant.pc = "idle"
  BY BoundsAre DEF UsersInit, Vacant, DeskRow, DeskPcs
<1>4. /\ desks \in [Handlers -> DeskRow] /\ shop \in FurtherShop
      /\ fails \in [0..MaxUsers -> Nat] /\ toll \in [calls : Nat, upsets : Nat]
  <2>1. (1..MaxUsers) \cup {0} = 0..MaxUsers
    BY BoundsAre
  <2> QED BY <1>3, <2>1 DEF UsersInit, NoShop, FurtherShop, Client
<1>5. DesksKnown /\ ShopOK
  BY <1>3 DEF DesksKnown, AtUser, ShopOK, MakerOK, NoShop, UsersInit
<1>6. CASE /\ setup \in SetupRow /\ setup.state = "pending"
           /\ users = [u \in 1..MaxUsers |-> NoUser]
           /\ homes = [u \in 1..MaxUsers |-> "none"]
           /\ tokens = [k \in 1..MaxTokens |-> NoToken]
  <2>1. UsersTyped
    BY <1>1, <1>2, <1>4, <1>6 DEF UsersTyped, Homes
  <2>2. UserIds = 1..MaxUsers /\ TokenIds = 1..MaxTokens
    BY <2>1, IdsStay
  <2>3. Rows = {} /\ {} = 1..0
    BY <1>1, <1>6, <2>2 DEF Rows
  <2>4. Numbered
    BY <1>6, <2>3 DEF Numbered
  <2>5. SessionsKnown /\ HomesOK /\ AdminRemains
    BY <1>1, <1>2, <1>6, <2>3 DEF SessionsKnown, HomesOK, AdminRemains
  <2>6. SessionsOK
    <3>1. \A u \in 1..MaxUsers : Sessions(u) = {}
      BY <1>2, <1>6, <2>2 DEF Sessions
    <3>2. Cardinality({}) = 0
      BY FS_EmptySet
    <3>3. \A u \in 1..MaxUsers : Cardinality(Sessions(u)) <= MaxSessions
      BY <3>1, <3>2, BoundsAre
    <3>4. \A k \in 1..MaxTokens : tokens[k].user = 0
      BY <1>2, <1>6
    <3> QED BY <3>3, <3>4 DEF SessionsOK
  <2> QED BY <1>5, <2>1, <2>4, <2>5, <2>6 DEF UsersInv
<1>7. CASE /\ setup \in SetupRow /\ setup.state = "consumed"
           /\ users = [u \in 1..MaxUsers |-> IF u > 2 THEN NoUser ELSE older(u)]
           /\ homes = [u \in 1..MaxUsers |->
                 CASE u = 1 -> "data" [] u = 2 -> "residue" [] OTHER -> "none"]
           /\ tokens = [k \in 1..MaxTokens |-> IF k \in (1..MaxUsers) \cap {1, 2} THEN begun(k)
                                                                                 ELSE NoToken]
  <2> DEFINE n == IF MaxUsers = 1 THEN 1 ELSE 2
  <2>1. \A u \in 1..MaxUsers :
           /\ homes[u] = CASE u = 1 -> "data" [] u = 2 -> "residue" [] OTHER -> "none"
           /\ homes[u] \in Homes
    BY <1>7 DEF Homes
  <2>2. \A u \in 1..MaxUsers :
           /\ users[u] \in UserRow
           /\ u > 2 => users[u] = NoUser
           /\ ~(u > 2) => users[u] = older(u)
    BY <1>1, <1>7
  <2>3. \A k \in 1..MaxTokens :
           /\ tokens[k] \in TokenRow
           /\ tokens[k].user # 0 => /\ k \in 1..MaxUsers /\ k \in {1, 2}
                                    /\ tokens[k].user = k /\ tokens[k].basis = 1
    <3>1. ASSUME NEW k \in 1..MaxTokens, k \in (1..MaxUsers) \cap {1, 2}
          PROVE  tokens[k] = begun(k) /\ begun(k) \in TokenRow
                 /\ begun(k).user = k /\ begun(k).basis = 1
      BY <1>2, <1>7, <3>1
    <3>2. ASSUME NEW k \in 1..MaxTokens, k \notin (1..MaxUsers) \cap {1, 2}
          PROVE  tokens[k] = NoToken
      BY <1>7, <3>2
    <3> QED BY <1>2, <3>1, <3>2
  <2>4. UsersTyped
    BY <1>4, <1>7, <2>1, <2>2, <2>3 DEF UsersTyped
  <2>5. UserIds = 1..MaxUsers /\ TokenIds = 1..MaxTokens
    BY <2>4, IdsStay
  <2>6. Rows = 1..n /\ n \in Nat /\ 1 \in Rows
    <3>1. \A u \in 1..MaxUsers : u \in Rows <=> u <= 2
      BY <1>1, <2>2, <2>5 DEF Rows
    <3>2. Rows \subseteq 1..MaxUsers
      BY <2>5 DEF Rows
    <3>3. 1 \in Rows
      BY <3>1, BoundsAre
    <3>4. CASE MaxUsers = 1
      <4>1. \A u \in Rows : u \in 1..1
        BY <3>2, <3>4
      <4>2. \A u \in 1..1 : u \in Rows
        BY <3>3
      <4>3. Rows = 1..1
        BY <4>1, <4>2
      <4> QED BY <3>3, <3>4, <4>3
    <3>5. CASE MaxUsers # 1
      <4>1. \A u \in 1..2 : u \in 1..MaxUsers /\ u <= 2
        BY <3>5, BoundsAre
      <4>2. \A u \in Rows : u \in 1..2
        BY <3>1, <3>2, BoundsAre
      <4>3. Rows = 1..2
        BY <3>1, <4>1, <4>2
      <4> QED BY <3>3, <3>5, <4>3
    <3> QED BY <3>4, <3>5
  <2>7. Numbered
    <3>1. \A u \in 1..MaxUsers : u \notin Rows => u > 2
      BY <2>6, BoundsAre
    <3> QED BY <2>2, <2>6, <3>1 DEF Numbered
  <2>8. AdminRemains
    <3>1. 1 \in 1..MaxUsers /\ users[1] = older(1)
      BY <2>2, BoundsAre
    <3> QED BY <1>1, <1>7, <2>6, <3>1 DEF AdminRemains, Admins
  <2>9. HomesOK
    <3>1. \A u \in 1..MaxUsers : users[u].marked => u = 1
      BY <1>1, <2>2
    <3> QED BY <2>1, <3>1 DEF HomesOK
  <2>10. ASSUME NEW k \in 1..MaxTokens, tokens[k].user # 0
         PROVE  /\ tokens[k].user \in Rows /\ users[tokens[k].user].enabled
                /\ tokens[k].basis = users[tokens[k].user].pw
    <3>1. k \in 1..MaxUsers /\ k \in {1, 2} /\ tokens[k].user = k /\ tokens[k].basis = 1
      BY <2>3, <2>10
    <3>2. users[k] = older(k)
      BY <2>2, <3>1
    <3> QED BY <1>1, <2>5, <3>1, <3>2 DEF Rows
  <2>11. SessionsKnown
    BY <2>10 DEF SessionsKnown
  <2>12. ASSUME NEW u \in 1..MaxUsers PROVE Cardinality(Sessions(u)) <= MaxSessions
    <3>1. Sessions(u) \subseteq {u}
      BY <2>3, <2>5 DEF Sessions
    <3>2. IsFiniteSet({u}) /\ Cardinality({u}) = 1
      BY FS_Singleton
    <3>3. IsFiniteSet(Sessions(u)) /\ Cardinality(Sessions(u)) <= 1
      BY <3>1, <3>2, FS_Subset
    <3> QED BY <3>3, FS_CardinalityType, BoundsAre
  <2>13. SessionsOK
    BY <2>10, <2>12 DEF SessionsOK
  <2> QED BY <1>5, <2>4, <2>7, <2>8, <2>9, <2>11, <2>13 DEF UsersInv
<1>8. PICK guarded \in BOOLEAN, allowed \in BOOLEAN :
          \/ /\ setup = [state |-> "pending", bound |-> FALSE, open |-> TRUE,
                         guarded |-> guarded, allowed |-> allowed]
             /\ users = [u \in 1..MaxUsers |-> NoUser]
             /\ homes = [u \in 1..MaxUsers |-> "none"]
             /\ tokens = [k \in 1..MaxTokens |-> NoToken]
          \/ /\ setup = [state |-> "consumed", bound |-> FALSE, open |-> FALSE,
                         guarded |-> FALSE, allowed |-> FALSE]
             /\ users = [u \in 1..MaxUsers |-> IF u > 2 THEN NoUser ELSE older(u)]
             /\ homes = [u \in 1..MaxUsers |->
                   CASE u = 1 -> "data" [] u = 2 -> "residue" [] OTHER -> "none"]
             /\ tokens = [k \in 1..MaxTokens |-> IF k \in (1..MaxUsers) \cap {1, 2} THEN begun(k)
                                                                                   ELSE NoToken]
  BY Zenon DEF UsersInit, older, begun
<1>9. \/ setup = [state |-> "pending", bound |-> FALSE, open |-> TRUE,
                 guarded |-> guarded, allowed |-> allowed]
      \/ setup = [state |-> "consumed", bound |-> FALSE, open |-> FALSE,
                 guarded |-> FALSE, allowed |-> FALSE]
  BY <1>8
<1>10. setup \in SetupRow
  <2>1. CASE setup.state = "pending"
    <3>1. setup = [state |-> "pending", bound |-> FALSE, open |-> TRUE,
                   guarded |-> guarded, allowed |-> allowed]
      BY <1>9, <2>1
    <3>2. guarded \in BOOLEAN /\ allowed \in BOOLEAN
      OBVIOUS
    <3> QED BY ONLY <3>1, <3>2 DEF SetupRow
  <2>2. CASE setup.state # "pending"
    <3>1. setup = [state |-> "consumed", bound |-> FALSE, open |-> FALSE,
                   guarded |-> FALSE, allowed |-> FALSE]
      BY <1>9, <2>2
    <3> QED BY ONLY <3>1 DEF SetupRow
  <2> QED BY <2>1, <2>2
<1>11. CASE setup.state = "pending"
  BY <1>6, <1>8, <1>10, <1>11
<1>12. CASE setup.state = "consumed"
  BY <1>7, <1>8, <1>10, <1>12
<1> QED BY <1>9, <1>11, <1>12

-------------------------------------------------------------------------------
(* The control plane, whatever work a behaviour follows.                   *)

AccountsOK == AdminRemains /\ StorageIsKept /\ RevocationHolds
AccountsInv == AccountsOK /\ (workload = "accounts" => UsersInv)

\* What the invariant says of users, directories and sessions.
LEMMA UsersInvSuffices ==
    ASSUME UsersInv
    PROVE  AccountsOK
<1>1. UserIds = 1..MaxUsers /\ TokenIds = 1..MaxTokens
  BY IdsStay DEF UsersInv
<1>2. StorageIsKept
  BY <1>1 DEF UsersInv, HomesOK, ShopOK, StorageIsKept
<1>3. RevocationHolds
  BY <1>1 DEF UsersInv, SessionsOK, RevocationHolds
<1> QED BY <1>2, <1>3 DEF UsersInv, AccountsOK

\* Users, directories and sessions stay in order in every behaviour of the control plane.
LEMMA AccountsInvariant == Spec => []AccountsInv
<1>1. Init => AccountsInv
  <2> SUFFICES ASSUME Init PROVE AccountsInv
    OBVIOUS
  <2>1. CASE workload = "accounts"
    <3>1. UsersInit(1..MaxUsers, 1..MaxTokens, Handlers)
      BY <2>1 DEF Init
    <3> QED BY <3>1, UsersStart, UsersInvSuffices DEF AccountsInv
  <2>2. CASE workload # "accounts"
    <3>1. UsersInit({}, {}, {}) /\ setup.state = "pending"
      BY <2>2 DEF Init, UsersAtRest
    <3>2. UserIds = {} /\ TokenIds = {} /\ shop = NoShop
      BY <3>1 DEF UsersInit, UserIds, TokenIds
    <3>3. Rows = {}
      BY <3>2 DEF Rows
    <3> QED BY <2>2, <3>1, <3>2, <3>3
         DEF AccountsInv, AccountsOK, AdminRemains, StorageIsKept, RevocationHolds, NoShop
  <2> QED BY <2>1, <2>2
<1>2. AccountsInv /\ [Next]_vars => AccountsInv'
  <2> SUFFICES ASSUME AccountsInv, [Next]_vars PROVE AccountsInv'
    OBVIOUS
  <2>1. CASE UNCHANGED <<workload, userVars>>
    <3>1. AccountsOK'
      BY <2>1 DEF AccountsInv, AccountsOK, AdminRemains, StorageIsKept, RevocationHolds, Rows,
                  Admins, Sessions, UserIds, TokenIds, userVars
    <3>2. UsersInv => UsersInv'
      BY <2>1 DEF UsersInv, UsersTyped, Numbered, SessionsKnown, AdminRemains, HomesOK, SessionsOK,
                  DesksKnown, ShopOK, MakerOK, Rows, Admins, Sessions, UserIds, TokenIds, userVars
    <3> QED BY <2>1, <3>1, <3>2 DEF AccountsInv
  <2>2. CASE Accounts
    <3>1. UsersInv /\ UsersNext /\ workload' = workload
      BY <2>2 DEF Accounts, AccountsInv
    <3>2. UsersInv'
      BY <3>1, UsersStepsKeep
    <3>3. AccountsOK'
      BY <3>2, UsersInvSuffices, PTL
    <3> QED BY <3>2, <3>3 DEF AccountsInv
  <2> QED BY <2>1, <2>2 DEF Next, ShopSync, OpsRun, Probing, vars
<1> QED BY <1>1, <1>2, PTL DEF Spec

\* Once the platform has been claimed it always has an administrator who can log in, however
\* many administrators demote and disable one another at the same time, and it is claimed once.
THEOREM AdministratorRemains == Spec => []AdminRemains
<1>1. AccountsInv => AdminRemains
  BY DEF AccountsInv, AccountsOK
<1> QED BY <1>1, AccountsInvariant, PTL

\* No compensation of a failed registration or of a failed shop takes away the directory of
\* an initialised user or shop, whatever requests, failures and crashes went before.
THEOREM DirectoriesAreKept == Spec => []StorageIsKept
<1>1. AccountsInv => StorageIsKept
  BY DEF AccountsInv, AccountsOK
<1> QED BY <1>1, AccountsInvariant, PTL

\* A session outlives a change of password or a disabled user only when its login had compared
\* the old row before the change, and nobody has more sessions than allowed.
THEOREM RevocationIsKept == Spec => []RevocationHolds
<1>1. AccountsInv => RevocationHolds
  BY DEF AccountsInv, AccountsOK
<1> QED BY <1>1, AccountsInvariant, PTL

-------------------------------------------------------------------------------
(* The connection of a shop: what is reserved for whom, and what is known  *)
(* of the files while a synchronisation writes them.                       *)

\* Each record has its fields.
IsTask(r) == r = [pc |-> r.pc, op |-> r.op, cookie |-> r.cookie, job |-> r.job,
                  login |-> r.login, prev |-> r.prev, result |-> r.result]
LoginRow == [status : {"none", "waiting", "confirmed", "expired"}, cookie : Cookies,
             listed : BOOLEAN, inFlight : BOOLEAN, consuming : BOOLEAN]

\* Where a task must hold the reservation, and where it may hold one of its own.
Owning == {"call", "pause", "row"} \cup Writing \cup Undoing
Holding(t) == {"open", "call", "row", "leave"} \cup Writing \cup Undoing
              \cup (IF t = Lane THEN {"settle"} ELSE {})
Asking == {"code", "poll"}

\* What a task knows of its login and of the reservation.
TaskOK(t) ==
    /\ tasks[t].login # None =>
          /\ t # Lane /\ tasks[t].login \in Logins
          /\ IF tasks[t].pc \in Asking THEN logins[tasks[t].login].inFlight
                                       ELSE logins[tasks[t].login].consuming
    /\ tasks[t].pc \in Asking => tasks[t].login # None
    /\ tasks[t].pc = "reserve" => tasks[t].login = None
    /\ tasks[t].pc = "start" => t # Lane
    /\ tasks[t].pc \in Owning => lease.connect = Owner(t)
    /\ lease.connect = t => tasks[t].login = None /\ tasks[t].pc \in Holding(t)
    /\ lease.sync = t => tasks[t].pc = "call"

\* A login is in flight or being consumed, and not both.
LoginOK(l) ==
    /\ logins[l].inFlight => logins[l].status \in {"waiting", "expired"}
    /\ logins[l].consuming => /\ logins[l].status \in {"confirmed", "expired"}
                              /\ ~logins[l].inFlight /\ logins[l].listed
    /\ lease.connect = l => \/ logins[l].inFlight \/ logins[l].consuming
                            \/ logins[l].listed /\ logins[l].status # "expired"

Apart == \A t, u \in Tasks : t # u /\ tasks[t].login # None => tasks[t].login # tasks[u].login

ReservedOK ==
    /\ DOMAIN tasks = Tasks /\ \A t \in Tasks : IsTask(tasks[t]) /\ TaskOK(t)
    /\ logins \in [Logins -> LoginRow] /\ \A l \in Logins : LoginOK(l)
    /\ lease = [connect |-> lease.connect, sync |-> lease.sync]
    /\ Apart

\* What the steps of a synchronisation and of an edit are for.
Replaces(r) == r.op \in {"save", "complete"}
Switches(r) == r.prev.cookie \notin {None, r.cookie}

RowOK(r) ==
    /\ r.pc \in {"products", "cookie"} \cup Undoing => Replaces(r)
    /\ r.pc \in {"call", "pause"} \cup Writing /\ ~Replaces(r) => r.prev = NoPrev
    /\ r.pc = "undo_products" => Switches(r)
    /\ r.pc \in {"edit", "map"} => r.op = "edit"

\* An edit is of the mapping of the saved cookie's seller.
EditOK(r) == r.op = "edit" => r.cookie = files.cookie

\* What a replacement has found, and how far it has come.
SwapOK(r) ==
    Replaces(r) =>
       /\ r.pc \in {"call", "pause"} \cup Writing \cup Undoing =>
             r.prev.products \in {None, r.prev.cookie}
       /\ r.pc \in {"call", "pause", "products", "cookie"} => files.cookie = r.prev.cookie
       /\ r.pc \in {"call", "pause", "undo_cookie"} \cup Writing =>
             files.products \in {None, r.prev.cookie}
       /\ r.pc \in {"cookie", "snapshot"} /\ Switches(r) => files.products = None
       /\ r.pc \in {"undo_snapshot", "undo_products"} /\ Switches(r) =>
             files.cookie = r.prev.cookie

FilesOK ==
    /\ files = [cookie |-> files.cookie, snapshot |-> files.snapshot, products |-> files.products]
    /\ history \in [strayed : BOOLEAN]
    /\ \A t \in Tasks : RowOK(tasks[t])
    /\ ~history.strayed =>
          /\ files.products \in {None, files.cookie}
          /\ \A t \in Tasks : EditOK(tasks[t]) /\ SwapOK(tasks[t])

ConnectionInv == ReservedOK /\ FilesOK

-------------------------------------------------------------------------------
(* Steps of one task.                                                      *)

\* The owners of leases are told apart.
LEMMA NamesAre ==
    /\ Lane \in Tasks /\ Threads \subseteq Tasks /\ Lane \notin Threads
    /\ \A t \in Tasks : t \notin Logins /\ t # None
    /\ None \notin Logins
BY OwnersAssumption DEF Tasks

\* A step of task t alone, and one that leaves it what it is about.
Moved(t) ==
    /\ DOMAIN tasks' = Tasks /\ IsTask(tasks'[t])
    /\ \A u \in Tasks \ {t} : tasks'[u] = tasks[u]
Moves(t, pc) ==
    /\ Moved(t) /\ tasks'[t].pc = pc
    /\ tasks'[t].op = tasks[t].op /\ tasks'[t].cookie = tasks[t].cookie
    /\ tasks'[t].login = tasks[t].login

\* A new row for a task.
LEMMA NewTask ==
    ASSUME ReservedOK, NEW t \in Tasks, NEW row, IsTask(row), tasks' = [tasks EXCEPT ![t] = row]
    PROVE  Moved(t) /\ tasks'[t] = row
BY DEF ReservedOK, Moved

\* The ways in which a task goes on.
LEMMA GoesOn ==
    ASSUME ReservedOK, NEW t \in Tasks, NEW pc, NEW result, NEW job, NEW prev
    PROVE  /\ Goes(t, pc) => Moves(t, pc) /\ tasks'[t].prev = tasks[t].prev
           /\ tasks' = [tasks EXCEPT ![t].result = result, ![t].pc = pc] =>
                 Moves(t, pc) /\ tasks'[t].prev = tasks[t].prev
           /\ tasks' = [tasks EXCEPT ![t].job = job, ![t].pc = pc] =>
                 Moves(t, pc) /\ tasks'[t].prev = tasks[t].prev
           /\ tasks' = [tasks EXCEPT ![t].pc = pc, ![t].prev = prev] =>
                 Moves(t, pc) /\ tasks'[t].prev = prev
           /\ tasks' = [tasks EXCEPT ![t].pc = pc, ![t].result = result] =>
                 Moves(t, pc) /\ tasks'[t].prev = tasks[t].prev
<1> DEFINE r == tasks[t]
<1>1. r = [pc |-> r.pc, op |-> r.op, cookie |-> r.cookie, job |-> r.job,
           login |-> r.login, prev |-> r.prev, result |-> r.result]
  BY DEF ReservedOK, IsTask
<1>2. DOMAIN tasks = Tasks /\ t \in DOMAIN tasks
  BY DEF ReservedOK
<1>3. ASSUME NEW row, tasks' = [tasks EXCEPT ![t] = row], IsTask(row), row.op = r.op,
             row.cookie = r.cookie, row.login = r.login
      PROVE  Moves(t, row.pc) /\ tasks'[t].prev = row.prev
  BY <1>3, NewTask DEF Moves
<1>4. Goes(t, pc) => Moves(t, pc) /\ tasks'[t].prev = tasks[t].prev
  <2> DEFINE row == [r EXCEPT !.pc = pc]
  <2>1. IsTask(row) /\ row.op = r.op /\ row.cookie = r.cookie /\ row.login = r.login
        /\ row.pc = pc /\ row.prev = r.prev
    BY <1>1 DEF IsTask
  <2>2. Goes(t, pc) => tasks' = [tasks EXCEPT ![t] = row]
    BY DEF Goes
  <2> HIDE DEF row
  <2> QED BY <1>3, <2>1, <2>2
<1>5. tasks' = [tasks EXCEPT ![t].result = result, ![t].pc = pc] =>
         Moves(t, pc) /\ tasks'[t].prev = tasks[t].prev
  <2> DEFINE mid == [r EXCEPT !.result = result]
             row == [mid EXCEPT !.pc = pc]
  <2>1. [tasks EXCEPT ![t].result = result, ![t].pc = pc] = [tasks EXCEPT ![t] = row]
    BY <1>2
  <2>2. IsTask(mid) /\ mid.op = r.op /\ mid.cookie = r.cookie /\ mid.login = r.login
        /\ mid.prev = r.prev
    BY <1>1 DEF IsTask
  <2> HIDE DEF mid
  <2>3. IsTask(row) /\ row.op = r.op /\ row.cookie = r.cookie /\ row.login = r.login
        /\ row.pc = pc /\ row.prev = r.prev
    BY <2>2 DEF IsTask
  <2> HIDE DEF row
  <2> QED BY <1>3, <2>1, <2>3
<1>6. tasks' = [tasks EXCEPT ![t].job = job, ![t].pc = pc] =>
         Moves(t, pc) /\ tasks'[t].prev = tasks[t].prev
  <2> DEFINE mid == [r EXCEPT !.job = job]
             row == [mid EXCEPT !.pc = pc]
  <2>1. [tasks EXCEPT ![t].job = job, ![t].pc = pc] = [tasks EXCEPT ![t] = row]
    BY <1>2
  <2>2. IsTask(mid) /\ mid.op = r.op /\ mid.cookie = r.cookie /\ mid.login = r.login
        /\ mid.prev = r.prev
    BY <1>1 DEF IsTask
  <2> HIDE DEF mid
  <2>3. IsTask(row) /\ row.op = r.op /\ row.cookie = r.cookie /\ row.login = r.login
        /\ row.pc = pc /\ row.prev = r.prev
    BY <2>2 DEF IsTask
  <2> HIDE DEF row
  <2> QED BY <1>3, <2>1, <2>3
<1>7. tasks' = [tasks EXCEPT ![t].pc = pc, ![t].prev = prev] =>
         Moves(t, pc) /\ tasks'[t].prev = prev
  <2> DEFINE mid == [r EXCEPT !.pc = pc]
             row == [mid EXCEPT !.prev = prev]
  <2>1. [tasks EXCEPT ![t].pc = pc, ![t].prev = prev] = [tasks EXCEPT ![t] = row]
    BY <1>2
  <2>2. IsTask(mid) /\ mid.op = r.op /\ mid.cookie = r.cookie /\ mid.login = r.login
        /\ mid.pc = pc
    BY <1>1 DEF IsTask
  <2> HIDE DEF mid
  <2>3. IsTask(row) /\ row.op = r.op /\ row.cookie = r.cookie /\ row.login = r.login
        /\ row.pc = pc /\ row.prev = prev
    BY <2>2 DEF IsTask
  <2> HIDE DEF row
  <2> QED BY <1>3, <2>1, <2>3
<1>8. tasks' = [tasks EXCEPT ![t].pc = pc, ![t].result = result] =>
         Moves(t, pc) /\ tasks'[t].prev = tasks[t].prev
  <2> DEFINE mid == [r EXCEPT !.pc = pc]
             row == [mid EXCEPT !.result = result]
  <2>1. [tasks EXCEPT ![t].pc = pc, ![t].result = result] = [tasks EXCEPT ![t] = row]
    BY <1>2
  <2>2. IsTask(mid) /\ mid.op = r.op /\ mid.cookie = r.cookie /\ mid.login = r.login
        /\ mid.prev = r.prev /\ mid.pc = pc
    BY <1>1 DEF IsTask
  <2> HIDE DEF mid
  <2>3. IsTask(row) /\ row.op = r.op /\ row.cookie = r.cookie /\ row.login = r.login
        /\ row.pc = pc /\ row.prev = r.prev
    BY <2>2 DEF IsTask
  <2> HIDE DEF row
  <2> QED BY <1>3, <2>1, <2>3
<1> QED BY <1>4, <1>5, <1>6, <1>7, <1>8

\* A synchronisation that fails goes on to give back what it holds.
LEMMA FailsOn ==
    ASSUME ReservedOK, NEW t \in Tasks, NEW result, Fails(t, result)
    PROVE  /\ Moves(t, IF t = Lane THEN "settle" ELSE "leave")
           /\ tasks'[t].prev = tasks[t].prev
BY GoesOn DEF Fails

\* What another task knows stays true while its login and the reservation stay its own.
LEMMA OthersKeep ==
    ASSUME ReservedOK, NEW u \in Tasks, tasks'[u] = tasks[u],
           tasks[u].login # None =>
              /\ logins'[tasks[u].login].inFlight = logins[tasks[u].login].inFlight
              /\ logins'[tasks[u].login].consuming = logins[tasks[u].login].consuming,
           tasks[u].pc \in Owning => lease'.connect = lease.connect,
           lease'.connect = u => lease.connect = u,
           lease'.sync = u => lease.sync = u
    PROVE  IsTask(tasks'[u]) /\ TaskOK(u)'
<1>1. IsTask(tasks[u]) /\ TaskOK(u)
  BY DEF ReservedOK
<1> QED BY <1>1 DEF TaskOK, Owner, Holding

\* A task that goes on without touching the logins and the reservation.
LEMMA RowMoves ==
    ASSUME ReservedOK, NEW t \in Tasks, Moved(t), UNCHANGED <<logins, lease>>,
           tasks[t].pc # "call", tasks'[t].pc \notin Asking \cup {"start"},
           \/ tasks'[t].login = None
           \/ /\ tasks'[t].login = tasks[t].login /\ tasks[t].pc \notin Asking
              /\ tasks'[t].pc # "reserve",
           tasks[t].pc \in Holding(t) =>
              tasks'[t].pc \in Holding(t) /\ tasks'[t].login = tasks[t].login,
           tasks'[t].pc \in Owning =>
              lease.connect = Owner(t) /\ tasks'[t].login = tasks[t].login
    PROVE  ReservedOK'
<1>1. TaskOK(t) /\ Apart /\ \A l \in Logins : LoginOK(l)
  BY DEF ReservedOK
<1>2. \A u \in Tasks \ {t} : IsTask(tasks'[u]) /\ TaskOK(u)'
  BY OthersKeep DEF Moved
<1>3. TaskOK(t)'
  BY <1>1 DEF TaskOK, Owner, Holding
<1>4. Apart'
  BY <1>1 DEF Apart, Moved
<1>5. \A l \in Logins : LoginOK(l)'
  BY <1>1 DEF LoginOK
<1> QED BY <1>2, <1>3, <1>4, <1>5 DEF ReservedOK, Moved

\* A task that goes on from one step of its work to the next.
LEMMA MovesQuietly ==
    ASSUME ReservedOK, NEW t \in Tasks, NEW pc, Moves(t, pc), UNCHANGED <<logins, lease>>,
           tasks[t].pc \notin {"call"} \cup Asking, pc \notin Asking \cup {"start"},
           pc = "reserve" => tasks[t].login = None,
           tasks[t].pc \in Holding(t) => pc \in Holding(t),
           pc \in Owning => lease.connect = Owner(t)
    PROVE  ReservedOK'
BY RowMoves DEF Moves

\* A task that begins or ends without a login.
LEMMA TurnsOver ==
    ASSUME ReservedOK, NEW t \in Tasks, NEW row, IsTask(row), tasks' = [tasks EXCEPT ![t] = row],
           UNCHANGED <<logins, lease>>, tasks[t].pc \notin {"call"} \cup Holding(t),
           row.login = None, row.pc \notin Asking \cup Owning \cup {"start"}
    PROVE  ReservedOK'
<1>1. Moved(t) /\ tasks'[t] = row
  BY ZenonT(30), NewTask
<1> QED BY <1>1, RowMoves

\* The rows of requests.
FreshRow(r, pc, op, c, l) ==
    IsTask(r) /\ r.pc = pc /\ r.op = op /\ r.cookie = c /\ r.login = l

LEMMA IdleRows ==
    /\ FreshRow(Idle, "idle", "none", None, None)
    /\ \A pc, op : FreshRow([Idle EXCEPT !.pc = pc, !.op = op], pc, op, None, None)
    /\ \A pc, op, c :
          FreshRow([Idle EXCEPT !.pc = pc, !.op = op, !.cookie = c], pc, op, c, None)
    /\ \A pc, op, l :
          FreshRow([Idle EXCEPT !.pc = pc, !.op = op, !.login = l], pc, op, None, l)
    /\ \A pc, op, c, l :
          FreshRow([Idle EXCEPT !.pc = pc, !.op = op, !.cookie = c, !.login = l], pc, op, c, l)
    /\ \A pc, op, c, i :
          FreshRow([Idle EXCEPT !.pc = pc, !.op = op, !.job = i, !.cookie = c], pc, op, c, None)
    /\ \A pc, op, c, p :
          FreshRow([Idle EXCEPT !.pc = pc, !.op = op, !.cookie = c, !.prev.products = p],
                   pc, op, c, None)
<1> SUFFICES ASSUME NEW pc, NEW op, NEW c, NEW l, NEW i, NEW p
    PROVE  /\ FreshRow(Idle, "idle", "none", None, None)
           /\ FreshRow([Idle EXCEPT !.pc = pc, !.op = op], pc, op, None, None)
           /\ FreshRow([Idle EXCEPT !.pc = pc, !.op = op, !.cookie = c], pc, op, c, None)
           /\ FreshRow([Idle EXCEPT !.pc = pc, !.op = op, !.login = l], pc, op, None, l)
           /\ FreshRow([Idle EXCEPT !.pc = pc, !.op = op, !.cookie = c, !.login = l], pc, op, c, l)
           /\ FreshRow([Idle EXCEPT !.pc = pc, !.op = op, !.job = i, !.cookie = c], pc, op, c, None)
           /\ FreshRow([Idle EXCEPT !.pc = pc, !.op = op, !.cookie = c, !.prev.products = p],
                       pc, op, c, None)
  BY ZenonT(30)
<1>1. FreshRow(Idle, "idle", "none", None, None)
  BY DEF Idle, IsTask, FreshRow
<1> DEFINE a == [Idle EXCEPT !.pc = pc]
           b == [a EXCEPT !.op = op]
           d == [b EXCEPT !.cookie = c]
           e == [b EXCEPT !.job = i]
<1>2. /\ [Idle EXCEPT !.pc = pc, !.op = op] = b
      /\ [Idle EXCEPT !.pc = pc, !.op = op, !.cookie = c] = d
      /\ [Idle EXCEPT !.pc = pc, !.op = op, !.login = l] = [b EXCEPT !.login = l]
      /\ [Idle EXCEPT !.pc = pc, !.op = op, !.cookie = c, !.login = l] = [d EXCEPT !.login = l]
      /\ [Idle EXCEPT !.pc = pc, !.op = op, !.job = i, !.cookie = c] = [e EXCEPT !.cookie = c]
      /\ [Idle EXCEPT !.pc = pc, !.op = op, !.cookie = c, !.prev.products = p]
            = [d EXCEPT !.prev.products = p]
  OBVIOUS
<1>3. FreshRow(a, pc, "none", None, None)
  BY <1>1 DEF FreshRow, IsTask
<1> HIDE DEF a
<1>4. FreshRow(b, pc, op, None, None)
  BY <1>3 DEF FreshRow, IsTask
<1> HIDE DEF b
<1>5. FreshRow(d, pc, op, c, None) /\ FreshRow(e, pc, op, None, None)
      /\ FreshRow([b EXCEPT !.login = l], pc, op, None, l)
  BY <1>4 DEF FreshRow, IsTask
<1> HIDE DEF d, e
<1>6. /\ FreshRow([d EXCEPT !.login = l], pc, op, c, l)
      /\ FreshRow([e EXCEPT !.cookie = c], pc, op, c, None)
      /\ FreshRow([d EXCEPT !.prev.products = p], pc, op, c, None)
  BY <1>5 DEF FreshRow, IsTask
<1> QED BY <1>1, <1>2, <1>4, <1>5, <1>6

-------------------------------------------------------------------------------
(* Who holds the reservation, step by step.                                *)

\* The steps of a synchronisation that leave the reservation alone.
LEMMA SyncStepsReserve ==
    ASSUME ReservedOK, NEW t \in Tasks,
           Submit(t) \/ Claim(t) \/ Pause(t) \/ Write(t) \/ WriteBack(t) \/ WriteRow(t) \/ Settle(t)
    PROVE  ReservedOK'
<1>1. TaskOK(t) /\ UNCHANGED <<logins, lease>>
  BY ZenonT(30) DEF ReservedOK, Submit, Claim, Pause, Write, WriteBack, WriteRow, Settle
<1>2. CASE Submit(t)
  <2>1. Moves(t, "answer") \/ Moves(t, "claim")
    BY ZenonT(30), <1>2, GoesOn DEF Submit
  <2>2. tasks[t].pc = "submit"
    BY <1>2 DEF Submit
  <2> QED BY <1>1, <2>1, <2>2, MovesQuietly DEF Holding, Owning, Asking, Writing, Undoing
<1>3. CASE Claim(t)
  <2>1. \/ Moves(t, "answer") \/ Moves(t, "open")
        \/ tasks[t].login = None /\ Moves(t, "reserve")
    BY <1>3, GoesOn DEF Claim
  <2>2. tasks[t].pc = "claim"
    BY <1>3 DEF Claim
  <2> QED BY <1>1, <2>1, <2>2, MovesQuietly DEF Holding, Owning, Asking, Writing, Undoing
<1>4. CASE Pause(t)
  <2>1. \/ Moves(t, "settle") \/ Moves(t, "leave")
        \/ \E pc \in {"products", "cookie", "snapshot", "row"} : Moves(t, pc)
    BY <1>4, GoesOn, FailsOn DEF Pause, NextWrite
  <2>2. tasks[t].pc = "pause" /\ lease.connect = Owner(t)
    BY <1>1, <1>4 DEF Pause, TaskOK, Owning
  <2> QED BY <1>1, <2>1, <2>2, MovesQuietly DEF Holding, Owning, Asking, Writing, Undoing
<1>5. CASE Write(t)
  <2>1. \E pc \in Owning : tasks[t].pc = pc
    BY <1>5 DEF Write, Owning
  <2>2. lease.connect = Owner(t)
    BY <1>1, <2>1 DEF TaskOK
  <2>3. \/ Moves(t, IF t = Lane THEN "settle" ELSE "leave")
        \/ \E pc \in {"cookie", "snapshot", "row"} \cup Undoing : Moves(t, pc)
    <3>1. CASE Goes(t, NextWrite(t, tasks[t].pc))
      <4>1. NextWrite(t, tasks[t].pc) \in {"cookie", "snapshot", "row"}
        BY <1>5 DEF Write, Writing, NextWrite
      <4> QED BY <3>1, <4>1, GoesOn
    <3>2. CASE Fails(t, "fail")
      BY <3>2, FailsOn
    <3>3. CASE tasks' = [tasks EXCEPT ![t].result = "fail", ![t].pc = Undo(t, "begin")]
      <4>1. Undo(t, "begin") \in Undoing
        BY DEF Undo, Undoing
      <4> QED BY <3>3, <4>1, GoesOn
    <3> QED BY <1>5, <3>1, <3>2, <3>3 DEF Write
  <2>4. tasks[t].pc \in Writing
    BY <1>5 DEF Write
  <2> QED BY <1>1, <2>2, <2>3, <2>4, MovesQuietly DEF Holding, Owning, Asking, Writing, Undoing
<1>6. CASE WriteBack(t)
  <2>1. tasks[t].pc \in Undoing /\ lease.connect = Owner(t)
    BY <1>1, <1>6 DEF WriteBack, TaskOK, Owning
  <2>2. Undo(t, tasks[t].pc) \in Undoing \cup {"leave"}
    BY DEF Undo, Undoing
  <2>3. Moves(t, Undo(t, tasks[t].pc))
    BY <1>6, GoesOn DEF WriteBack
  <2> QED BY <1>1, <2>1, <2>2, <2>3, MovesQuietly DEF Holding, Owning, Asking, Writing, Undoing
<1>7. CASE WriteRow(t)
  <2>1. Moves(t, IF t = Lane THEN "settle" ELSE "leave")
    BY <1>7, GoesOn, FailsOn DEF WriteRow
  <2>2. tasks[t].pc = "row"
    BY <1>7 DEF WriteRow
  <2> QED BY <1>1, <2>1, <2>2, MovesQuietly DEF Holding, Owning, Asking, Writing, Undoing
<1>8. CASE Settle(t)
  <2>1. Moves(t, IF t = Lane THEN "leave" ELSE "answer")
    BY <1>8, GoesOn DEF Settle
  <2>2. tasks[t].pc = "settle"
    BY <1>8 DEF Settle
  <2> QED BY <1>1, <2>1, <2>2, MovesQuietly DEF Holding, Owning, Asking, Writing, Undoing
<1> QED BY <1>2, <1>3, <1>4, <1>5, <1>6, <1>7, <1>8

\* A sync takes the reservation when nobody has it, and gives back only what is its own.
LEMMA LeaseStepsReserve ==
    ASSUME ReservedOK, NEW t \in Tasks, Reserve(t) \/ Open(t) \/ Call(t) \/ Leave(t)
    PROVE  ReservedOK'
<1>1. TaskOK(t) /\ Apart /\ (\A l \in Logins : LoginOK(l)) /\ logins' = logins
      /\ lease = [connect |-> lease.connect, sync |-> lease.sync]
  BY DEF ReservedOK, Reserve, Open, Call, Leave
<1>2. \A u \in Tasks : u \notin Logins /\ u # None /\ (tasks[u].login # None => tasks[u].login \in Logins)
  BY NamesAre DEF ReservedOK, TaskOK
<1>3. ASSUME NEW pc, Moves(t, pc), TaskOK(t)', lease' = [connect |-> lease'.connect, sync |-> lease'.sync],
             \A u \in Tasks \ {t} :
                /\ tasks[u].pc \in Owning => lease'.connect = lease.connect
                /\ lease'.connect = u => lease.connect = u
                /\ lease'.sync = u => lease.sync = u,
             \A l \in Logins : lease'.connect = l => lease.connect = l
      PROVE  ReservedOK'
  <2>1. \A u \in Tasks \ {t} : IsTask(tasks'[u]) /\ TaskOK(u)'
    BY <1>1, <1>3, OthersKeep DEF Moves, Moved
  <2>2. Apart'
    BY <1>1, <1>3 DEF Apart, Moves, Moved
  <2>3. \A l \in Logins : LoginOK(l)'
    BY <1>1, <1>3 DEF LoginOK
  <2> QED BY <1>1, <1>3, <2>1, <2>2, <2>3 DEF ReservedOK, Moves, Moved
<1>4. CASE Reserve(t)
  <2>1. tasks[t].pc = "reserve" /\ tasks[t].login = None
    BY <1>1, <1>4 DEF Reserve, TaskOK
  <2>2. CASE lease' = lease /\ \E result : Fails(t, result)
    <3>1. Moves(t, IF t = Lane THEN "settle" ELSE "leave")
      BY <2>2, FailsOn
    <3> QED BY <1>1, <2>1, <2>2, <3>1, MovesQuietly DEF Holding, Owning, Asking, Writing, Undoing
  <2>3. CASE Free /\ lease' = [lease EXCEPT !.connect = t] /\ Goes(t, "open")
    <3>1. Moves(t, "open") /\ lease' = [connect |-> t, sync |-> None] /\ lease.connect = None
      BY <1>1, <2>3, GoesOn DEF Free
    <3>2. tasks'[t].pc = "open" /\ tasks'[t].login = None
      BY <2>1, <3>1 DEF Moves
    <3>3. TaskOK(t)'
      BY <1>2, <3>1, <3>2 DEF TaskOK, Holding, Owning, Asking, Writing, Undoing
    <3>4. \A u \in Tasks : tasks[u].pc \notin Owning
      BY <1>2, <3>1 DEF ReservedOK, TaskOK, Owner
    <3> QED BY <1>2, <1>3, <3>1, <3>3, <3>4
  <2> QED BY <1>4, <2>2, <2>3 DEF Reserve
<1>5. CASE Open(t)
  <2>1. tasks[t].pc = "open"
    BY <1>5 DEF Open
  <2>2. CASE lease' = lease /\ \E result : Fails(t, result)
    <3>1. Moves(t, IF t = Lane THEN "settle" ELSE "leave")
      BY <2>2, FailsOn
    <3> QED BY <1>1, <2>1, <2>2, <3>1, MovesQuietly DEF Holding, Owning, Asking, Writing, Undoing
  <2>3. CASE /\ Current(t) /\ lease' = [lease EXCEPT !.sync = t]
             /\ \E prev : tasks' = [tasks EXCEPT ![t].pc = "call", ![t].prev = prev]
    <3>1. Moves(t, "call") /\ lease' = [connect |-> lease.connect, sync |-> t]
          /\ lease.connect = Owner(t)
      BY <1>1, <2>3, GoesOn DEF Current
    <3>2. tasks'[t].pc = "call" /\ tasks'[t].login = tasks[t].login /\ Owner(t)' = Owner(t)
      BY <3>1 DEF Moves, Owner
    <3>3. TaskOK(t)'
      BY <1>1, <1>2, <2>1, <3>1, <3>2 DEF TaskOK, Holding, Owning, Asking, Writing, Undoing
    <3> QED BY <1>3, <3>1, <3>3
  <2> QED BY <1>5, <2>2, <2>3 DEF Open
<1>6. CASE Call(t)
  <2>1. tasks[t].pc = "call" /\ lease.connect = Owner(t)
    BY <1>1, <1>6 DEF Call, TaskOK, Owning
  <2>2. lease' = [connect |-> lease.connect, sync |-> IF lease.sync = t THEN None ELSE lease.sync]
    BY <1>1, <1>6 DEF Call
  <2>3. \/ Moves(t, IF t = Lane THEN "settle" ELSE "leave")
        \/ tasks[t].login # None /\ Moves(t, "pause")
        \/ \E pc \in Writing : Moves(t, pc)
    <3>1. CASE \E result : Fails(t, result)
      BY <3>1, FailsOn
    <3>2. CASE Goes(t, IF tasks[t].login # None THEN "pause" ELSE NextWrite(t, "begin"))
      <4>1. NextWrite(t, "begin") \in Writing
        BY DEF NextWrite, Writing
      <4> QED BY <3>2, <4>1, GoesOn
    <3> QED BY <1>6, <3>1, <3>2 DEF Call
  <2>4. PICK pc : /\ Moves(t, pc)
                  /\ \/ pc \in Writing \cup {IF t = Lane THEN "settle" ELSE "leave"}
                     \/ pc = "pause" /\ tasks[t].login # None
    BY <2>3
  <2>5. lease'.connect = lease.connect /\ lease'.sync # t
    BY <1>2, <2>2
  <2>6. tasks'[t].pc = pc /\ tasks'[t].login = tasks[t].login /\ Owner(t)' = Owner(t)
    BY <2>4 DEF Moves, Owner
  <2>7. /\ pc # "pause" => pc \in Holding(t)
        /\ pc \notin Asking \cup {"reserve", "start"} /\ "call" \notin Asking
    BY <2>4 DEF Holding, Asking, Writing, Undoing
  <2>8. CASE pc # "pause"
    <3>1. TaskOK(t)'
      BY <1>1, <2>1, <2>5, <2>6, <2>7, <2>8 DEF TaskOK
    <3> QED BY <1>2, <1>3, <2>2, <2>4, <3>1
  <2>9. CASE pc = "pause"
    <3>1. lease.connect # t
      BY <1>2, <2>1, <2>4, <2>9 DEF Owner, Writing
    <3>2. TaskOK(t)'
      BY <1>1, <2>1, <2>5, <2>6, <2>7, <2>9, <3>1 DEF TaskOK
    <3> QED BY <1>2, <1>3, <2>2, <2>4, <3>2
  <2> QED BY <2>8, <2>9
<1>7. CASE Leave(t)
  <2>1. tasks[t].pc = "leave"
    BY <1>7 DEF Leave
  <2>2. lease' = lease \/ (lease.connect = t /\ lease' = [connect |-> None, sync |-> lease.sync])
    BY <1>1, <1>7 DEF Leave, Released
  <2>3. lease'.connect # t
    <3>1. lease.connect = t => tasks[t].login = None
      BY <1>1 DEF TaskOK
    <3> QED BY <1>1, <1>2, <1>7, <3>1 DEF Leave, Released
  <2>4. lease'.sync # t
    BY <1>1, <2>1, <2>2 DEF TaskOK
  <2>5. \A u \in Tasks \ {t} : tasks[u].pc \in Owning => lease'.connect = lease.connect
    BY <1>2, <2>2 DEF ReservedOK, TaskOK, Owner
  <2>6. CASE t # Lane
    <3>1. Moves(t, "settle")
      BY <1>7, <2>6, GoesOn DEF Leave
    <3>2. tasks'[t].pc = "settle" /\ tasks'[t].login = tasks[t].login
      BY <3>1 DEF Moves
    <3>3. TaskOK(t)'
      BY <1>1, <2>1, <2>3, <2>4, <3>2 DEF TaskOK, Owning, Asking, Writing, Undoing
    <3>4. lease' = [connect |-> lease'.connect, sync |-> lease'.sync]
      BY <1>1, <2>2
    <3> QED BY <1>2, <1>3, <2>2, <2>5, <3>1, <3>3, <3>4, NamesAre
  <2>7. CASE t = Lane
    <3>1. IsTask(Idle) /\ Idle.login = None /\ Idle.pc = "idle" /\ tasks' = [tasks EXCEPT ![t] = Idle]
      BY <1>7, <2>7, IdleRows DEF Leave, FreshRow
    <3>2. Moved(t) /\ tasks'[t].login = None /\ tasks'[t].pc = "idle"
      BY <3>1, NewTask
    <3>3. Owning \cap {"idle"} = {} /\ Asking \cap {"idle"} = {}
      BY DEF Owning, Asking, Writing, Undoing
    <3>4. TaskOK(t)'
      BY <2>3, <2>4, <3>2, <3>3 DEF TaskOK
    <3>5. \A u \in Tasks \ {t} : IsTask(tasks'[u]) /\ TaskOK(u)'
      BY <1>1, <1>2, <2>2, <2>5, <3>2, OthersKeep DEF Moved
    <3>6. Apart'
      BY <1>1, <3>2 DEF Apart, Moved
    <3>7. \A l \in Logins : LoginOK(l)'
      BY <1>1, <2>2, NamesAre DEF LoginOK
    <3> QED BY <1>1, <2>2, <3>2, <3>4, <3>5, <3>6, <3>7 DEF ReservedOK, Moved
  <2> QED BY <2>6, <2>7
<1> QED BY <1>4, <1>5, <1>6, <1>7

\* Requests and steps that begin or end a task without a login.
LEMMA OtherStepsReserve ==
    ASSUME ReservedOK,
           NEW t \in Tasks,
           \/ \E c \in Sellers : SaveCookies(t, c)
           \/ SyncSavedShop(t) \/ EnqueueRefresh(t) \/ SaveProducts(t) \/ (t = Lane /\ LaneClaim)
           \/ CheckProducts(t) \/ WriteProducts(t) \/ Delete(t) \/ Disconnect(t)
    PROVE  ReservedOK'
<1>1. UNCHANGED <<logins, lease>>
  BY DEF SaveCookies, SyncSavedShop, EnqueueRefresh, SaveProducts, LaneClaim, CheckProducts,
         WriteProducts, Delete, Disconnect
<1>2. ASSUME NEW row, NEW pc, NEW op, NEW c, FreshRow(row, pc, op, c, None),
             pc \in {"idle", "submit", "reserve", "edit"}, tasks' = [tasks EXCEPT ![t] = row],
             tasks[t].pc \in {"idle", "edit", "map", "delete", "disconnect"}
      PROVE  ReservedOK'
  BY <1>1, <1>2, TurnsOver DEF FreshRow, Holding, Owning, Asking, Writing, Undoing
<1>3. ASSUME NEW row, NEW pc, NEW op, NEW c, FreshRow(row, pc, op, c, None),
             pc \in {"idle", "submit", "edit"}, Request(t, row)
      PROVE  ReservedOK'
  BY <1>2, <1>3 DEF Request
<1>4. FreshRow(Idle, "idle", "none", None, None)
  BY IdleRows
<1>5. CASE \E c \in Sellers : SaveCookies(t, c)
  <2> PICK c \in Sellers : SaveCookies(t, c)
    BY <1>5
  <2> DEFINE row == [Idle EXCEPT !.pc = "submit", !.op = "save", !.cookie = c]
  <2>1. FreshRow(row, "submit", "save", c, None)
    BY ONLY IdleRows, Zenon
  <2>2. Request(t, row)
    BY DEF SaveCookies
  <2> HIDE DEF row
  <2> QED BY <1>3, <2>1, <2>2
<1>6. CASE SyncSavedShop(t)
  <2> DEFINE row == [Idle EXCEPT !.pc = "submit", !.op = "refresh", !.cookie = files.cookie]
  <2>1. FreshRow(row, "submit", "refresh", files.cookie, None)
    BY ONLY IdleRows, Zenon
  <2>2. Request(t, row)
    BY <1>6 DEF SyncSavedShop
  <2> HIDE DEF row
  <2> QED BY <1>3, <2>1, <2>2
<1>7. CASE EnqueueRefresh(t)
  <2>1. Request(t, Idle)
    BY <1>7 DEF EnqueueRefresh
  <2> QED BY <1>3, <1>4, <2>1
<1>8. CASE SaveProducts(t)
  <2> DEFINE row == [Idle EXCEPT !.pc = "edit", !.op = "edit", !.cookie = files.snapshot,
                                 !.prev.products = files.products]
  <2>1. FreshRow(row, "edit", "edit", files.snapshot, None)
    BY ONLY IdleRows, Zenon
  <2>2. Request(t, row)
    BY <1>8 DEF SaveProducts
  <2> HIDE DEF row
  <2> QED BY <1>3, <2>1, <2>2
<1>9. CASE t = Lane /\ LaneClaim
  <2>1. PICK i : tasks' = [tasks EXCEPT ![Lane] = [Idle EXCEPT !.pc = "reserve", !.op = "lane",
                                                    !.job = i, !.cookie = jobs[i].key.cookie]]
    BY <1>9 DEF LaneClaim
  <2> DEFINE c == jobs[i].key.cookie
             row == [Idle EXCEPT !.pc = "reserve", !.op = "lane", !.job = i, !.cookie = c]
  <2>2. tasks' = [tasks EXCEPT ![t] = row]
    BY <1>9, <2>1
  <2> HIDE DEF c
  <2>3. FreshRow(row, "reserve", "lane", c, None)
    BY ONLY IdleRows, Zenon
  <2>4. tasks[t].pc = "idle"
    BY <1>9 DEF LaneClaim
  <2> HIDE DEF row
  <2> QED BY <1>2, <2>2, <2>3, <2>4
<1>10. CASE CheckProducts(t)
  <2>1. tasks[t].pc = "edit"
    BY <1>10 DEF CheckProducts
  <2>2. CASE Goes(t, "map")
    <3>1. Moves(t, "map")
      BY <2>2, GoesOn
    <3> QED BY <1>1, <2>1, <3>1, MovesQuietly DEF Holding, Owning, Asking, Writing, Undoing
  <2> QED BY <1>2, <1>4, <1>10, <2>1, <2>2 DEF CheckProducts
<1>11. CASE WriteProducts(t)
  <2>1. tasks[t].pc = "map" /\ tasks' = [tasks EXCEPT ![t] = Idle]
    BY <1>11 DEF WriteProducts
  <2> QED BY <1>2, <1>4, <2>1
<1>12. CASE Delete(t)
  <2>1. tasks[t].pc = "delete"
    BY <1>12 DEF Delete
  <2>2. CASE Goes(t, "disconnect")
    <3>1. Moves(t, "disconnect")
      BY <2>2, GoesOn
    <3> QED BY <1>1, <2>1, <3>1, MovesQuietly DEF Holding, Owning, Asking, Writing, Undoing
  <2> QED BY <1>2, <1>4, <1>12, <2>1, <2>2 DEF Delete
<1>13. CASE Disconnect(t)
  <2>1. tasks[t].pc = "disconnect" /\ tasks' = [tasks EXCEPT ![t] = Idle]
    BY <1>13 DEF Disconnect
  <2> QED BY <1>2, <1>4, <2>1
<1> QED BY <1>5, <1>6, <1>7, <1>8, <1>9, <1>10, <1>11, <1>12, <1>13

\* A step of one login; the reservation stays, goes with the login, or begins with it.
LEMMA LoginMoves ==
    ASSUME ReservedOK, NEW l \in Logins, NEW item \in LoginRow,
           logins' = [logins EXCEPT ![l] = item],
           \/ lease' = lease
           \/ lease' = Released(l)
           \/ lease.connect = None /\ lease' = [lease EXCEPT !.connect = l],
           LoginOK(l)', DOMAIN tasks' = Tasks, Apart',
           \A u \in Tasks :
              \/ IsTask(tasks'[u]) /\ TaskOK(u)'
              \/ /\ tasks'[u] = tasks[u]
                 /\ tasks[u].login = l =>
                       /\ lease' = lease
                       /\ item.inFlight = logins[l].inFlight
                       /\ item.consuming = logins[l].consuming
    PROVE  ReservedOK'
<1>1. /\ lease = [connect |-> lease.connect, sync |-> lease.sync]
      /\ logins \in [Logins -> LoginRow]
  BY DEF ReservedOK
<1>2. /\ lease' = [connect |-> lease'.connect, sync |-> lease.sync]
      /\ \/ lease'.connect = lease.connect
         \/ lease.connect = l /\ lease'.connect = None
         \/ lease.connect = None /\ lease'.connect = l
  BY <1>1 DEF Released
<1>3. logins' \in [Logins -> LoginRow] /\ logins'[l] = item /\ \A k \in Logins \ {l} : logins'[k] = logins[k]
  BY <1>1
<1>4. \A k \in Logins : LoginOK(k)'
  <2> SUFFICES ASSUME NEW k \in Logins, k # l PROVE LoginOK(k)'
    OBVIOUS
  <2>1. LoginOK(k)
    BY DEF ReservedOK
  <2> QED BY <1>2, <1>3, <2>1, NamesAre DEF LoginOK
<1>5. ASSUME NEW u \in Tasks, tasks'[u] = tasks[u],
             tasks[u].login = l =>
                /\ lease' = lease
                /\ item.inFlight = logins[l].inFlight
                /\ item.consuming = logins[l].consuming
      PROVE  IsTask(tasks'[u]) /\ TaskOK(u)'
  <2>1. u # None /\ u \notin Logins /\ TaskOK(u)
    BY NamesAre DEF ReservedOK
  <2>2. tasks[u].pc \in Owning => lease'.connect = lease.connect
    BY <1>2, <1>5, <2>1, NamesAre DEF TaskOK, Owner
  <2>3. tasks[u].login # None =>
           /\ logins'[tasks[u].login].inFlight = logins[tasks[u].login].inFlight
           /\ logins'[tasks[u].login].consuming = logins[tasks[u].login].consuming
    BY <1>3, <1>5, <2>1 DEF TaskOK
  <2>4. (lease'.connect = u => lease.connect = u) /\ (lease'.sync = u => lease.sync = u)
    BY <1>2, <2>1
  <2> QED BY <1>5, <2>2, <2>3, <2>4, OthersKeep
<1>6. \A u \in Tasks : IsTask(tasks'[u]) /\ TaskOK(u)'
  BY <1>5
<1>7. lease' = [connect |-> lease'.connect, sync |-> lease'.sync]
  BY <1>2
<1> QED BY <1>3, <1>4, <1>6, <1>7 DEF ReservedOK

\* What becomes of a login.
LEMMA ItemsAre ==
    ASSUME NEW item \in LoginRow
    PROVE  /\ Expired(item) \in LoginRow /\ Expired(item).status = "expired"
           /\ Expired(item).listed = item.listed /\ Expired(item).inFlight = item.inFlight
           /\ Expired(item).consuming = item.consuming
           /\ Forgotten(item) \in LoginRow /\ Forgotten(item).status = item.status
           /\ ~Forgotten(item).listed /\ Forgotten(item).inFlight = item.inFlight
           /\ Forgotten(item).consuming = item.consuming
BY DEF Expired, Forgotten, LoginRow, Cookies

\* The rows of logins that begin, and of those a crash leaves.
LEMMA NewItems ==
    /\ NoLogin \in LoginRow /\ NoLogin.status = "none"
    /\ ~NoLogin.listed /\ ~NoLogin.inFlight /\ ~NoLogin.consuming
    /\ \A r : r = [NoLogin EXCEPT !.status = "waiting", !.listed = TRUE, !.inFlight = TRUE] =>
          r \in LoginRow /\ r.status = "waiting" /\ r.listed /\ r.inFlight /\ ~r.consuming
    /\ \A r : r = [NoLogin EXCEPT !.status = "waiting", !.listed = TRUE] =>
          r \in LoginRow /\ r.status = "waiting" /\ r.listed /\ ~r.inFlight /\ ~r.consuming
    /\ \A r, c : c \in Sellers /\ r = [NoLogin EXCEPT !.status = "confirmed", !.cookie = c,
                                                        !.listed = TRUE] =>
          r \in LoginRow /\ r.status = "confirmed" /\ r.listed /\ ~r.inFlight /\ ~r.consuming
    /\ \A r : r = [NoLogin EXCEPT !.status = "expired"] =>
          r \in LoginRow /\ r.status = "expired" /\ ~r.listed /\ ~r.inFlight /\ ~r.consuming
<1>1. /\ NoLogin \in LoginRow /\ NoLogin.status = "none"
      /\ ~NoLogin.listed /\ ~NoLogin.inFlight /\ ~NoLogin.consuming
  BY DEF NoLogin, LoginRow, Cookies
<1> QED BY ZenonT(30), <1>1 DEF LoginRow, Cookies

\* Nobody has a login that is neither in flight nor being consumed.
LEMMA UnusedLogin ==
    ASSUME ReservedOK, NEW l \in Logins, ~logins[l].inFlight, ~logins[l].consuming
    PROVE  \A u \in Tasks : tasks[u].login # l
BY NamesAre DEF ReservedOK, TaskOK

\* A login is settled: whoever had it ends, unless its use stays what it was.
LEMMA LoginSettles ==
    ASSUME ReservedOK, NEW t \in Tasks, NEW l \in Logins, NEW item \in LoginRow,
           logins' = [logins EXCEPT ![l] = item], lease' = lease \/ lease' = Released(l), LoginOK(l)',
           \/ tasks' = tasks
           \/ tasks' = [tasks EXCEPT ![t] = Idle] /\ tasks[t].pc \notin {"call"} \cup Holding(t),
           \A u \in Tasks : tasks[u].login = l =>
              \/ tasks'[u] = Idle
              \/ /\ lease' = lease
                 /\ item.inFlight = logins[l].inFlight /\ item.consuming = logins[l].consuming
    PROVE  ReservedOK'
<1>1. /\ DOMAIN tasks = Tasks /\ Apart /\ TaskOK(t)
      /\ lease = [connect |-> lease.connect, sync |-> lease.sync]
  BY DEF ReservedOK
<1>2. IsTask(Idle) /\ Idle.pc = "idle" /\ Idle.login = None /\ l # None
  BY IdleRows, NamesAre DEF FreshRow
<1>3. CASE tasks' = tasks
  <2>1. DOMAIN tasks' = Tasks /\ Apart'
    BY <1>1, <1>3 DEF Apart
  <2> QED BY <1>2, <1>3, <2>1, LoginMoves
<1>4. CASE tasks' = [tasks EXCEPT ![t] = Idle] /\ tasks[t].pc \notin {"call"} \cup Holding(t)
  <2>1. Moved(t) /\ tasks'[t] = Idle
    BY <1>2, <1>4, NewTask
  <2>2. DOMAIN tasks' = Tasks /\ Apart'
    BY <1>1, <1>2, <2>1 DEF Apart, Moved
  <2>3. (lease'.connect = t => lease.connect = t) /\ (lease'.sync = t => lease.sync = t)
    BY <1>1, NamesAre DEF Released
  <2>4. "idle" \notin Owning /\ "idle" \notin Asking
    BY DEF Owning, Asking, Writing, Undoing
  <2>5. IsTask(tasks'[t]) /\ TaskOK(t)'
    BY <1>1, <1>2, <1>4, <2>1, <2>3, <2>4 DEF TaskOK
  <2>6. \A u \in Tasks \ {t} : tasks'[u] = tasks[u]
    BY <2>1 DEF Moved
  <2>7. \A u \in Tasks :
           \/ IsTask(tasks'[u]) /\ TaskOK(u)'
           \/ /\ tasks'[u] = tasks[u]
              /\ tasks[u].login = l =>
                    /\ lease' = lease
                    /\ item.inFlight = logins[l].inFlight
                    /\ item.consuming = logins[l].consuming
    <3> SUFFICES ASSUME NEW u \in Tasks, u # t, tasks[u].login = l
                 PROVE  /\ lease' = lease
                        /\ item.inFlight = logins[l].inFlight
                        /\ item.consuming = logins[l].consuming
      BY <2>5, <2>6
    <3> QED BY <1>2, <2>6
  <2> QED BY <2>2, <2>7, LoginMoves
<1> QED BY <1>3, <1>4

\* The cleanup of a login that is no longer in use.
LEMMA CleanupKeeps ==
    ASSUME ReservedOK, NEW t \in Tasks, NEW l \in Logins, NEW item \in LoginRow,
           ~item.inFlight, ~item.consuming, Cleanup(l, item),
           \/ tasks' = tasks
           \/ tasks' = [tasks EXCEPT ![t] = Idle] /\ tasks[t].pc \notin {"call"} \cup Holding(t),
           \A u \in Tasks : tasks[u].login = l => tasks'[u] = Idle
    PROVE  ReservedOK'
<1> DEFINE gone == [item EXCEPT !.cookie = None]
<1>1. gone \in LoginRow /\ ~gone.inFlight /\ ~gone.consuming
  BY DEF LoginRow, Cookies
<1>2. logins' = [logins EXCEPT ![l] = gone] /\ lease' = Released(l)
  BY DEF Cleanup
<1> HIDE DEF gone
<1>3. logins'[l] = gone /\ lease'.connect # l
  BY <1>2, NamesAre DEF ReservedOK, Released
<1>4. LoginOK(l)'
  BY <1>1, <1>3 DEF LoginOK
<1> QED BY <1>1, <1>2, <1>4, LoginSettles

\* A task takes a login nobody has.
LEMMA LoginBegins ==
    ASSUME ReservedOK, NEW t \in Tasks \ {Lane}, NEW l \in Logins, NEW item \in LoginRow, NEW row,
           logins' = [logins EXCEPT ![l] = item], LoginOK(l)',
           \/ lease' = lease
           \/ lease.connect = None /\ lease' = [lease EXCEPT !.connect = l],
           tasks' = [tasks EXCEPT ![t] = row], IsTask(row), row.login = l,
           \/ row.pc \in Asking /\ item.inFlight
           \/ row.pc = "submit" /\ item.consuming,
           tasks[t].pc \notin {"call"} \cup Holding(t),
           \A u \in Tasks : tasks[u].login # l
    PROVE  ReservedOK'
<1>1. /\ DOMAIN tasks = Tasks /\ Apart /\ TaskOK(t) /\ DOMAIN logins = Logins
      /\ lease = [connect |-> lease.connect, sync |-> lease.sync]
  BY DEF ReservedOK
<1>2. Moved(t) /\ tasks'[t] = row
  BY NewTask
<1>3. DOMAIN tasks' = Tasks /\ Apart'
  BY <1>1, <1>2 DEF Apart, Moved
<1>4. (lease'.connect = t => lease.connect = t) /\ (lease'.sync = t => lease.sync = t)
  BY <1>1, NamesAre
<1>5. Asking \cap (Owning \cup {"reserve", "start", "submit"}) = {} /\ "submit" \notin Owning
  BY DEF Owning, Asking, Writing, Undoing
<1>6. logins'[l] = item
  BY <1>1
<1>7. /\ row.pc \in Asking => logins'[l].inFlight
      /\ row.pc \notin Asking => logins'[l].consuming
      /\ row.pc \notin Owning \cup {"reserve", "start"}
  BY <1>5, <1>6
<1>8. lease'.connect # t /\ lease'.sync # t
  BY <1>1, <1>4 DEF TaskOK
<1>9. IsTask(tasks'[t]) /\ TaskOK(t)'
  BY <1>2, <1>7, <1>8, NamesAre DEF TaskOK
<1>10. \A u \in Tasks :
          \/ IsTask(tasks'[u]) /\ TaskOK(u)'
          \/ tasks'[u] = tasks[u] /\ tasks[u].login # l
  BY <1>2, <1>9 DEF Moved
<1> QED BY ZenonT(30), <1>3, <1>10, LoginMoves

\* What an expiry does to a login of which the task that knows it, if any, ends here.
LEMMA ExpireKeeps ==
    ASSUME ReservedOK, NEW t \in Tasks, NEW l \in Logins, NEW item \in LoginRow, Expire(l, item),
           item.consuming => ~item.inFlight /\ item.listed,
           \/ /\ tasks' = tasks
              /\ item.inFlight = logins[l].inFlight /\ item.consuming = logins[l].consuming
           \/ /\ tasks' = [tasks EXCEPT ![t] = Idle] /\ tasks[t].pc \notin {"call"} \cup Holding(t)
              /\ \A u \in Tasks : tasks[u].login = l => u = t
              /\ ~item.inFlight /\ ~item.consuming
    PROVE  ReservedOK'
<1> DEFINE exp == Expired(item)
<1>1. /\ exp \in LoginRow /\ exp.status = "expired" /\ exp.listed = item.listed
      /\ exp.inFlight = item.inFlight /\ exp.consuming = item.consuming
  BY ItemsAre
<1>2. DOMAIN tasks = Tasks /\ DOMAIN logins = Logins
  BY DEF ReservedOK
<1>3. CASE item.inFlight \/ item.consuming
  <2>1. logins' = [logins EXCEPT ![l] = exp] /\ lease' = lease /\ tasks' = tasks
    BY <1>3 DEF Expire
  <2> HIDE DEF exp
  <2>2. logins'[l] = exp
    BY <1>2, <2>1
  <2>3. LoginOK(l)'
    BY <1>1, <1>3, <2>2 DEF LoginOK
  <2> QED BY <1>1, <1>3, <2>1, <2>3, LoginSettles
<1>4. CASE ~item.inFlight /\ ~item.consuming
  <2>1. Cleanup(l, exp)
    BY <1>4 DEF Expire
  <2> HIDE DEF exp
  <2>2. \A u \in Tasks : tasks[u].login = l => tasks'[u] = Idle
    BY <1>2, <1>4, UnusedLogin
  <2> QED BY <1>1, <1>4, <2>1, <2>2, CleanupKeeps
<1> QED BY <1>3, <1>4

\* A login that is asked about, given up, swept or answered.
LEMMA LoginStepsReserve ==
    ASSUME ReservedOK, NEW t \in Tasks,
           \/ Answer(t) \/ CodeArrives(t) \/ PollAnswered(t)
           \/ t \in Threads /\ \E l \in Logins : CancelLogin(t, l)
           \/ \E l \in Logins : Sweep(l)
    PROVE  ReservedOK'
<1>1. /\ DOMAIN tasks = Tasks /\ logins \in [Logins -> LoginRow] /\ TaskOK(t)
      /\ \A l \in Logins : LoginOK(l)
      /\ Apart /\ lease = [connect |-> lease.connect, sync |-> lease.sync]
  BY DEF ReservedOK
<1>2. tasks[t].login # None => tasks[t].login \in Logins /\ \A u \in Tasks :
         tasks[u].login = tasks[t].login => u = t
  BY <1>1 DEF TaskOK, Apart
<1>3. \A l \in Logins : logins[l] \in LoginRow
  BY <1>1
<1>4. CASE Answer(t)
  <2> PICK l : l = tasks[t].login
    OBVIOUS
  <2> PICK item : item = [logins[l] EXCEPT !.consuming = FALSE]
    OBVIOUS
  <2>1. tasks[t].pc = "answer" /\ tasks' = [tasks EXCEPT ![t] = Idle]
        /\ tasks[t].pc \notin {"call"} \cup Holding(t) \cup Asking
    BY <1>4 DEF Answer, Holding, Asking, Writing, Undoing
  <2>2. CASE l = None
    <3>1. UNCHANGED <<lease, logins>>
      BY <1>4, <2>2 DEF Answer
    <3>2. FreshRow(Idle, "idle", "none", None, None)
      BY IdleRows
    <3> QED BY <2>1, <3>1, <3>2, TurnsOver DEF FreshRow, Owning, Asking, Writing, Undoing
  <2>3. CASE l # None
    <3>1. /\ l \in Logins /\ logins[l].consuming /\ ~logins[l].inFlight /\ logins[l].listed
          /\ logins[l].status \in {"confirmed", "expired"}
      BY <1>1, <1>2, <2>1, <2>3 DEF TaskOK, LoginOK
    <3>2. item \in LoginRow /\ ~item.consuming /\ ~item.inFlight /\ item.listed
          /\ item.status = logins[l].status
      BY <1>3, <3>1 DEF LoginRow
    <3>3. \/ Cleanup(l, Forgotten(item))
          \/ Expire(l, item)
          \/ item.status # "expired" /\ logins' = [logins EXCEPT ![l] = item] /\ lease' = lease
      BY <1>4, <2>3 DEF Answer
    <3>4. \A u \in Tasks : tasks[u].login = l => tasks'[u] = Idle
      BY <1>1, <1>2, <2>1, <2>3
    <3>5. CASE Cleanup(l, Forgotten(item))
      <4> DEFINE new == Forgotten(item)
      <4>1. new \in LoginRow /\ ~new.inFlight /\ ~new.consuming
        BY <3>2, ItemsAre
      <4> HIDE DEF new
      <4>2. Cleanup(l, new)
        BY <3>5 DEF new
      <4> QED BY <2>1, <3>1, <3>4, <4>1, <4>2, CleanupKeeps
    <3>6. CASE Expire(l, item)
      <4>1. \A u \in Tasks : tasks[u].login = l => u = t
        BY <1>2, <2>3
      <4> QED BY <2>1, <3>1, <3>2, <3>6, <4>1, ExpireKeeps
    <3>7. CASE item.status # "expired" /\ logins' = [logins EXCEPT ![l] = item] /\ lease' = lease
      <4>1. logins'[l] = item
        BY <1>1, <3>1, <3>7
      <4>2. LoginOK(l)'
        BY ZenonT(30), <3>2, <3>7, <4>1 DEF LoginOK
      <4> QED BY <2>1, <3>1, <3>2, <3>4, <3>7, <4>2, LoginSettles
    <3> QED BY <3>3, <3>5, <3>6, <3>7
  <2> QED BY <2>2, <2>3
<1>5. CASE CodeArrives(t) \/ PollAnswered(t)
  <2> PICK l : l = tasks[t].login
    OBVIOUS
  <2> PICK item : item = [logins[l] EXCEPT !.inFlight = FALSE]
    BY ZenonT(30)
  <2>1. tasks[t].pc \in Asking /\ tasks' = [tasks EXCEPT ![t] = Idle]
        /\ tasks[t].pc \notin {"call"} \cup Holding(t)
    BY ZenonT(30), <1>5 DEF CodeArrives, PollAnswered, Holding, Asking, Writing, Undoing
  <2>2. /\ l \in Logins /\ l # None /\ logins[l].inFlight /\ ~logins[l].consuming
        /\ logins[l].status \in {"waiting", "expired"}
    BY <1>1, <1>2, <2>1 DEF TaskOK, LoginOK
  <2>3. item \in LoginRow /\ ~item.consuming /\ ~item.inFlight /\ item.listed = logins[l].listed
        /\ item.status = logins[l].status
    BY ZenonT(30), <1>3, <2>2 DEF LoginRow
  <2>4. \/ Cleanup(l, item) \/ Cleanup(l, Forgotten(item)) \/ Expire(l, item)
        \/ /\ item.listed /\ item.status # "expired" /\ lease' = lease
           /\ \/ logins' = [logins EXCEPT ![l] = item]
              \/ \E c \in Sellers : logins' = [logins EXCEPT ![l] =
                    [item EXCEPT !.status = "confirmed", !.cookie = c]]
    BY ZenonT(30), <1>5, <2>3 DEF CodeArrives, PollAnswered, Active
  <2>5. \A u \in Tasks : tasks[u].login = l => tasks'[u] = Idle
    BY <1>1, <1>2, <2>1, <2>2
  <2>6. CASE \E new \in {item, Forgotten(item)} : Cleanup(l, new)
    <3>1. PICK new \in {item, Forgotten(item)} : Cleanup(l, new)
      BY <2>6
    <3>2. /\ Forgotten(item) \in LoginRow
          /\ ~Forgotten(item).inFlight /\ ~Forgotten(item).consuming
      BY <2>3, ItemsAre
    <3>3. new \in LoginRow /\ ~new.inFlight /\ ~new.consuming
      BY <2>3, <3>2
    <3> QED BY <2>1, <2>2, <2>5, <3>1, <3>3, CleanupKeeps
  <2>7. CASE Expire(l, item)
    <3>1. \A u \in Tasks : tasks[u].login = l => u = t
      BY <1>2, <2>2
    <3> QED BY ZenonT(30), <2>1, <2>2, <2>3, <2>7, <3>1, ExpireKeeps
  <2>8. ASSUME NEW new \in LoginRow, logins' = [logins EXCEPT ![l] = new], lease' = lease,
               new.listed, new.status # "expired", ~new.inFlight, ~new.consuming
        PROVE  ReservedOK'
    <3>1. logins'[l] = new
      BY <1>1, <2>2, <2>8
    <3>2. logins'[l].listed /\ logins'[l].status # "expired"
          /\ ~logins'[l].inFlight /\ ~logins'[l].consuming
      BY <2>8, <3>1
    <3>3. LoginOK(l)'
      BY ONLY <3>2 DEF LoginOK
    <3> QED BY <2>1, <2>2, <2>5, <2>8, <3>3, LoginSettles
  <2>9. CASE /\ item.listed /\ item.status # "expired" /\ lease' = lease
             /\ logins' = [logins EXCEPT ![l] = item]
    BY <2>3, <2>8, <2>9
  <2>10. CASE /\ item.listed /\ item.status # "expired" /\ lease' = lease
              /\ \E c \in Sellers : logins' = [logins EXCEPT ![l] =
                    [item EXCEPT !.status = "confirmed", !.cookie = c]]
    <3> PICK c \in Sellers : logins' = [logins EXCEPT ![l] =
                    [item EXCEPT !.status = "confirmed", !.cookie = c]]
      BY <2>10
    <3> DEFINE new == [item EXCEPT !.status = "confirmed", !.cookie = c]
    <3>1. new \in LoginRow /\ new.listed /\ new.status # "expired" /\ ~new.inFlight /\ ~new.consuming
      BY <2>3, <2>10 DEF LoginRow, Cookies
    <3> HIDE DEF new
    <3> QED BY <2>8, <2>10, <3>1 DEF new
  <2> QED BY ZenonT(30), <2>4, <2>6, <2>7, <2>9, <2>10
<1>6. CASE t \in Threads /\ \E l \in Logins : CancelLogin(t, l)
  <2> PICK l \in Logins : CancelLogin(t, l)
    BY <1>6
  <2>1. tasks' = [tasks EXCEPT ![t] = Idle] /\ tasks[t].pc = "idle"
        /\ tasks[t].pc \notin {"call"} \cup Holding(t)
    BY <1>6, NamesAre DEF CancelLogin, Request, Holding, Asking, Writing, Undoing
  <2>2. ~logins[l].consuming /\ logins[l] \in LoginRow
    BY <1>3 DEF CancelLogin
  <2>3. CASE logins[l].inFlight
    <3> DEFINE item == [logins[l] EXCEPT !.listed = FALSE]
    <3>1. logins' = [logins EXCEPT ![l] = item] /\ lease' = lease
      BY <2>3 DEF CancelLogin
    <3>2. item \in LoginRow /\ item.inFlight = logins[l].inFlight
          /\ item.consuming = logins[l].consuming /\ item.status = logins[l].status
      BY <2>2 DEF LoginRow
    <3> HIDE DEF item
    <3>3. logins'[l] = item /\ LoginOK(l)
      BY <1>1, <3>1
    <3>4. LoginOK(l)'
      BY <2>2, <2>3, <3>2, <3>3 DEF LoginOK
    <3> QED BY <2>1, <3>1, <3>2, <3>4, LoginSettles
  <2>4. CASE ~logins[l].inFlight
    <3>1. Cleanup(l, Forgotten(logins[l]))
      BY <2>4 DEF CancelLogin
    <3>2. \A u \in Tasks : tasks[u].login # l
      BY <2>2, <2>4, UnusedLogin
    <3> DEFINE new == Forgotten(logins[l])
    <3>3. new \in LoginRow /\ ~new.inFlight /\ ~new.consuming
      BY <2>2, <2>4, ItemsAre
    <3> HIDE DEF new
    <3>4. Cleanup(l, new)
      BY <3>1 DEF new
    <3> QED BY <2>1, <3>2, <3>3, <3>4, CleanupKeeps
  <2> QED BY <2>3, <2>4
<1>7. CASE \E l \in Logins : Sweep(l)
  <2> PICK l \in Logins : Sweep(l)
    BY <1>7
  <2>1. tasks' = tasks /\ logins[l] \in LoginRow /\ LoginOK(l)
    BY <1>1, <1>3 DEF Sweep
  <2>2. CASE Expire(l, logins[l])
    <3>1. logins[l].consuming => ~logins[l].inFlight /\ logins[l].listed
      BY <2>1 DEF LoginOK
    <3> QED BY <2>1, <2>2, <3>1, ExpireKeeps
  <2>3. CASE /\ logins[l].status = "expired" /\ ~logins[l].inFlight /\ ~logins[l].consuming
             /\ logins' = [logins EXCEPT ![l].listed = FALSE] /\ lease' = lease
    <3> DEFINE item == [logins[l] EXCEPT !.listed = FALSE]
    <3>1. logins' = [logins EXCEPT ![l] = item]
      BY <2>3
    <3>2. item \in LoginRow /\ item.inFlight = logins[l].inFlight
          /\ item.consuming = logins[l].consuming /\ item.status = logins[l].status
      BY <2>1 DEF LoginRow
    <3> HIDE DEF item
    <3>3. logins'[l] = item
      BY <1>1, <3>1
    <3>4. LoginOK(l)'
      BY <2>1, <2>3, <3>2, <3>3 DEF LoginOK
    <3> QED BY <2>1, <2>3, <3>1, <3>2, <3>4, LoginSettles
  <2> QED BY <2>2, <2>3 DEF Sweep
<1> QED BY <1>4, <1>5, <1>6, <1>7

\* A login that is started, polled, or completed.
LEMMA NewLoginsReserve ==
    ASSUME ReservedOK, NEW t \in Tasks,
           \/ BeginLogin(t)
           \/ t \in Threads /\ \E l \in Logins : PollLogin(t, l) \/ CompleteLogin(t, l)
    PROVE  ReservedOK'
<1>1. /\ DOMAIN tasks = Tasks /\ logins \in [Logins -> LoginRow] /\ TaskOK(t)
      /\ \A l \in Logins : LoginOK(l) /\ logins[l] \in LoginRow
      /\ lease = [connect |-> lease.connect, sync |-> lease.sync]
  BY DEF ReservedOK
<1>2. CASE BeginLogin(t)
  <2>1. tasks[t].pc = "start" /\ t # Lane /\ tasks[t].pc \notin {"call"} \cup Holding(t)
    BY <1>1, <1>2 DEF BeginLogin, TaskOK, Holding, Writing, Undoing
  <2>2. CASE tasks' = [tasks EXCEPT ![t] = Idle] /\ UNCHANGED <<lease, logins>>
    <3>1. FreshRow(Idle, "idle", "none", None, None)
      BY IdleRows
    <3> QED BY <2>1, <2>2, <3>1, TurnsOver DEF FreshRow, Owning, Asking, Writing, Undoing
  <2>3. ASSUME NEW l \in Logins, lease.connect = None, logins[l].status = "none",
               lease' = [lease EXCEPT !.connect = l],
               logins' = [logins EXCEPT ![l] =
                  [NoLogin EXCEPT !.status = "waiting", !.listed = TRUE, !.inFlight = TRUE]],
               tasks' = [tasks EXCEPT ![t].pc = "code", ![t].login = l]
        PROVE  ReservedOK'
    <3> DEFINE mid == [tasks[t] EXCEPT !.pc = "code"]
               row == [mid EXCEPT !.login = l]
               item == [NoLogin EXCEPT !.status = "waiting", !.listed = TRUE, !.inFlight = TRUE]
    <3>1. tasks' = [tasks EXCEPT ![t] = row]
      BY <1>1, <2>3
    <3>2. IsTask(mid) /\ mid.pc = "code"
      BY DEF ReservedOK, IsTask
    <3> HIDE DEF mid
    <3>3. IsTask(row) /\ row.login = l /\ row.pc \in Asking
      BY <3>2 DEF IsTask, Asking
    <3> HIDE DEF row
    <3>4. logins' = [logins EXCEPT ![l] = item]
      BY <2>3
    <3>5. item \in LoginRow /\ item.inFlight /\ item.status = "waiting" /\ ~item.consuming
      BY NewItems
    <3> HIDE DEF item
    <3>6. logins'[l] = item
      BY <1>1, <3>4
    <3>7. LoginOK(l)'
      BY <3>5, <3>6 DEF LoginOK
    <3>8. \A u \in Tasks : tasks[u].login # l
      BY <1>1, <2>3, UnusedLogin DEF LoginOK
    <3>9. item \in LoginRow /\ item.inFlight /\ t \in Tasks \ {Lane}
      BY <2>1, <3>5
    <3>10. lease.connect = None /\ lease' = [lease EXCEPT !.connect = l]
      BY <2>3
    <3> QED BY <2>1, <3>1, <3>3, <3>4, <3>7, <3>8, <3>9, <3>10, LoginBegins
  <2>4. \/ tasks' = [tasks EXCEPT ![t] = Idle] /\ UNCHANGED <<lease, logins>>
        \/ \E l \in Logins :
              /\ lease.connect = None /\ logins[l].status = "none"
              /\ lease' = [lease EXCEPT !.connect = l]
              /\ logins' = [logins EXCEPT ![l] =
                    [NoLogin EXCEPT !.status = "waiting", !.listed = TRUE, !.inFlight = TRUE]]
              /\ tasks' = [tasks EXCEPT ![t].pc = "code", ![t].login = l]
    BY <1>2 DEF BeginLogin, Free
  <2> QED BY <2>2, <2>3, <2>4
<1>3. CASE t \in Threads /\ \E l \in Logins : PollLogin(t, l)
  <2> PICK l \in Logins : PollLogin(t, l)
    BY <1>3
  <2> DEFINE row == [Idle EXCEPT !.pc = "poll", !.op = "poll", !.login = l]
             item == [logins[l] EXCEPT !.inFlight = TRUE]
  <2>1. tasks' = [tasks EXCEPT ![t] = row] /\ tasks[t].pc = "idle"
        /\ logins' = [logins EXCEPT ![l] = item] /\ lease' = lease
    BY DEF PollLogin, Request
  <2>2. logins[l].listed /\ logins[l].status = "waiting" /\ ~logins[l].inFlight
        /\ ~logins[l].consuming
    BY <1>1 DEF PollLogin, LoginOK
  <2>3. item \in LoginRow /\ item.inFlight /\ ~item.consuming /\ item.status = "waiting"
    BY <1>1, <2>2 DEF LoginRow
  <2>4. FreshRow(row, "poll", "poll", None, l)
    BY ONLY IdleRows, Zenon
  <2> HIDE DEF row, item
  <2>5. logins'[l] = item
    BY <1>1, <2>1
  <2>6. LoginOK(l)'
    BY <2>3, <2>5 DEF LoginOK
  <2>7. \A u \in Tasks : tasks[u].login # l
    BY <2>2, UnusedLogin
  <2>8. /\ IsTask(row) /\ row.login = l /\ row.pc \in Asking
        /\ t \in Tasks \ {Lane} /\ tasks[t].pc \notin {"call"} \cup Holding(t)
    BY <1>3, <2>1, <2>4, NamesAre, SMTT(30) DEF FreshRow, Asking, Holding, Writing, Undoing
  <2> QED BY <2>1, <2>3, <2>6, <2>7, <2>8, LoginBegins
<1>4. CASE t \in Threads /\ \E l \in Logins : CompleteLogin(t, l)
  <2> PICK l \in Logins : CompleteLogin(t, l)
    BY <1>4, Zenon
  <2>1. /\ tasks[t].pc = "idle" /\ logins[l].listed /\ ~logins[l].consuming /\ t # Lane
        /\ tasks[t].pc \notin {"call"} \cup Holding(t) /\ LoginOK(l) /\ logins[l] \in LoginRow
    BY ZenonT(30), <1>1, <1>4, NamesAre DEF CompleteLogin, Request, Holding, Writing, Undoing
  <2>2. CASE /\ logins[l].status = "confirmed" /\ lease.connect = l /\ lease' = lease
             /\ tasks' = [tasks EXCEPT ![t] = [Idle EXCEPT !.pc = "submit", !.op = "complete",
                                                 !.cookie = logins[l].cookie, !.login = l]]
             /\ logins' = [logins EXCEPT ![l].consuming = TRUE]
    <3> PICK c : c = logins[l].cookie
      OBVIOUS
    <3> DEFINE row == [Idle EXCEPT !.pc = "submit", !.op = "complete", !.cookie = c, !.login = l]
               item == [logins[l] EXCEPT !.consuming = TRUE]
    <3>1. tasks' = [tasks EXCEPT ![t] = row] /\ logins' = [logins EXCEPT ![l] = item]
      BY <2>2
    <3>2. ~logins[l].inFlight
      BY <2>1, <2>2 DEF LoginOK
    <3>3. item \in LoginRow /\ item.consuming /\ ~item.inFlight /\ item.listed
          /\ item.status = "confirmed"
      BY <2>1, <2>2, <3>2 DEF LoginRow
    <3>4. FreshRow(row, "submit", "complete", c, l)
      BY ONLY IdleRows, Zenon
    <3> HIDE DEF row, item
    <3>5. logins'[l] = item
      BY <1>1, <3>1
    <3>6. LoginOK(l)'
      BY <3>3, <3>5 DEF LoginOK
    <3>7. \A u \in Tasks : tasks[u].login # l
      BY <2>1, <3>2, UnusedLogin
    <3>8. IsTask(row) /\ row.login = l /\ row.pc = "submit" /\ t \in Tasks \ {Lane}
      BY <2>1, <3>4 DEF FreshRow
    <3> QED BY <2>1, <2>2, <3>1, <3>3, <3>6, <3>7, <3>8, LoginBegins
  <2>3. CASE /\ tasks' = [tasks EXCEPT ![t] = Idle]
             /\ \/ /\ logins[l].status = "confirmed"
                   /\ Cleanup(l, Expired(Forgotten(logins[l])))
                \/ ~logins[l].inFlight /\ Cleanup(l, Forgotten(logins[l]))
    <3>1. ~logins[l].inFlight
      BY <2>1, <2>3 DEF LoginOK
    <3>2. PICK item : /\ item \in {Forgotten(logins[l]), Expired(Forgotten(logins[l]))}
                      /\ Cleanup(l, item)
      BY <2>3
    <3>3. /\ Forgotten(logins[l]) \in LoginRow /\ ~Forgotten(logins[l]).inFlight
          /\ ~Forgotten(logins[l]).consuming
      BY <2>1, <3>1, ItemsAre
    <3>4. /\ Expired(Forgotten(logins[l])) \in LoginRow /\ ~Expired(Forgotten(logins[l])).inFlight
          /\ ~Expired(Forgotten(logins[l])).consuming
      BY <3>3, ItemsAre
    <3>5. item \in LoginRow /\ ~item.inFlight /\ ~item.consuming
      BY <3>2, <3>3, <3>4
    <3>6. \A u \in Tasks : tasks[u].login # l
      BY <2>1, <3>1, UnusedLogin
    <3> QED BY <2>1, <2>3, <3>2, <3>5, <3>6, CleanupKeeps
  <2>4. CASE /\ tasks' = [tasks EXCEPT ![t] = Idle] /\ logins[l].inFlight /\ lease' = lease
             /\ logins' = [logins EXCEPT ![l].listed = FALSE]
    <3> DEFINE item == [logins[l] EXCEPT !.listed = FALSE]
    <3>1. logins' = [logins EXCEPT ![l] = item]
      BY <2>4
    <3>2. item \in LoginRow /\ item.inFlight = logins[l].inFlight
          /\ item.consuming = logins[l].consuming /\ item.status = logins[l].status
      BY <2>1 DEF LoginRow
    <3> HIDE DEF item
    <3>3. logins'[l] = item
      BY <1>1, <3>1
    <3>4. LoginOK(l)'
      BY <2>1, <2>4, <3>2, <3>3 DEF LoginOK
    <3> QED BY <2>1, <2>4, <3>1, <3>2, <3>4, LoginSettles
  <2> QED BY ZenonT(30), <2>2, <2>3, <2>4 DEF CompleteLogin, Request
<1> QED BY <1>2, <1>3, <1>4

\* Every login of the shop is cleared, and its reservation with it.
LEMMA ClearedReserve ==
    ASSUME ReservedOK, NEW t \in Threads, StartLogin(t) \/ DeleteAccount(t)
    PROVE  ReservedOK'
<1>1. /\ DOMAIN tasks = Tasks /\ logins \in [Logins -> LoginRow] /\ Apart
      /\ \A l \in Logins : LoginOK(l) /\ logins[l] \in LoginRow
      /\ \A u \in Tasks : TaskOK(u)
      /\ lease = [connect |-> lease.connect, sync |-> lease.sync]
  BY DEF ReservedOK
<1>2. t \in Tasks /\ t # Lane /\ tasks[t].pc = "idle" /\ Cleared
  BY NamesAre DEF StartLogin, DeleteAccount, Request
<1>3. \E pc \in {"start", "delete"} : \E row :
         FreshRow(row, pc, pc, None, None) /\ tasks' = [tasks EXCEPT ![t] = row]
  <2> DEFINE row(pc) == [Idle EXCEPT !.pc = pc, !.op = pc]
  <2>1. \A pc : FreshRow(row(pc), pc, pc, None, None)
    BY ONLY IdleRows, Zenon
  <2>2. tasks' = [tasks EXCEPT ![t] = row("start")] \/ tasks' = [tasks EXCEPT ![t] = row("delete")]
    BY DEF StartLogin, DeleteAccount, Request
  <2> HIDE DEF row
  <2> QED BY <2>1, <2>2
<1>4. Moved(t) /\ tasks'[t].login = None /\ tasks'[t].pc \in {"start", "delete"}
  BY <1>2, <1>3, NewTask DEF FreshRow
<1>5. \A l \in Logins :
         /\ logins'[l] = Detached(logins[l]) /\ logins'[l] \in LoginRow
         /\ logins'[l].inFlight = logins[l].inFlight
         /\ logins'[l].consuming = logins[l].consuming
         /\ ~logins[l].listed => logins'[l] = logins[l]
         /\ logins[l].listed => logins'[l].status = "expired"
         /\ logins[l].consuming => logins'[l].listed = logins[l].listed
         /\ logins[l].listed /\ ~logins[l].consuming => ~logins'[l].listed
  <2> SUFFICES ASSUME NEW l \in Logins
               PROVE  /\ logins'[l] = Detached(logins[l]) /\ logins'[l] \in LoginRow
                      /\ logins'[l].inFlight = logins[l].inFlight
                      /\ logins'[l].consuming = logins[l].consuming
                      /\ ~logins[l].listed => logins'[l] = logins[l]
                      /\ logins[l].listed => logins'[l].status = "expired"
                      /\ logins[l].consuming => logins'[l].listed = logins[l].listed
                      /\ logins[l].listed /\ ~logins[l].consuming => ~logins'[l].listed
    OBVIOUS
  <2> PICK item \in LoginRow : item = logins[l]
    BY <1>1
  <2>1. logins'[l] = Detached(item)
    BY <1>2 DEF Cleared
  <2>2. CASE ~item.listed
    <3>1. Detached(item) = item
      BY <2>2 DEF Detached
    <3> QED BY <2>1, <2>2, <3>1
  <2>3. CASE item.listed /\ item.consuming
    <3>1. Detached(item) = Expired(item)
      BY <2>3 DEF Detached
    <3>2. /\ Expired(item) \in LoginRow /\ Expired(item).status = "expired"
          /\ Expired(item).listed = item.listed /\ Expired(item).inFlight = item.inFlight
          /\ Expired(item).consuming = item.consuming
      BY ItemsAre
    <3> QED BY <2>1, <2>3, <3>1, <3>2
  <2>4. CASE item.listed /\ ~item.consuming
    <3> DEFINE gone == Forgotten(item)
               left == [gone EXCEPT !.cookie = IF item.inFlight THEN item.cookie ELSE None]
    <3>1. Detached(item) = Expired(left)
      BY <2>4 DEF Detached
    <3>2. gone \in LoginRow /\ ~gone.listed /\ gone.inFlight = item.inFlight
          /\ gone.consuming = item.consuming
      BY ItemsAre
    <3> HIDE DEF gone
    <3>3. left \in LoginRow /\ ~left.listed /\ left.inFlight = item.inFlight
          /\ left.consuming = item.consuming
      BY <3>2 DEF LoginRow, Cookies
    <3> HIDE DEF left
    <3>4. /\ Expired(left) \in LoginRow /\ Expired(left).status = "expired"
          /\ Expired(left).listed = left.listed /\ Expired(left).inFlight = left.inFlight
          /\ Expired(left).consuming = left.consuming
      BY <3>3, ItemsAre
    <3> QED BY <2>1, <2>4, <3>1, <3>3, <3>4
  <2> QED BY <2>2, <2>3, <2>4
<1>6. lease' = IF \E l \in Logins : /\ lease.connect = l /\ logins[l].listed
                                   /\ ~logins[l].inFlight /\ ~logins'[l].listed
               THEN [lease EXCEPT !.connect = None] ELSE lease
  BY <1>2 DEF Cleared
<1>7. /\ lease' = [connect |-> lease'.connect, sync |-> lease.sync]
      /\ \/ lease'.connect = lease.connect
         \/ /\ lease'.connect = None /\ lease.connect \in Logins
            /\ ~logins[lease.connect].inFlight /\ ~logins[lease.connect].consuming
  BY <1>1, <1>5, <1>6
<1>8. ASSUME NEW u \in Tasks \ {t}
      PROVE  IsTask(tasks'[u]) /\ TaskOK(u)'
  <2>1. tasks[u].pc \in Owning => lease'.connect = lease.connect
    <3> SUFFICES ASSUME tasks[u].pc \in Owning, lease.connect \in Logins
                 PROVE  logins[lease.connect].consuming
      BY <1>7
    <3>1. lease.connect = tasks[u].login /\ tasks[u].login # None
      BY <1>1, NamesAre DEF TaskOK, Owner
    <3>2. Owning \cap Asking = {}
      BY DEF Owning, Asking, Writing, Undoing
    <3> QED BY <1>1, <3>1, <3>2 DEF TaskOK
  <2>2. tasks[u].login # None => tasks[u].login \in Logins
    BY <1>1 DEF TaskOK
  <2>3. (lease'.connect = u => lease.connect = u) /\ (lease'.sync = u => lease.sync = u)
    BY <1>7, NamesAre
  <2> QED BY <1>4, <1>5, <2>1, <2>2, <2>3, OthersKeep DEF Moved
<1>9. TaskOK(t)'
  <2>1. lease'.connect # t /\ lease'.sync # t
    BY <1>1, <1>2, <1>7, NamesAre DEF TaskOK, Holding, Writing, Undoing
  <2>2. tasks'[t].pc \notin Owning \cup Asking \cup {"reserve"}
    BY <1>4 DEF Owning, Asking, Writing, Undoing
  <2> QED BY <1>2, <1>4, <2>1, <2>2 DEF TaskOK
<1>10. Apart'
  BY <1>1, <1>4 DEF Apart, Moved
<1>11. ASSUME NEW l \in Logins PROVE LoginOK(l)'
  <2>1. LoginOK(l)
    BY <1>1
  <2>2. lease'.connect = l => lease.connect = l
    BY <1>7, NamesAre
  <2>3. lease'.connect = l => logins[l].inFlight \/ logins[l].consuming
    <3> SUFFICES ASSUME lease'.connect = l, ~logins[l].inFlight, ~logins[l].consuming PROVE FALSE
      OBVIOUS
    <3>1. logins[l].listed
      BY <2>1, <2>2 DEF LoginOK
    <3> QED BY <1>1, <1>5, <1>6, <2>2, <3>1, NamesAre
  <2>4. CASE logins[l].listed
    BY <1>5, <2>1, <2>3, <2>4 DEF LoginOK
  <2>5. CASE ~logins[l].listed
    BY <1>5, <2>1, <2>3, <2>5 DEF LoginOK
  <2> QED BY <2>4, <2>5
<1>12. logins' \in [Logins -> LoginRow]
  BY <1>2, <1>5 DEF Cleared
<1> QED BY <1>4, <1>7, <1>8, <1>9, <1>10, <1>11, <1>12 DEF ReservedOK, Moved

\* A killed process leaves no reservation and no login in use behind.
LEMMA CrashReserves ==
    ASSUME ReservedOK, NEW members, members \in {Threads, {Lane}}, Crash(members)
    PROVE  ReservedOK'
<1> DEFINE gone == members \cup (IF Lane \in members THEN {} ELSE Logins)
<1>1. /\ DOMAIN tasks = Tasks /\ logins \in [Logins -> LoginRow] /\ Apart
      /\ \A l \in Logins : LoginOK(l) /\ logins[l] \in LoginRow
      /\ \A u \in Tasks : TaskOK(u) /\ IsTask(tasks[u])
      /\ lease = [connect |-> lease.connect, sync |-> lease.sync]
  BY DEF ReservedOK
<1>2. /\ \A u \in Tasks : u \notin Logins /\ u # None
      /\ None \notin Logins /\ Lane \in Tasks /\ Threads \subseteq Tasks /\ Lane \notin Threads
  BY NamesAre
<1>3. gone = Threads \cup Logins \/ gone = {Lane}
  BY <1>2
<1>4. lease' = [lease EXCEPT !.connect = IF @ \in gone THEN None ELSE @,
                             !.sync = IF @ \in gone THEN None ELSE @]
  BY DEF Crash
<1>5. tasks' = [t \in Tasks |-> IF t \in members THEN Idle ELSE tasks[t]]
  BY DEF Crash
<1>6. logins' = [l \in Logins |->
         IF l \notin gone \/ logins[l].status = "none" THEN logins[l]
         ELSE [NoLogin EXCEPT !.status = "expired"]]
  BY DEF Crash
<1>7. FreshRow(Idle, "idle", "none", None, None)
  BY IdleRows
<1> HIDE DEF gone
<1>8. lease' = [connect |-> IF lease.connect \in gone THEN None ELSE lease.connect,
                sync |-> IF lease.sync \in gone THEN None ELSE lease.sync]
  BY <1>1, <1>4
<1>9. \A u \in Tasks : tasks'[u] = IF u \in members THEN Idle ELSE tasks[u]
  BY <1>5
<1>10. \A u \in members : u \in gone
  BY <1>2, <1>3 DEF gone
<1>11. ASSUME NEW u \in Tasks, u \in members PROVE IsTask(tasks'[u]) /\ TaskOK(u)'
  <2>1. tasks'[u] = Idle /\ lease'.connect # u /\ lease'.sync # u
    BY <1>2, <1>8, <1>9, <1>10, <1>11
  <2>2. "idle" \notin Owning /\ "idle" \notin Asking
    BY DEF Owning, Asking, Writing, Undoing
  <2> QED BY <1>7, <2>1, <2>2 DEF FreshRow, TaskOK
<1>12. ASSUME NEW l \in Logins
       PROVE  /\ logins'[l] \in LoginRow /\ LoginOK(l)'
              /\ l \notin gone => logins'[l] = logins[l]
  <2>1. logins'[l] = IF l \notin gone \/ logins[l].status = "none" THEN logins[l]
                     ELSE [NoLogin EXCEPT !.status = "expired"]
    BY <1>6
  <2>2. lease'.connect = l => lease.connect = l /\ l \notin gone
    BY <1>2, <1>8
  <2>3. CASE logins'[l] = logins[l]
    <3>1. LoginOK(l)'
      BY <1>1, <2>2, <2>3 DEF LoginOK
    <3> QED BY <1>1, <2>3, <3>1
  <2>4. CASE l \in gone /\ logins'[l] = [NoLogin EXCEPT !.status = "expired"]
    <3>1. /\ logins'[l] \in LoginRow
          /\ ~logins'[l].listed /\ ~logins'[l].inFlight /\ ~logins'[l].consuming
      BY <2>4, NewItems
    <3>2. LoginOK(l)'
      BY <2>2, <2>4, <3>1 DEF LoginOK
    <3> QED BY <2>4, <3>1, <3>2
  <2> QED BY <2>1, <2>3, <2>4
<1>13. ASSUME NEW u \in Tasks, u \notin members PROVE IsTask(tasks'[u]) /\ TaskOK(u)'
  <2>1. tasks'[u] = tasks[u] /\ u \notin gone
    BY <1>2, <1>9, <1>13 DEF gone
  <2>2. tasks[u].login # None => tasks[u].login \in Logins /\ tasks[u].login \notin gone
    <3> SUFFICES ASSUME tasks[u].login # None
                 PROVE  tasks[u].login \in Logins /\ tasks[u].login \notin gone
      OBVIOUS
    <3>1. tasks[u].login \in Logins /\ u # Lane
      BY <1>1 DEF TaskOK
    <3>2. u \in Threads /\ members = {Lane}
      BY <1>13, <3>1 DEF Tasks
    <3>3. gone = {Lane}
      BY <3>2 DEF gone
    <3> QED BY <1>2, <3>1, <3>3
  <2>3. tasks[u].login # None => logins'[tasks[u].login] = logins[tasks[u].login]
    BY <1>12, <2>2
  <2>4. Owner(u) \notin gone
    BY <2>1, <2>2 DEF Owner
  <2>5. tasks[u].pc \in Owning => lease'.connect = lease.connect
    BY <1>1, <1>8, <2>4 DEF TaskOK
  <2>6. (lease'.connect = u => lease.connect = u) /\ (lease'.sync = u => lease.sync = u)
    BY <1>2, <1>8
  <2> QED BY <2>1, <2>3, <2>5, <2>6, OthersKeep
<1>14. Apart'
  BY <1>1, <1>7, <1>9 DEF Apart, FreshRow
<1>15. DOMAIN tasks' = Tasks /\ logins' \in [Logins -> LoginRow]
  BY <1>5, <1>6, <1>12
<1>16. \A u \in Tasks : IsTask(tasks'[u]) /\ TaskOK(u)'
  BY <1>11, <1>13
<1>17. lease' = [connect |-> lease'.connect, sync |-> lease'.sync]
  BY <1>8
<1> QED BY <1>12, <1>14, <1>15, <1>16, <1>17 DEF ReservedOK

\* Every step of a shop's connection keeps the reservation in order.
LEMMA ReservationsKept ==
    ASSUME ReservedOK, ConnectionNext
    PROVE  ReservedOK'
<1>1. ASSUME NEW t \in Tasks, Step(t) PROVE ReservedOK'
  BY <1>1, SyncStepsReserve, LeaseStepsReserve, OtherStepsReserve, LoginStepsReserve,
     NewLoginsReserve, Zenon DEF Step
<1>2. ASSUME NEW t \in Threads, Arrives(t) PROVE ReservedOK'
  <2>1. t \in Tasks
    BY DEF Tasks
  <2> QED BY <1>2, <2>1, OtherStepsReserve, LoginStepsReserve, NewLoginsReserve, ClearedReserve,
             Zenon DEF Arrives
<1>3. ASSUME NEW l \in Logins, Sweep(l) PROVE ReservedOK'
  BY <1>3, NamesAre, LoginStepsReserve, Zenon
<1>4. ASSUME LaneClaim PROVE ReservedOK'
  BY <1>4, NamesAre, OtherStepsReserve, Zenon
<1>5. ASSUME Crash(Threads) \/ Crash({Lane}) PROVE ReservedOK'
  BY <1>5, CrashReserves
<1> QED BY <1>1, <1>2, <1>3, <1>4, <1>5 DEF ConnectionNext

-------------------------------------------------------------------------------
(* What is known of the files, step by step.                               *)

\* Where a task is at work on the files, on what it found there before.
Handling == {"call", "pause"} \cup Writing \cup Undoing

\* No two tasks own the reservation.
LEMMA OneOwner ==
    ASSUME ReservedOK, NEW t \in Tasks, NEW u \in Tasks,
           tasks[t].pc \in Owning, tasks[u].pc \in Owning
    PROVE  t = u
<1>1. lease.connect = Owner(t) /\ lease.connect = Owner(u) /\ TaskOK(t) /\ TaskOK(u) /\ Apart
  BY DEF ReservedOK, TaskOK
<1> QED BY <1>1, NamesAre DEF Owner, TaskOK, Apart

LEMMA PlainRow ==
    ASSUME NEW r, r.pc \notin Handling \cup {"edit", "map"}
    PROVE  RowOK(r) /\ SwapOK(r)
BY DEF RowOK, SwapOK, Handling, Writing, Undoing

\* A step of one task that leaves the files alone.
LEMMA FilesRest ==
    ASSUME ReservedOK, FilesOK, NEW t \in Tasks, Moved(t), UNCHANGED <<files, history>>,
           RowOK(tasks'[t]), ~history.strayed => EditOK(tasks'[t]) /\ SwapOK(tasks'[t])
    PROVE  FilesOK'
<1>1. \A u \in Tasks : RowOK(tasks'[u])
  BY DEF FilesOK, Moved
<1>2. ~history.strayed => \A u \in Tasks : EditOK(tasks'[u]) /\ SwapOK(tasks'[u])
  BY DEF FilesOK, Moved
<1>3. ~history'.strayed => \A u \in Tasks : EditOK(tasks[u])' /\ SwapOK(tasks[u])'
  BY <1>2 DEF EditOK, SwapOK
<1>4. /\ files' = [cookie |-> files'.cookie, snapshot |-> files'.snapshot, products |-> files'.products]
      /\ history' \in [strayed : BOOLEAN]
      /\ ~history'.strayed => files'.products \in {None, files'.cookie}
  BY DEF FilesOK
<1>5. \A u \in Tasks : RowOK(tasks[u])'
  BY <1>1 DEF RowOK
<1> QED BY <1>3, <1>4, <1>5 DEF FilesOK

\* A task that goes on to where it has nothing to do with the files.
LEMMA FilesMove ==
    ASSUME ReservedOK, FilesOK, NEW t \in Tasks, NEW pc, Moves(t, pc),
           pc \notin Handling \cup {"edit", "map"}, UNCHANGED <<files, history>>
    PROVE  FilesOK'
<1>1. RowOK(tasks'[t]) /\ SwapOK(tasks'[t])
  BY PlainRow DEF Moves
<1>2. ~history.strayed => EditOK(tasks'[t])
  BY DEF FilesOK, EditOK, Moves
<1> QED BY <1>1, <1>2, FilesRest DEF Moves

\* A task that begins or ends with no business with the files yet.
LEMMA FilesTurn ==
    ASSUME ReservedOK, FilesOK, NEW t \in Tasks, NEW row, NEW pc, NEW op, NEW c, NEW l,
           FreshRow(row, pc, op, c, l), op # "edit", pc \notin Handling \cup {"edit", "map"},
           tasks' = [tasks EXCEPT ![t] = row], UNCHANGED <<files, history>>
    PROVE  FilesOK'
<1>1. Moved(t) /\ tasks'[t] = row
  BY NewTask DEF FreshRow
<1>2. RowOK(tasks'[t]) /\ SwapOK(tasks'[t])
  BY <1>1, PlainRow DEF FreshRow
<1>3. EditOK(tasks'[t])
  BY <1>1 DEF EditOK, FreshRow
<1> QED BY <1>1, <1>2, <1>3, FilesRest

\* A step of the task that owns the reservation.
LEMMA FilesChange ==
    ASSUME ReservedOK, FilesOK, NEW t \in Tasks, tasks[t].pc \in Owning, Moved(t),
           tasks'[t].op = tasks[t].op, tasks'[t].cookie = tasks[t].cookie,
           files' = [cookie |-> files'.cookie, snapshot |-> files'.snapshot,
                     products |-> files'.products],
           history' \in [strayed : BOOLEAN], history.strayed => history'.strayed,
           RowOK(tasks'[t]),
           ~history'.strayed =>
              /\ files'.products \in {None, files'.cookie}
              /\ SwapOK(tasks[t])'
              /\ files'.cookie = files.cookie \/ ~Editing
    PROVE  FilesOK'
<1>1. \A u \in Tasks : RowOK(tasks[u])'
  <2>1. \A u \in Tasks : RowOK(tasks'[u])
    BY DEF FilesOK, Moved
  <2> QED BY <2>1 DEF RowOK
<1>2. ASSUME ~history'.strayed, NEW u \in Tasks PROVE EditOK(tasks[u])' /\ SwapOK(tasks[u])'
  <2>1. EditOK(tasks[u])
    BY <1>2 DEF FilesOK
  <2>2. tasks'[u].op = tasks[u].op /\ tasks'[u].cookie = tasks[u].cookie
    BY DEF Moved
  <2>3. EditOK(tasks[u])'
    BY <1>2, <2>1, <2>2 DEF EditOK, Editing
  <2>4. CASE u = t
    BY <1>2, <2>3, <2>4
  <2>5. CASE u # t
    <3>1. tasks'[u] = tasks[u] /\ tasks[u].pc \notin Owning
      BY <2>5, OneOwner DEF Moved
    <3>2. Handling \subseteq Owning
      BY DEF Handling, Owning
    <3>3. SwapOK(tasks[u])'
      BY <3>1, <3>2 DEF SwapOK, Handling, Writing, Undoing
    <3> QED BY <2>3, <3>3
  <2> QED BY <2>4, <2>5
<1> QED BY <1>1, <1>2 DEF FilesOK

\* The steps of a task that are not about the files.
LEMMA PlainStepsFiles ==
    ASSUME ReservedOK, FilesOK, NEW t \in Tasks,
           \/ Submit(t) \/ Claim(t) \/ Reserve(t) \/ WriteRow(t) \/ Leave(t) \/ Settle(t)
           \/ Answer(t) \/ BeginLogin(t) \/ CodeArrives(t) \/ PollAnswered(t)
    PROVE  FilesOK'
<1>1. UNCHANGED <<files, history>>
  BY ZenonT(30) DEF Submit, Claim, Reserve, WriteRow, Leave, Settle, Answer, BeginLogin, CodeArrives,
         PollAnswered
<1>2. FreshRow(Idle, "idle", "none", None, None)
  BY IdleRows
<1>3. \A pc : pc \in {"answer", "claim", "reserve", "open", "settle", "leave", "code", "idle"} =>
         pc \notin Handling \cup {"edit", "map"}
  BY DEF Handling, Writing, Undoing
<1>4. CASE \E pc \in {"answer", "claim", "reserve", "open", "settle", "leave"} : Moves(t, pc)
  BY <1>1, <1>3, <1>4, FilesMove
<1>5. CASE tasks' = [tasks EXCEPT ![t] = Idle]
  BY <1>1, <1>2, <1>3, <1>5, FilesTurn
<1>6. CASE \E l \in Logins : tasks' = [tasks EXCEPT ![t].pc = "code", ![t].login = l]
  <2> PICK l \in Logins : tasks' = [tasks EXCEPT ![t].pc = "code", ![t].login = l]
    BY <1>6
  <2> DEFINE mid == [tasks[t] EXCEPT !.pc = "code"]
             row == [mid EXCEPT !.login = l]
  <2>1. tasks' = [tasks EXCEPT ![t] = row]
    BY DEF ReservedOK
  <2>2. IsTask(mid) /\ mid.pc = "code" /\ mid.op = tasks[t].op /\ mid.cookie = tasks[t].cookie
    BY DEF ReservedOK, IsTask
  <2> HIDE DEF mid
  <2>3. IsTask(row) /\ row.pc = "code" /\ row.op = tasks[t].op /\ row.cookie = tasks[t].cookie
    BY <2>2 DEF IsTask
  <2> HIDE DEF row
  <2>4. Moved(t) /\ tasks'[t] = row
    BY <2>1, <2>3, NewTask
  <2>5. RowOK(tasks'[t]) /\ SwapOK(tasks'[t])
    BY <1>3, <2>3, <2>4, PlainRow
  <2>6. ~history.strayed => EditOK(tasks'[t])
    BY <2>3, <2>4 DEF FilesOK, EditOK
  <2> QED BY <1>1, <2>4, <2>5, <2>6, FilesRest
<1>7. CASE Submit(t) \/ Claim(t) \/ Reserve(t) \/ WriteRow(t) \/ Settle(t)
  <2>1. CASE Submit(t)
    <3>1. Moves(t, "answer") \/ Moves(t, "claim")
      BY ZenonT(30), <2>1, GoesOn DEF Submit
    <3> QED BY <1>4, <3>1
  <2>2. CASE Claim(t)
    BY <1>4, <2>2, GoesOn DEF Claim
  <2>3. CASE Reserve(t)
    BY <1>4, <2>3, GoesOn, FailsOn DEF Reserve
  <2>4. CASE WriteRow(t)
    BY <1>4, <2>4, GoesOn, FailsOn DEF WriteRow
  <2>5. CASE Settle(t)
    <3> DEFINE pc == IF t = Lane THEN "leave" ELSE "answer"
    <3>1. \/ Goes(t, pc)
          \/ \E result : tasks' = [tasks EXCEPT ![t].pc = pc, ![t].result = result]
      BY <2>5 DEF Settle
    <3>2. Moves(t, pc)
      BY <3>1, GoesOn
    <3> QED BY <1>4, <3>2
  <2> QED BY <1>7, <2>1, <2>2, <2>3, <2>4, <2>5
<1>8. CASE Leave(t)
  <2>1. CASE t = Lane
    BY <1>5, <1>8, <2>1 DEF Leave
  <2>2. CASE t # Lane
    BY ZenonT(30), <1>4, <1>8, <2>2, GoesOn DEF Leave
  <2> QED BY <2>1, <2>2
<1>9. CASE Answer(t) \/ CodeArrives(t) \/ PollAnswered(t)
  BY ZenonT(30), <1>5, <1>9 DEF Answer, CodeArrives, PollAnswered
<1>10. CASE BeginLogin(t)
  BY <1>5, <1>6, <1>10 DEF BeginLogin
<1> QED BY <1>7, <1>8, <1>9, <1>10, Zenon

\* Requests, and the lane's next job.
LEMMA RequestsFiles ==
    ASSUME ReservedOK, FilesOK, NEW t \in Tasks,
           (t \in Threads /\ Arrives(t)) \/ (t = Lane /\ LaneClaim)
    PROVE  FilesOK'
<1>1. UNCHANGED <<files, history>>
  BY DEF Arrives, SaveCookies, CompleteLogin, PollLogin, CancelLogin, SyncSavedShop,
         EnqueueRefresh, StartLogin, SaveProducts, DeleteAccount, LaneClaim
<1>2. \A pc : pc \in {"idle", "submit", "start", "poll", "delete", "reserve"} =>
         pc \notin Handling \cup {"edit", "map"}
  BY DEF Handling, Writing, Undoing
<1>3. ASSUME NEW row, NEW pc, NEW op, NEW c, NEW l, FreshRow(row, pc, op, c, l),
             pc \in {"idle", "submit", "start", "poll", "delete", "reserve"}, op # "edit",
             tasks' = [tasks EXCEPT ![t] = row]
      PROVE  FilesOK'
  BY <1>1, <1>2, <1>3, FilesTurn
<1>4. CASE Request(t, Idle)
  <2>1. FreshRow(Idle, "idle", "none", None, None)
    BY IdleRows
  <2> QED BY <1>3, <1>4, <2>1 DEF Request
<1>5. CASE \E c \in Sellers : SaveCookies(t, c)
  <2> PICK c \in Sellers : SaveCookies(t, c)
    BY <1>5
  <2> DEFINE row == [Idle EXCEPT !.pc = "submit", !.op = "save", !.cookie = c]
  <2>1. FreshRow(row, "submit", "save", c, None)
    BY ONLY IdleRows, Zenon
  <2>2. tasks' = [tasks EXCEPT ![t] = row]
    BY DEF SaveCookies, Request
  <2> HIDE DEF row
  <2> QED BY <1>3, <2>1, <2>2
<1>6. CASE SyncSavedShop(t)
  <2> DEFINE row == [Idle EXCEPT !.pc = "submit", !.op = "refresh", !.cookie = files.cookie]
  <2>1. FreshRow(row, "submit", "refresh", files.cookie, None)
    BY ONLY IdleRows, Zenon
  <2>2. tasks' = [tasks EXCEPT ![t] = row]
    BY <1>6 DEF SyncSavedShop, Request
  <2> HIDE DEF row
  <2> QED BY <1>3, <2>1, <2>2
<1>7. CASE EnqueueRefresh(t)
  BY <1>4, <1>7 DEF EnqueueRefresh
<1>8. CASE \E l \in Logins : CompleteLogin(t, l)
  <2> PICK l \in Logins : CompleteLogin(t, l)
    BY <1>8
  <2> PICK c : c = logins[l].cookie
    OBVIOUS
  <2> DEFINE row == [Idle EXCEPT !.pc = "submit", !.op = "complete", !.cookie = c, !.login = l]
  <2>1. FreshRow(row, "submit", "complete", c, l)
    BY ONLY IdleRows, Zenon
  <2>2. Request(t, Idle) \/ tasks' = [tasks EXCEPT ![t] = row]
    BY DEF CompleteLogin, Request
  <2> HIDE DEF row
  <2> QED BY <1>3, <1>4, <2>1, <2>2
<1>9. CASE \E l \in Logins : PollLogin(t, l)
  <2> PICK l \in Logins : PollLogin(t, l)
    BY <1>9
  <2> DEFINE row == [Idle EXCEPT !.pc = "poll", !.op = "poll", !.login = l]
  <2>1. FreshRow(row, "poll", "poll", None, l)
    BY ONLY IdleRows, Zenon
  <2>2. tasks' = [tasks EXCEPT ![t] = row]
    BY DEF PollLogin, Request
  <2> HIDE DEF row
  <2> QED BY <1>3, <2>1, <2>2
<1>10. CASE \E l \in Logins : CancelLogin(t, l)
  BY <1>4, <1>10 DEF CancelLogin
<1>11. CASE StartLogin(t) \/ DeleteAccount(t)
  <2> DEFINE row(pc) == [Idle EXCEPT !.pc = pc, !.op = pc]
  <2>1. \A pc : FreshRow(row(pc), pc, pc, None, None)
    BY ONLY IdleRows, Zenon
  <2>2. tasks' = [tasks EXCEPT ![t] = row("start")] \/ tasks' = [tasks EXCEPT ![t] = row("delete")]
    BY <1>11 DEF StartLogin, DeleteAccount, Request
  <2> HIDE DEF row
  <2> QED BY <1>3, <2>1, <2>2
<1>12. CASE SaveProducts(t)
  <2> DEFINE row == [Idle EXCEPT !.pc = "edit", !.op = "edit", !.cookie = files.snapshot,
                                 !.prev.products = files.products]
  <2>1. FreshRow(row, "edit", "edit", files.snapshot, None)
    BY ONLY IdleRows, Zenon
  <2>2. tasks' = [tasks EXCEPT ![t] = row]
    BY <1>12 DEF SaveProducts, Request
  <2>3. files.snapshot = files.cookie
    BY <1>12 DEF SaveProducts, Verified
  <2> HIDE DEF row
  <2>4. Moved(t) /\ tasks'[t] = row
    BY <2>1, <2>2, NewTask DEF FreshRow
  <2>5. RowOK(row) /\ SwapOK(row) /\ EditOK(row)
    BY <2>1, <2>3 DEF FreshRow, RowOK, SwapOK, EditOK, Replaces, Writing, Undoing
  <2> QED BY <1>1, <2>4, <2>5, FilesRest
<1>13. CASE t = Lane /\ LaneClaim
  <2> PICK i : tasks' = [tasks EXCEPT ![Lane] = [Idle EXCEPT !.pc = "reserve", !.op = "lane",
                                                  !.job = i, !.cookie = jobs[i].key.cookie]]
    BY <1>13 DEF LaneClaim
  <2> DEFINE c == jobs[i].key.cookie
             row == [Idle EXCEPT !.pc = "reserve", !.op = "lane", !.job = i, !.cookie = c]
  <2>1. tasks' = [tasks EXCEPT ![t] = row]
    BY <1>13
  <2> HIDE DEF c
  <2>2. FreshRow(row, "reserve", "lane", c, None)
    BY ONLY IdleRows, Zenon
  <2> HIDE DEF row
  <2> QED BY <1>3, <2>1, <2>2
<1> QED BY <1>5, <1>6, <1>7, <1>8, <1>9, <1>10, <1>11, <1>12, <1>13, SMTT(30) DEF Arrives

\* The next write of a sync that has heard from the platform.
LEMMA BeginsFiles ==
    ASSUME ReservedOK, FilesOK, NEW t \in Tasks, tasks[t].pc \in {"call", "pause"},
           UNCHANGED <<files, history>>, Goes(t, NextWrite(t, "begin"))
    PROVE  FilesOK'
<1> PICK pc : pc = NextWrite(t, "begin")
  OBVIOUS
<1>1. Moves(t, pc) /\ tasks'[t].prev = tasks[t].prev
  BY GoesOn
<1>2. /\ RowOK(tasks[t])
      /\ ~history.strayed => files.products \in {None, files.cookie} /\ SwapOK(tasks[t])
  BY DEF FilesOK
<1>3. /\ Changed(t) <=> Switches(tasks[t])
      /\ Replacing(t) <=> Replaces(tasks[t])
  BY DEF Changed, Switches, Replacing, Replaces
<1>4. ~Replaces(tasks[t]) => ~Switches(tasks[t])
  BY <1>2 DEF RowOK, Switches, NoPrev
<1>5. \/ pc = "products" /\ Switches(tasks[t])
      \/ pc = "cookie" /\ ~Switches(tasks[t]) /\ Replaces(tasks[t])
      \/ pc = "snapshot" /\ ~Switches(tasks[t]) /\ ~Replaces(tasks[t])
  BY <1>3 DEF NextWrite
<1>6. /\ Replaces(tasks'[t]) <=> Replaces(tasks[t])
      /\ Switches(tasks'[t]) <=> Switches(tasks[t])
  BY <1>1 DEF Moves, Replaces, Switches
<1>7. RowOK(tasks'[t])
  BY <1>1, <1>2, <1>4, <1>5, <1>6 DEF Moves, RowOK, Writing, Undoing
<1>8. ~history.strayed => SwapOK(tasks'[t])
  BY <1>1, <1>2, <1>5, <1>6 DEF Moves, SwapOK, Writing, Undoing
<1>9. ~history.strayed => EditOK(tasks'[t])
  BY <1>1 DEF FilesOK, EditOK, Moves
<1> QED BY <1>1, <1>7, <1>8, <1>9, FilesRest DEF Moves

\* What a sync finds before the platform call, and what it does after the call.
LEMMA CallsFiles ==
    ASSUME ReservedOK, FilesOK, NEW t \in Tasks, Open(t) \/ Call(t) \/ Pause(t)
    PROVE  FilesOK'
<1>1. UNCHANGED <<files, history>>
  BY DEF Open, Call, Pause
<1>2. CASE \E result : Fails(t, result)
  <2>1. \E pc \in {"settle", "leave"} : Moves(t, pc)
    BY <1>2, FailsOn
  <2>2. {"settle", "leave"} \cap (Handling \cup {"edit", "map"}) = {}
    BY DEF Handling, Writing, Undoing
  <2> QED BY <1>1, <2>1, <2>2, FilesMove
<1>3. CASE Open(t) /\ ~\E result : Fails(t, result)
  <2> DEFINE prev == [cookie |-> files.cookie, verified |-> Verified, products |-> files.products]
  <2> PICK found : found = IF Replacing(t) THEN prev ELSE NoPrev
    OBVIOUS
  <2>1. tasks' = [tasks EXCEPT ![t].pc = "call", ![t].prev = found]
    BY <1>3 DEF Open
  <2>2. Moves(t, "call") /\ tasks'[t].prev = found
    BY <2>1, GoesOn
  <2>3. Replaces(tasks'[t]) <=> Replacing(t)
    BY <2>2 DEF Moves, Replaces, Replacing
  <2>4. RowOK(tasks'[t])
    BY <2>2, <2>3 DEF Moves, RowOK, Writing, Undoing
  <2>5. ~history.strayed => SwapOK(tasks'[t])
    <3>1. ~history.strayed => files.products \in {None, files.cookie}
      BY DEF FilesOK
    <3>2. Replacing(t) => found.cookie = files.cookie /\ found.products = files.products
      OBVIOUS
    <3> QED BY <2>2, <2>3, <3>1, <3>2 DEF Moves, SwapOK, Writing, Undoing
  <2>6. ~history.strayed => EditOK(tasks'[t])
    BY <2>2 DEF FilesOK, EditOK, Moves
  <2> QED BY <1>1, <2>2, <2>4, <2>5, <2>6, FilesRest DEF Moves
<1>4. CASE (Call(t) \/ Pause(t)) /\ Goes(t, NextWrite(t, "begin"))
  BY <1>1, <1>4, BeginsFiles DEF Call, Pause
<1>5. CASE Call(t) /\ Goes(t, "pause")
  <2>1. Moves(t, "pause") /\ tasks'[t].prev = tasks[t].prev
    BY <1>5, GoesOn
  <2>2. tasks[t].pc = "call" /\ RowOK(tasks[t]) /\ (~history.strayed => SwapOK(tasks[t]))
    BY <1>5 DEF Call, FilesOK
  <2>3. RowOK(tasks'[t])
    BY <2>1, <2>2 DEF Moves, RowOK, Replaces, Writing, Undoing
  <2>4. ~history.strayed => SwapOK(tasks'[t])
    BY <2>1, <2>2 DEF Moves, SwapOK, Replaces, Switches, Writing, Undoing
  <2>5. ~history.strayed => EditOK(tasks'[t])
    BY <2>1 DEF FilesOK, EditOK, Moves
  <2> QED BY <1>1, <2>1, <2>3, <2>4, <2>5, FilesRest DEF Moves
<1>6. Call(t) => \/ \E result : Fails(t, result)
                 \/ Goes(t, "pause") \/ Goes(t, NextWrite(t, "begin"))
  BY DEF Call
<1>7. Pause(t) => (\E result : Fails(t, result)) \/ Goes(t, NextWrite(t, "begin"))
  BY DEF Pause
<1> QED BY <1>2, <1>3, <1>4, <1>5, <1>6, <1>7

\* What is remembered of a step.
LEMMA HistoryGrows ==
    ASSUME history \in [strayed : BOOLEAN], NEW why, NEW edits,
           history' = [history EXCEPT !.strayed = @ \/ (why /\ edits)]
    PROVE  /\ history' \in [strayed : BOOLEAN]
           /\ history'.strayed <=> history.strayed \/ (why /\ edits)
<1> PICK b \in BOOLEAN : b = (why /\ edits)
  BY Zenon
<1>1. history' = [history EXCEPT !.strayed = @ \/ b]
  OBVIOUS
<1>2. history' \in [strayed : BOOLEAN] /\ (history'.strayed <=> history.strayed \/ b)
  BY <1>1
<1> QED BY <1>2

\* A file is written, or its write fails and a replacement goes back.
LEMMA WritesFiles ==
    ASSUME ReservedOK, FilesOK, NEW t \in Tasks, Write(t)
    PROVE  FilesOK'
<1> DEFINE r == tasks[t]
<1>1. r.pc \in Writing /\ r.pc \in Owning
  BY DEF Write, Owning
<1>2. /\ RowOK(r) /\ history \in [strayed : BOOLEAN]
      /\ ~history.strayed => files.products \in {None, files.cookie} /\ SwapOK(r)
      /\ files = [cookie |-> files.cookie, snapshot |-> files.snapshot, products |-> files.products]
  BY DEF FilesOK
<1>3. /\ Changed(t) <=> Switches(r)
      /\ Replacing(t) <=> Replaces(r)
  BY DEF Changed, Switches, Replacing, Replaces
<1> HIDE DEF r
<1>4. ASSUME NEW pc, Moves(t, pc), tasks'[t].prev = tasks[t].prev
      PROVE  /\ Moved(t) /\ tasks'[t].pc = pc /\ tasks'[t].op = tasks[t].op
             /\ tasks'[t].cookie = tasks[t].cookie /\ tasks'[t].prev = r.prev
             /\ tasks'[t].cookie = r.cookie
             /\ Replaces(tasks'[t]) <=> Replaces(r)
             /\ Switches(tasks'[t]) <=> Switches(r)
  BY <1>4 DEF Moves, Replaces, Switches, r
<1>5. CASE Fails(t, "fail") /\ UNCHANGED <<files, history>>
  <2>1. \E pc \in {"settle", "leave"} : Moves(t, pc)
    BY <1>5, FailsOn
  <2>2. {"settle", "leave"} \cap (Handling \cup {"edit", "map"}) = {}
    BY DEF Handling, Writing, Undoing
  <2> QED BY <1>5, <2>1, <2>2, FilesMove
<1>6. CASE /\ Replacing(t) /\ UNCHANGED <<files, history>>
           /\ tasks' = [tasks EXCEPT ![t].result = "fail", ![t].pc = Undo(t, "begin")]
  <2>1. Moves(t, "undo_cookie") /\ tasks'[t].prev = tasks[t].prev
    BY <1>6, GoesOn DEF Undo
  <2>2. RowOK(tasks'[t])
    <3>1. tasks'[t].pc = "undo_cookie" /\ Replaces(tasks'[t])
      BY <1>3, <1>4, <1>6, <2>1
    <3> QED BY <3>1 DEF RowOK, Writing, Undoing
  <2>3. ~history.strayed => SwapOK(tasks'[t])
    BY <1>1, <1>2, <1>4, <2>1 DEF SwapOK, Writing, Undoing
  <2>4. ~history.strayed => EditOK(tasks'[t])
    BY <2>1 DEF FilesOK, EditOK, Moves
  <2> QED BY <1>4, <1>6, <2>1, <2>2, <2>3, <2>4, FilesRest
<1>7. ASSUME NEW pc, Moves(t, pc), tasks'[t].prev = tasks[t].prev,
             files' = Written(t, r.pc), pc \notin {"edit", "map", "call", "pause"},
             history' = [history EXCEPT !.strayed = @ \/ (r.pc = "cookie" /\ Editing)],
             pc \in Handling => pc = NextWrite(t, r.pc)
      PROVE  FilesOK'
  <2>1. /\ history' \in [strayed : BOOLEAN]
        /\ history'.strayed <=> history.strayed \/ (r.pc = "cookie" /\ Editing)
    BY <1>2, <1>7, HistoryGrows
  <2>2. RowOK(tasks'[t])
    <3>1. CASE pc \notin Handling
      BY <1>4, <1>7, <3>1, PlainRow
    <3>2. CASE pc = NextWrite(t, r.pc)
      <4>1. \/ r.pc = "products" /\ pc = "cookie"
            \/ r.pc = "cookie" /\ pc = "snapshot"
            \/ r.pc = "snapshot" /\ pc = "row"
        BY <1>1, <3>2 DEF NextWrite, Writing
      <4> QED BY <1>2, <1>4, <1>7, <4>1 DEF RowOK, Writing, Undoing
    <3> QED BY <1>7, <3>1, <3>2
  <2>3. CASE r.pc = "products"
    <3>1. files' = [cookie |-> files.cookie, snapshot |-> files.snapshot, products |-> None]
      BY <1>2, <1>7, <2>3 DEF Written
    <3>2. pc \in Handling => pc = "cookie"
      BY <1>7, <2>3 DEF NextWrite
    <3>3. ~history'.strayed => SwapOK(tasks[t])'
      BY <1>2, <1>4, <1>7, <2>1, <2>3, <3>1, <3>2
      DEF SwapOK, Replaces, Switches, Handling, Writing, Undoing
    <3> QED BY <1>1, <1>4, <1>7, <2>1, <2>2, <3>1, <3>3, FilesChange DEF r
  <2>4. CASE r.pc = "cookie"
    <3>1. files' = [cookie |-> r.cookie, snapshot |-> files.snapshot, products |-> files.products]
      BY <1>2, <1>7, <2>4 DEF Written, r
    <3>2. pc \in Handling => pc = "snapshot"
      BY <1>7, <2>4 DEF NextWrite
    <3>3. Replaces(r)
      BY <1>2, <2>4 DEF RowOK
    <3>4. ~history'.strayed => /\ files.products \in {None, r.prev.cookie}
                               /\ r.prev.products \in {None, r.prev.cookie}
                               /\ Switches(r) => files.products = None
      BY <1>2, <2>1, <2>4, <3>3 DEF SwapOK, Writing
    <3>5. ~history'.strayed => files'.products \in {None, files'.cookie}
      BY <3>1, <3>4 DEF Switches
    <3>6. ~history'.strayed => SwapOK(tasks[t])'
      BY <1>4, <1>7, <3>1, <3>2, <3>4
      DEF SwapOK, Replaces, Switches, Handling, Writing, Undoing
    <3>7. ~history'.strayed => ~Editing
      BY <2>1, <2>4
    <3> QED BY <1>1, <1>4, <1>7, <2>1, <2>2, <3>1, <3>5, <3>6, <3>7, FilesChange DEF r
  <2>5. CASE r.pc = "snapshot"
    <3>1. files' = [cookie |-> files.cookie, snapshot |-> r.cookie, products |-> files.products]
      BY <1>2, <1>7, <2>5 DEF Written, r
    <3>2. pc \notin Handling
      BY <1>7, <2>5 DEF NextWrite, Handling, Writing, Undoing
    <3>3. SwapOK(tasks[t])'
      BY <1>4, <1>7, <3>2 DEF SwapOK, Handling, Writing, Undoing
    <3> QED BY <1>1, <1>2, <1>4, <1>7, <2>1, <2>2, <3>1, <3>3, FilesChange DEF r
  <2> QED BY <1>1, <2>3, <2>4, <2>5 DEF Writing
<1>8. CASE /\ files' = Written(t, r.pc)
           /\ history' = [history EXCEPT !.strayed = @ \/ (r.pc = "cookie" /\ Editing)]
           /\ Goes(t, NextWrite(t, r.pc)) \/ Fails(t, "fail")
  <2>1. CASE Goes(t, NextWrite(t, r.pc))
    <3>1. NextWrite(t, r.pc) \notin {"edit", "map", "call", "pause"}
      BY <1>1 DEF NextWrite, Writing
    <3> QED BY <1>7, <1>8, <2>1, <3>1, GoesOn
  <2>2. CASE Fails(t, "fail")
    <3>1. \A pc : pc \in {"settle", "leave"} => pc \notin Handling
      BY DEF Handling, Writing, Undoing
    <3> QED BY <1>7, <1>8, <2>2, <3>1, FailsOn
  <2> QED BY <1>8, <2>1, <2>2
<1> QED BY <1>5, <1>6, <1>8 DEF Write, r

\* A file is put back, or cannot be and is skipped.
LEMMA WritesBackFiles ==
    ASSUME ReservedOK, FilesOK, NEW t \in Tasks, WriteBack(t)
    PROVE  FilesOK'
<1> DEFINE r == tasks[t]
<1> PICK pc : pc = Undo(t, r.pc)
  OBVIOUS
<1>1. r.pc \in Undoing /\ r.pc \in Owning /\ Goes(t, pc)
  BY DEF WriteBack, Owning
<1>2. /\ RowOK(r) /\ history \in [strayed : BOOLEAN]
      /\ ~history.strayed => files.products \in {None, files.cookie} /\ SwapOK(r)
      /\ files = [cookie |-> files.cookie, snapshot |-> files.snapshot, products |-> files.products]
  BY DEF FilesOK
<1>3. Changed(t) <=> Switches(r)
  BY DEF Changed, Switches
<1>4. Moves(t, pc) /\ tasks'[t].prev = tasks[t].prev
  BY <1>1, GoesOn
<1>5. \/ r.pc = "undo_cookie" /\ pc \in {"undo_snapshot", "leave"}
      \/ r.pc # "undo_products" /\ Switches(r) /\ pc = "undo_products"
      \/ r.pc \in {"undo_snapshot", "undo_products"} /\ pc = "leave"
  BY <1>1, <1>3 DEF Undo, Undoing
<1>6. \/ files' = PutBack(t, r.pc)
         /\ history' = [history EXCEPT !.strayed = @ \/ (r.pc = "undo_cookie" /\ Editing)]
      \/ files' = files
         /\ history' = [history EXCEPT !.strayed = @ \/ (r.pc = "undo_cookie" /\ Changed(t))]
  BY DEF WriteBack
<1>7. Replaces(r)
  BY <1>1, <1>2 DEF RowOK
<1> HIDE DEF r
<1>8. /\ Moved(t) /\ tasks'[t].pc = pc /\ tasks'[t].op = tasks[t].op
      /\ tasks'[t].cookie = tasks[t].cookie /\ tasks'[t].prev = r.prev
      /\ tasks'[t].cookie = r.cookie
      /\ Replaces(tasks'[t])
      /\ Switches(tasks'[t]) <=> Switches(r)
  BY <1>4, <1>7 DEF Moves, Replaces, Switches, r
<1>9. RowOK(tasks'[t])
  BY <1>2, <1>5, <1>8 DEF RowOK, Writing, Undoing
<1>10. ~history.strayed => r.prev.products \in {None, r.prev.cookie}
  BY <1>1, <1>2, <1>7 DEF SwapOK
<1>11. ASSUME history' \in [strayed : BOOLEAN], history.strayed => history'.strayed,
              files' = [cookie |-> files'.cookie, snapshot |-> files'.snapshot,
                        products |-> files'.products],
              ~history'.strayed =>
                 /\ files'.products \in {None, files'.cookie}
                 /\ Switches(r) /\ pc # "leave" => files'.cookie = r.prev.cookie
                 /\ files'.cookie = files.cookie \/ ~Editing
       PROVE  FilesOK'
  <2>1. ~history'.strayed => SwapOK(tasks[t])'
    BY <1>5, <1>8, <1>10, <1>11 DEF SwapOK, Replaces, Switches, Writing, Undoing
  <2> QED BY <1>1, <1>8, <1>9, <1>11, <2>1, FilesChange DEF r
<1>12. CASE r.pc = "undo_cookie"
  <2>1. CASE /\ files' = PutBack(t, r.pc)
             /\ history' = [history EXCEPT !.strayed = @ \/ (r.pc = "undo_cookie" /\ Editing)]
    <3>1. files' = [cookie |-> r.prev.cookie, snapshot |-> files.snapshot,
                    products |-> files.products]
      BY <1>2, <1>12, <2>1 DEF PutBack, r
    <3>2. /\ history' \in [strayed : BOOLEAN]
          /\ history'.strayed <=> history.strayed \/ (r.pc = "undo_cookie" /\ Editing)
      BY <1>2, <2>1, HistoryGrows
    <3>3. ~history.strayed => files.products \in {None, r.prev.cookie}
      BY <1>2, <1>7, <1>12 DEF SwapOK
    <3> QED BY <1>11, <1>12, <3>1, <3>2, <3>3
  <2>2. CASE /\ files' = files
             /\ history' = [history EXCEPT !.strayed = @ \/ (r.pc = "undo_cookie" /\ Changed(t))]
    <3>1. /\ history' \in [strayed : BOOLEAN]
          /\ history'.strayed <=> history.strayed \/ (r.pc = "undo_cookie" /\ Changed(t))
      BY <1>2, <2>2, HistoryGrows
    <3> QED BY <1>2, <1>3, <1>11, <1>12, <2>2, <3>1
  <2> QED BY <1>6, <2>1, <2>2
<1>13. CASE r.pc \in {"undo_snapshot", "undo_products"}
  <2>1. history' \in [strayed : BOOLEAN] /\ (history'.strayed <=> history.strayed)
    <3>1. CASE history' = [history EXCEPT !.strayed = @ \/ (r.pc = "undo_cookie" /\ Editing)]
      BY <1>2, <1>13, <3>1, HistoryGrows
    <3>2. CASE history' = [history EXCEPT !.strayed = @ \/ (r.pc = "undo_cookie" /\ Changed(t))]
      BY <1>2, <1>13, <3>2, HistoryGrows
    <3> QED BY <1>6, <3>1, <3>2
  <2>2. ~history.strayed /\ Switches(r) => files.cookie = r.prev.cookie
    BY <1>2, <1>7, <1>13 DEF SwapOK
  <2>3. CASE files' = files
    BY <1>2, <1>11, <2>1, <2>2, <2>3
  <2>4. CASE r.pc = "undo_snapshot" /\ files' = PutBack(t, r.pc)
    <3>1. files' = [cookie |-> files.cookie, snapshot |-> r.prev.cookie,
                    products |-> files.products]
      BY <1>2, <2>4 DEF PutBack, r
    <3> QED BY <1>2, <1>11, <2>1, <2>2, <3>1
  <2>5. CASE r.pc = "undo_products" /\ files' = PutBack(t, r.pc)
    <3>1. files' = [cookie |-> files.cookie, snapshot |-> files.snapshot,
                    products |-> r.prev.products]
      BY <1>2, <2>5 DEF PutBack, r
    <3>2. Switches(r)
      BY <1>2, <2>5 DEF RowOK
    <3> QED BY <1>2, <1>10, <1>11, <2>1, <2>2, <3>1, <3>2
  <2> QED BY <1>6, <1>13, <2>3, <2>4, <2>5
<1> QED BY <1>1, <1>12, <1>13 DEF Undoing, r

\* The mapping is checked and written by an edit.
LEMMA EditsFiles ==
    ASSUME ReservedOK, FilesOK, NEW t \in Tasks, CheckProducts(t) \/ WriteProducts(t)
    PROVE  FilesOK'
<1>1. FreshRow(Idle, "idle", "none", None, None)
      /\ "idle" \notin Handling \cup {"edit", "map"} /\ "map" \notin Writing \cup Undoing
  BY IdleRows DEF Handling, Writing, Undoing
<1>2. CASE CheckProducts(t)
  <2>1. UNCHANGED <<files, history>> /\ tasks[t].pc = "edit"
    BY <1>2 DEF CheckProducts
  <2>2. CASE tasks' = [tasks EXCEPT ![t] = Idle]
    BY <1>1, <2>1, <2>2, FilesTurn
  <2>3. CASE Goes(t, "map")
    <3>1. Moves(t, "map")
      BY <2>3, GoesOn
    <3>2. tasks[t].op = "edit" /\ (~history.strayed => EditOK(tasks[t]))
      BY <2>1 DEF FilesOK, RowOK
    <3>3. RowOK(tasks'[t]) /\ SwapOK(tasks'[t])
      BY <3>1, <3>2 DEF Moves, RowOK, SwapOK, Replaces, Writing, Undoing
    <3>4. ~history.strayed => EditOK(tasks'[t])
      BY <3>1, <3>2 DEF Moves, EditOK
    <3> QED BY <2>1, <3>1, <3>3, <3>4, FilesRest DEF Moves
  <2> QED BY <1>2, <2>2, <2>3 DEF CheckProducts
<1>3. CASE WriteProducts(t)
  <2> DEFINE busy == \E u \in Tasks : Replacing(u) /\ tasks[u].pc \in Writing \cup Undoing
  <2>1. /\ files = [cookie |-> files.cookie, snapshot |-> files.snapshot,
                    products |-> files.products]
        /\ history \in [strayed : BOOLEAN] /\ tasks[t].op = "edit"
        /\ ~history.strayed => tasks[t].cookie = files.cookie
    BY <1>3 DEF WriteProducts, FilesOK, RowOK, EditOK
  <2>2. files' = [cookie |-> files.cookie, snapshot |-> files.snapshot, products |-> tasks[t].cookie]
    BY <1>3, <2>1 DEF WriteProducts
  <2>3. history' \in [strayed : BOOLEAN] /\ (history'.strayed <=> history.strayed \/ busy)
    <3>1. history' = [history EXCEPT !.strayed = @ \/ (TRUE /\ busy)]
      BY <1>3 DEF WriteProducts
    <3> HIDE DEF busy
    <3> QED BY <2>1, <3>1, HistoryGrows
  <2>4. Moved(t) /\ tasks'[t] = Idle
    BY <1>1, <1>3, NewTask DEF WriteProducts, FreshRow
  <2>5. \A u \in Tasks \ {t} : tasks'[u] = tasks[u]
    BY <2>4 DEF Moved
  <2>6. RowOK(Idle) /\ Idle.op = "none" /\ Idle.pc = "idle"
    BY <1>1, PlainRow DEF FreshRow
  <2>7. ASSUME NEW u \in Tasks PROVE RowOK(tasks[u])'
    <3>1. RowOK(tasks'[u])
      BY <2>4, <2>5, <2>6 DEF FilesOK
    <3> QED BY <3>1 DEF RowOK
  <2>8. ASSUME ~history'.strayed, NEW u \in Tasks PROVE EditOK(tasks[u])' /\ SwapOK(tasks[u])'
    <3>1. CASE u = t
      BY <2>4, <2>6, <3>1 DEF EditOK, SwapOK, Replaces
    <3>2. CASE u # t
      <4>1. tasks'[u] = tasks[u] /\ EditOK(tasks[u]) /\ SwapOK(tasks[u])
            /\ files'.cookie = files.cookie /\ files'.products = files.cookie
        BY <2>1, <2>2, <2>3, <2>5, <2>8, <3>2 DEF FilesOK
      <4>2. Replaces(tasks[u]) => tasks[u].pc \notin Writing \cup Undoing
        BY <2>3, <2>8 DEF Replaces, Replacing
      <4> QED BY <4>1, <4>2 DEF EditOK, SwapOK, Writing, Undoing
    <3> QED BY <3>1, <3>2
  <2>9. ~history'.strayed => files'.products \in {None, files'.cookie}
    BY <2>1, <2>2, <2>3
  <2>10. files' = [cookie |-> files'.cookie, snapshot |-> files'.snapshot,
                   products |-> files'.products]
    BY <2>2
  <2> QED BY <2>3, <2>7, <2>8, <2>9, <2>10 DEF FilesOK
<1> QED BY <1>2, <1>3

\* The default shop loses its cookie, then its snapshot; an extra shop is fenced.
LEMMA DeletesFiles ==
    ASSUME ReservedOK, FilesOK, NEW t \in Tasks, Delete(t) \/ Disconnect(t)
    PROVE  FilesOK'
<1>1. FreshRow(Idle, "idle", "none", None, None)
      /\ {"idle", "disconnect"} \cap (Handling \cup {"edit", "map"}) = {}
  BY IdleRows DEF Handling, Writing, Undoing
<1>2. /\ files = [cookie |-> files.cookie, snapshot |-> files.snapshot, products |-> files.products]
      /\ history \in [strayed : BOOLEAN]
  BY DEF FilesOK
<1>3. CASE Delete(t) /\ history' = [history EXCEPT !.strayed = TRUE] /\ Goes(t, "disconnect")
  <2>1. Moves(t, "disconnect")
    BY <1>3, GoesOn
  <2>2. \A u \in Tasks : RowOK(tasks'[u])
    BY <1>1, <2>1, PlainRow DEF FilesOK, Moves, Moved
  <2>3. \A u \in Tasks : RowOK(tasks[u])'
    BY <2>2 DEF RowOK
  <2>4. files' = [cookie |-> files'.cookie, snapshot |-> files'.snapshot, products |-> files'.products]
    BY <1>2, <1>3 DEF Delete
  <2>5. history' \in [strayed : BOOLEAN] /\ history'.strayed
    BY <1>2, <1>3
  <2> QED BY <2>3, <2>4, <2>5 DEF FilesOK
<1>4. CASE Delete(t) /\ tasks' = [tasks EXCEPT ![t] = Idle] /\ UNCHANGED <<files, history>>
  BY <1>1, <1>4, FilesTurn
<1>5. CASE Disconnect(t)
  <2>1. files' = [cookie |-> files.cookie, snapshot |-> None, products |-> files.products]
        /\ history' = history
    BY <1>2, <1>5 DEF Disconnect
  <2>2. Moved(t) /\ tasks'[t] = Idle
    BY <1>1, <1>5, NewTask DEF Disconnect, FreshRow
  <2>3. RowOK(Idle) /\ SwapOK(Idle) /\ EditOK(Idle)
    BY <1>1, PlainRow DEF FreshRow, EditOK
  <2>4. ASSUME NEW u \in Tasks
        PROVE  RowOK(tasks'[u]) /\ (~history.strayed => EditOK(tasks'[u]) /\ SwapOK(tasks'[u]))
    BY <2>2, <2>3 DEF FilesOK, Moved
  <2>5. ASSUME NEW u \in Tasks
        PROVE  RowOK(tasks[u])' /\ (~history'.strayed => EditOK(tasks[u])' /\ SwapOK(tasks[u])')
    BY <2>1, <2>4 DEF RowOK, EditOK, SwapOK
  <2>6. /\ ~history'.strayed => files'.products \in {None, files'.cookie}
        /\ files' = [cookie |-> files'.cookie, snapshot |-> files'.snapshot,
                     products |-> files'.products]
    BY <2>1 DEF FilesOK
  <2> QED BY <1>2, <2>1, <2>5, <2>6 DEF FilesOK
<1> QED BY <1>3, <1>4, <1>5 DEF Delete

\* A killed process leaves the files as they are, and no task that knows them.
LEMMA CrashFiles ==
    ASSUME ReservedOK, FilesOK, NEW members, Crash(members)
    PROVE  FilesOK'
<1>1. UNCHANGED <<files, history>>
      /\ \A u \in Tasks : tasks'[u] = Idle \/ tasks'[u] = tasks[u]
  BY DEF Crash
<1>2. RowOK(Idle) /\ SwapOK(Idle) /\ EditOK(Idle)
  <2>1. FreshRow(Idle, "idle", "none", None, None) /\ "idle" \notin Handling \cup {"edit", "map"}
    BY IdleRows DEF Handling, Writing, Undoing
  <2> QED BY <2>1, PlainRow DEF FreshRow, EditOK
<1>3. ASSUME NEW u \in Tasks
      PROVE  RowOK(tasks'[u]) /\ (~history.strayed => EditOK(tasks'[u]) /\ SwapOK(tasks'[u]))
  BY <1>1, <1>2 DEF FilesOK
<1>4. ASSUME NEW u \in Tasks
      PROVE  RowOK(tasks[u])' /\ (~history'.strayed => EditOK(tasks[u])' /\ SwapOK(tasks[u])')
  BY <1>1, <1>3 DEF RowOK, EditOK, SwapOK
<1> QED BY <1>1, <1>4 DEF FilesOK

\* Every step of a shop's connection keeps what is known of the files.
LEMMA FilesKept ==
    ASSUME ReservedOK, FilesOK, ConnectionNext
    PROVE  FilesOK'
<1>1. ASSUME NEW t \in Tasks, Step(t) PROVE FilesOK'
  BY <1>1, PlainStepsFiles, CallsFiles, WritesFiles, WritesBackFiles, EditsFiles, DeletesFiles,
     Zenon DEF Step
<1>2. ASSUME NEW t \in Threads, Arrives(t) PROVE FilesOK'
  <2>1. t \in Tasks
    BY DEF Tasks
  <2> QED BY <1>2, <2>1, RequestsFiles
<1>3. ASSUME NEW l \in Logins, Sweep(l) PROVE FilesOK'
  <2>1. UNCHANGED <<files, history, tasks>>
    BY <1>3 DEF Sweep
  <2> QED BY <2>1 DEF FilesOK, RowOK, EditOK, SwapOK
<1>4. ASSUME LaneClaim PROVE FilesOK'
  BY <1>4, NamesAre, RequestsFiles, Zenon
<1>5. ASSUME Crash(Threads) \/ Crash({Lane}) PROVE FilesOK'
  BY <1>5, CrashFiles
<1> QED BY <1>1, <1>2, <1>3, <1>4, <1>5 DEF ConnectionNext

\* A shop starts with nothing going on but one login.
LEMMA ConnectionStart ==
    ASSUME ConnectionInit(Tasks, Logins)
    PROVE  ConnectionInv
<1>1. FreshRow(Idle, "idle", "none", None, None)
  BY IdleRows
<1>2. /\ tasks = [t \in Tasks |-> Idle] /\ history = [strayed |-> FALSE]
      /\ \E c \in Cookies : files = [cookie |-> c, snapshot |-> c, products |-> c]
  BY DEF ConnectionInit
<1>3. \A t \in Tasks : tasks[t] = Idle
  BY <1>2
<1> DEFINE Unused(l) ==
             /\ ~logins[l].inFlight /\ ~logins[l].consuming
             /\ lease.connect = l => logins[l].listed /\ logins[l].status # "expired"
           Quiet ==
             /\ lease.sync = None /\ lease.connect \in Logins \cup {None}
             /\ lease = [connect |-> lease.connect, sync |-> lease.sync]
             /\ logins \in [Logins -> LoginRow] /\ \A l \in Logins : Unused(l)
<1>4. Quiet
  <2>1. CASE logins = [l \in Logins |-> NoLogin] /\ lease = [connect |-> None, sync |-> None]
    BY <2>1, NewItems, NamesAre
  <2>2. ASSUME NEW l \in Logins, NEW c \in Sellers, NEW item,
               \/ item = [NoLogin EXCEPT !.status = "waiting", !.listed = TRUE]
               \/ item = [NoLogin EXCEPT !.status = "confirmed", !.cookie = c, !.listed = TRUE],
               logins = [k \in Logins |-> IF k = l THEN item ELSE NoLogin],
               lease = [connect |-> l, sync |-> None]
        PROVE  Quiet
    <3>1. item \in LoginRow /\ item.status # "expired" /\ item.listed /\ ~item.inFlight
          /\ ~item.consuming
      BY <2>2, NewItems
    <3>2. NoLogin \in LoginRow /\ ~NoLogin.inFlight /\ ~NoLogin.consuming
      BY NewItems
    <3> QED BY <2>2, <3>1, <3>2, NamesAre
  <2> QED BY <2>1, <2>2 DEF ConnectionInit
<1>5. \A t \in Tasks : IsTask(tasks[t]) /\ TaskOK(t)
  <2>1. "idle" \notin Owning \cup Asking
    BY DEF Owning, Asking, Writing, Undoing
  <2> QED BY <1>1, <1>3, <1>4, <2>1, NamesAre DEF FreshRow, TaskOK
<1>6. \A l \in Logins : LoginOK(l)
  BY <1>4 DEF LoginOK
<1>7. Apart
  BY <1>1, <1>3 DEF Apart, FreshRow
<1>8. ReservedOK
  BY <1>2, <1>4, <1>5, <1>6, <1>7 DEF ReservedOK
<1>9. RowOK(Idle) /\ SwapOK(Idle) /\ EditOK(Idle)
  <2>1. "idle" \notin Handling \cup {"edit", "map"}
    BY DEF Handling, Writing, Undoing
  <2> QED BY <1>1, <2>1, PlainRow DEF FreshRow, EditOK
<1>10. FilesOK
  BY <1>2, <1>3, <1>9 DEF FilesOK
<1> QED BY <1>8, <1>10 DEF ConnectionInv

-------------------------------------------------------------------------------
(* The connection within the control plane, whatever work is followed.     *)

ConnectionOK == OneWriter /\ MappingFollowsSeller /\ ReservationsAreReleased
ShopInv == ConnectionOK /\ (workload = "shop_sync" => ConnectionInv)

\* What the invariant says of the files and of the reservation.
LEMMA ConnectionInvSuffices ==
    ASSUME ConnectionInv
    PROVE  ConnectionOK
<1>1. ReservedOK /\ FilesOK
  BY DEF ConnectionInv
<1>2. OneWriter
  <2>1. DOMAIN tasks = Tasks
    BY <1>1 DEF ReservedOK
  <2>2. Writing \cup Undoing \cup {"row"} \subseteq Owning
    BY DEF Owning
  <2> QED BY <1>1, <2>1, <2>2, OneOwner DEF OneWriter
<1>3. MappingFollowsSeller
  BY <1>1 DEF FilesOK, MappingFollowsSeller
<1>4. ReservationsAreReleased
  <2>1. /\ DOMAIN tasks = Tasks /\ DOMAIN logins = Logins
        /\ (\A t \in Tasks : TaskOK(t)) /\ \A l \in Logins : LoginOK(l)
    BY <1>1 DEF ReservedOK
  <2>2. \A t \in Tasks : Holding(t) \cap {"idle", "submit", "claim", "reserve"} = {}
    BY DEF Holding, Writing, Undoing
  <2>3. \A t \in Tasks : lease.connect = t \/ lease.sync = t =>
           tasks[t].pc \notin {"idle", "submit", "claim", "reserve"}
    BY <2>1, <2>2 DEF TaskOK
  <2>4. \A l \in Logins : lease.connect = l =>
           logins[l].listed \/ logins[l].inFlight \/ logins[l].consuming
    BY <2>1 DEF LoginOK
  <2> QED BY <2>1, <2>3, <2>4 DEF ReservationsAreReleased
<1> QED BY <1>2, <1>3, <1>4 DEF ConnectionOK

\* The connection of the shop stays in order in every behaviour of the control plane.
LEMMA ShopInvariant == Spec => []ShopInv
<1>1. Init => ShopInv
  <2> SUFFICES ASSUME Init PROVE ShopInv
    OBVIOUS
  <2>1. CASE workload = "shop_sync"
    <3>1. ConnectionInit(Tasks, Logins)
      BY <2>1 DEF Init
    <3> QED BY <3>1, ConnectionStart, ConnectionInvSuffices DEF ShopInv
  <2>2. CASE workload # "shop_sync"
    <3>1. ConnectionInit({}, {}) /\ files.cookie = None
      BY <2>2 DEF Init, ShopAtRest
    <3>2. DOMAIN tasks = {} /\ files.products = None
      BY <3>1 DEF ConnectionInit
    <3>3. DOMAIN logins = {}
      BY <3>1 DEF ConnectionInit
    <3> QED BY <2>2, <3>2, <3>3
         DEF ShopInv, ConnectionOK, OneWriter, MappingFollowsSeller, ReservationsAreReleased
  <2> QED BY <2>1, <2>2
<1>2. ShopInv /\ [Next]_vars => ShopInv'
  <2> SUFFICES ASSUME ShopInv, [Next]_vars PROVE ShopInv'
    OBVIOUS
  <2>1. CASE UNCHANGED <<workload, connVars>>
    <3>1. ConnectionOK'
      BY <2>1 DEF ShopInv, ConnectionOK, OneWriter, MappingFollowsSeller,
                  ReservationsAreReleased, connVars
    <3>2. ReservedOK => ReservedOK'
      BY <2>1 DEF ReservedOK, TaskOK, LoginOK, Apart, Owner, connVars
    <3>3. FilesOK => FilesOK'
      BY <2>1 DEF FilesOK, EditOK, SwapOK, connVars
    <3> QED BY <2>1, <3>1, <3>2, <3>3 DEF ShopInv, ConnectionInv
  <2>2. CASE ShopSync
    <3>1. ReservedOK /\ FilesOK /\ ConnectionNext /\ workload' = workload
      BY <2>2 DEF ShopSync, ShopInv, ConnectionInv
    <3>2. ConnectionInv'
      BY <3>1, ReservationsKept, FilesKept DEF ConnectionInv
    <3>3. ConnectionOK'
      BY <3>2, ConnectionInvSuffices, PTL
    <3> QED BY <3>2, <3>3 DEF ShopInv
  <2> QED BY <2>1, <2>2 DEF Next, OpsRun, Accounts, Probing, vars
<1> QED BY <1>1, <1>2, PTL DEF Spec

\* Two synchronisations never write a shop's files at the same time, whichever process they
\* run in, whichever logins come and go meanwhile and whoever crashed before.
THEOREM ShopHasOneWriter == Spec => []OneWriter
<1>1. ShopInv => OneWriter
  BY DEF ShopInv, ConnectionOK
<1> QED BY <1>1, ShopInvariant, PTL

\* The mapping belongs to the seller of the saved cookie, but for the exceptions that
\* history.strayed marks, through failed writes, rollbacks, edits and crashes.
THEOREM MappingIsOfSeller == Spec => []MappingFollowsSeller
<1>1. ShopInv => MappingFollowsSeller
  BY DEF ShopInv, ConnectionOK
<1> QED BY <1>1, ShopInvariant, PTL

\* Whoever has the shop reserved will release it: no login that is gone and no task that has
\* not acquired it, or has ended, is left in the lease.
THEOREM NoReservationIsLeft == Spec => []ReservationsAreReleased
<1>1. ShopInv => ReservationsAreReleased
  BY DEF ShopInv, ConnectionOK
<1> QED BY <1>1, ShopInvariant, PTL

-------------------------------------------------------------------------------
(* The runs of the operations assistant: what is known of the calls, the   *)
(* steps planned for them and the file they change.                        *)

\* What has the form of a row, whatever its fields.
IsRun(r) == r = [status |-> r.status, phase |-> r.phase, claim |-> r.claim, job |-> r.job,
                 recoverable |-> r.recoverable, binding |-> r.binding, attempt |-> r.attempt,
                 issued |-> r.issued, answer |-> r.answer]
IsDispatch(r) == r = [status |-> r.status, counted |-> r.counted, replay |-> r.replay]
IsLane(r) == r = [pc |-> r.pc, job |-> r.job, call |-> r.call, todo |-> r.todo,
                  recovering |-> r.recovering, result |-> r.result]

FileRow == [changes : Seq(Calls \cup {0}), receipt : Calls \cup {0}]
StepRow == [status : {"none", "prepared", "executing", "succeeded", "unchanged", "needs_review"},
            of : Calls \cup {0}, before : FileRow]

OpsTyped ==
    /\ IsRun(run) /\ run.issued \subseteq Calls /\ run.answer \subseteq Calls
    /\ DOMAIN dispatch = Calls /\ \A c \in Calls : IsDispatch(dispatch[c])
    /\ \A c \in Calls \ run.issued : dispatch[c].status = "none"
    /\ steps \in [Calls -> StepRow]
    /\ config \in FileRow
    /\ effect \in [Calls -> [written : Nat, undone : Nat]]
    /\ IsLane(lane) /\ lane.todo \subseteq Calls

\* A change is in a file, and who answers for one that is.
Within(k, changes) == \E j \in DOMAIN changes : changes[j] = k
Vouches(c, k) ==
    /\ steps[c].of = k
    /\ dispatch[c].counted \/ dispatch[c].status \in {"executing", "needs_review"}

\* The steps of a run.
StepsOK ==
    /\ \A c \in Calls : steps[c].of # 0 =>
          LET k == steps[c].of IN steps[k].of = k /\ Intent(k) = Intent(c)
    /\ \A k, l \in Calls : steps[k].of = k /\ steps[l].of = l /\ Intent(k) = Intent(l) => k = l
    /\ \A k \in Calls : steps[k].of = k => ~Within(k, steps[k].before.changes)
    /\ \A k \in Calls : steps[k].of = k /\ steps[k].status = "succeeded" =>
          effect[Intent(k)].written > 0

\* The file, and what was written into it.
ConfigOK ==
    /\ \A j, l \in DOMAIN config.changes :
          config.changes[j] = config.changes[l] /\ config.changes[j] # 0 => j = l
    /\ \A k \in Calls : Within(k, config.changes) =>
          /\ steps[k].of = k /\ steps[k].status \in {"executing", "succeeded", "needs_review"}
          /\ \E c \in Calls : Vouches(c, k)
    /\ \A i \in Calls : effect[i].written = effect[i].undone +
          IF \E k \in Calls : Intent(k) = i /\ Within(k, config.changes) THEN 1 ELSE 0

CountsOK ==
    \A c \in Calls : dispatch[c].counted =>
       /\ dispatch[c].status = "succeeded" /\ steps[c].of # 0
       /\ steps[steps[c].of].status = "succeeded"
       /\ \A d \in Calls : dispatch[d].counted /\ steps[d].of = steps[c].of => d = c

\* What the lane knows of the call it is at.
Trying == {"tool", "prepare", "arm", "guard", "write", "committed", "probe"}
CallOK ==
    LET c == lane.call
        k == steps[c].of
    IN  /\ lane.pc \in Trying \cup {"mark", "record"} => c \in Calls
        /\ lane.pc \in Trying => dispatch[c].status = "executing"
        /\ lane.pc = "mark" => dispatch[c].status = "pending"
        /\ lane.pc \in {"arm", "guard", "write"} =>
              /\ k # 0 /\ config = steps[k].before /\ steps[k].status \in {"prepared", "executing"}
              /\ lane.pc # "arm" => steps[k].status = "executing"
        /\ lane.pc = "committed" => k # 0 /\ Within(k, config.changes)
        /\ lane.pc = "record" =>
              /\ dispatch[c].status \in {"pending", "executing"}
              /\ lane.result \in {"ok", "recovered"} =>
                    k # 0 /\ steps[k].status = "succeeded" /\ dispatch[c].status = "executing"
              /\ lane.result \notin {"ok", "recovered", "review"} =>
                    dispatch[c].status = "pending" \/ ~Within(k, config.changes) \/ k = 0

OpsInv == OpsTyped /\ StepsOK /\ ConfigOK /\ CountsOK /\ CallOK

-------------------------------------------------------------------------------
(* What the steps of a run rely on.                                        *)

\* Calls are numbers from 1, and every intent is one of them.
LEMMA CallsAre ==
    /\ Calls \subseteq Nat /\ 0 \notin Calls /\ 1 \in Calls
    /\ \A c \in Calls : Intent(c) \in Calls
BY OperationsAssumption DEF Intent

\* Some call of a set is the first.
LEMMA FirstCall ==
    ASSUME NEW cs \in SUBSET Calls, cs # {}
    PROVE  Min(cs) \in cs
<1> DEFINE Less == {ss \in Nat \X Nat : ss[1] < ss[2]}
<1>1. IsWellFoundedOn(Less, Nat)
  BY NatLessThanWellFounded DEF OpToRel
<1>2. cs \subseteq Nat /\ \A k, l \in Nat : k < l => <<k, l>> \in Less
  BY CallsAre
<1> HIDE DEF Less
<1>3. \E x \in cs : \A y \in cs : ~(<<y, x>> \in Less)
  <2>1. IsWellFoundedOn(Less, Nat) /\ cs \subseteq Nat /\ cs # {}
    BY <1>1, <1>2
  <2> QED BY <2>1, WFMin, Zenon
<1>4. PICK x \in cs : \A y \in cs : ~(<<y, x>> \in Less)
  BY <1>3
<1>5. x \in Nat /\ \A y \in cs : y \in Nat /\ ~(y < x)
  BY <1>2, <1>4
<1>6. \A y \in cs : x <= y
  BY <1>5
<1> QED BY <1>6 DEF Min

\* The step a call stands for, or is an alias of.
LEMMA CanonicalIs ==
    ASSUME OpsTyped, StepsOK, NEW c \in Calls, steps[c].of # 0
    PROVE  /\ steps[c].of \in Calls /\ steps[steps[c].of].of = steps[c].of
           /\ Intent(steps[c].of) = Intent(c)
BY DEF OpsTyped, StepsOK, StepRow

\* A change that has been written is in the file, and not in what was there before.
LEMMA AfterIs ==
    ASSUME OpsTyped, NEW k \in Calls
    PROVE  Within(k, After(k).changes)
<1>1. steps[k].before.changes \in Seq(Calls \cup {0}) /\ k \in Calls \cup {0}
  BY DEF OpsTyped, StepRow, FileRow
<1>2. After(k).changes = Append(steps[k].before.changes, k)
  BY DEF After
<1> DEFINE s == steps[k].before.changes
           j == Len(s) + 1
<1>3. j \in DOMAIN Append(s, k) /\ Append(s, k)[j] = k
  BY <1>1
<1> QED BY <1>2, <1>3 DEF Within

LEMMA BeforeIs ==
    ASSUME OpsTyped, StepsOK, NEW k \in Calls, steps[k].of = k, config = steps[k].before
    PROVE  ~Within(k, config.changes)
BY DEF StepsOK

\* A change in the file has been written.
LEMMA WithinIsWritten ==
    ASSUME OpsTyped, ConfigOK, NEW k \in Calls, Within(k, config.changes)
    PROVE  effect[Intent(k)].written > 0
<1> DEFINE i == Intent(k)
<1>1. i \in Calls
  BY CallsAre
<1>2. effect[i].written \in Nat /\ effect[i].undone \in Nat
  BY <1>1 DEF OpsTyped
<1>3. effect[i].written = effect[i].undone + 1
  BY <1>1 DEF ConfigOK
<1> QED BY <1>2, <1>3

-------------------------------------------------------------------------------
(* Steps that leave the calls, their steps and the file alone.             *)

RunKept == IsRun(run') /\ run'.issued = run.issued /\ run'.answer \subseteq run.answer
LaneKept == IsLane(lane') /\ lane'.todo \subseteq Calls
AtCall == Trying \cup {"mark", "record"}

LEMMA LaneStep ==
    ASSUME OpsInv, RunKept, LaneKept, CallOK', UNCHANGED <<plan, dispatch, steps, config, effect>>
    PROVE  OpsInv'
<1>1. OpsTyped'
  BY DEF OpsInv, OpsTyped, RunKept, LaneKept
<1>2. StepsOK'
  BY DEF OpsInv, StepsOK, Intent
<1>3. ConfigOK'
  BY DEF OpsInv, ConfigOK, Intent, Vouches
<1>4. CountsOK'
  BY DEF OpsInv, CountsOK
<1> QED BY <1>1, <1>2, <1>3, <1>4 DEF OpsInv

LEMMA QuietStep ==
    ASSUME OpsInv, RunKept, LaneKept, lane'.pc \notin AtCall \/ lane' = lane,
           UNCHANGED <<plan, dispatch, steps, config, effect>>
    PROVE  OpsInv'
<1>1. CASE lane' = lane
  <2>1. CallOK'
    BY <1>1 DEF OpsInv, CallOK
  <2> QED BY <2>1, LaneStep
<1>2. CASE lane'.pc \notin AtCall
  <2>1. CallOK'
    BY <1>2 DEF CallOK, AtCall, Trying
  <2> QED BY <2>1, LaneStep
<1> QED BY <1>1, <1>2

\* How the lane goes on.
LEMMA LaneForms ==
    ASSUME OpsInv, NEW pc, NEW result
    PROVE  /\ Go(pc) => LaneKept /\ lane'.pc = pc /\ lane'.call = lane.call
                        /\ lane'.result = lane.result
           /\ Yields(result) => LaneKept /\ lane'.pc = "record" /\ lane'.call = lane.call
                                /\ lane'.result = result
           /\ Ends(pc) => LaneKept /\ lane'.pc = pc
           /\ EndsWith(result) => LaneKept /\ lane'.pc = "error"
           /\ lane' = Resting => LaneKept /\ lane'.pc = "idle"
<1>1. IsLane(lane) /\ lane.todo \subseteq Calls
  BY DEF OpsInv, OpsTyped
<1>2. Go(pc) => LaneKept /\ lane'.pc = pc /\ lane'.call = lane.call /\ lane'.result = lane.result
  BY <1>1 DEF Go, LaneKept, IsLane
<1>3. Yields(result) => LaneKept /\ lane'.pc = "record" /\ lane'.call = lane.call
                        /\ lane'.result = result
  BY <1>1 DEF Yields, LaneKept, IsLane
<1>4. Ends(pc) => LaneKept /\ lane'.pc = pc
  <2>1. Ends(pc) => lane' = [pc |-> pc, job |-> lane.job, call |-> 0, todo |-> {},
                             recovering |-> FALSE, result |-> "ok"]
    BY DEF Ends, Resting
  <2> QED BY <2>1 DEF LaneKept, IsLane
<1>5. EndsWith(result) => LaneKept /\ lane'.pc = "error"
  <2>1. EndsWith(result) => lane' = [pc |-> "error", job |-> lane.job, call |-> 0, todo |-> {},
                                     recovering |-> FALSE, result |-> result]
    BY DEF EndsWith, Resting
  <2> QED BY <2>1 DEF LaneKept, IsLane
<1>6. lane' = Resting => LaneKept /\ lane'.pc = "idle"
  BY DEF Resting, LaneKept, IsLane
<1> QED BY <1>2, <1>3, <1>4, <1>5, <1>6

\* The lane is past its call.
Eased == LaneKept /\ lane'.pc \notin AtCall

LEMMA LaneEases ==
    ASSUME OpsInv
    PROVE  /\ \A pc : pc \notin AtCall /\ (Go(pc) \/ Ends(pc)) => Eased
           /\ \A result : EndsWith(result) => Eased
           /\ lane' = Resting => Eased
<1>1. "error" \notin AtCall /\ "idle" \notin AtCall
  BY DEF AtCall, Trying
<1>2. ASSUME NEW pc, pc \notin AtCall, Go(pc) \/ Ends(pc) PROVE Eased
  <2>1. LaneKept /\ lane'.pc = pc
    BY <1>2, LaneForms
  <2> QED BY <1>2, <2>1 DEF Eased
<1>3. ASSUME NEW result, EndsWith(result) PROVE Eased
  <2>1. LaneKept /\ lane'.pc = "error"
    BY <1>3, LaneForms
  <2> QED BY <1>1, <2>1 DEF Eased
<1>4. ASSUME lane' = Resting PROVE Eased
  <2>1. LaneKept /\ lane'.pc = "idle"
    BY <1>4, LaneForms
  <2> QED BY <1>1, <2>1 DEF Eased
<1> QED BY <1>2, <1>3, <1>4

\* The owner's requests, and the consumer between two calls.
LEMMA OwnerKeeps ==
    ASSUME OpsInv, Cancel \/ Supersede \/ \E how \in {"session", "connection"} : Rebind(how)
    PROVE  OpsInv'
<1>1. IsRun(run) /\ IsLane(lane) /\ lane.todo \subseteq Calls
  BY DEF OpsInv, OpsTyped
<1>2. UNCHANGED <<plan, dispatch, steps, config, effect, lane>>
  BY DEF Cancel, Supersede, Rebind
<1>3. LaneKept
  BY <1>1, <1>2 DEF LaneKept
<1>4. RunKept
  BY <1>1 DEF Cancel, Supersede, Rebind, Finished, RunKept, IsRun
<1> QED BY <1>2, <1>3, <1>4, QuietStep

LEMMA ConsumerKeeps ==
    ASSUME OpsInv, \/ Take \/ BeginRun \/ ClaimRun \/ Check \/ Complete
                   \/ Stop \/ Lose \/ Error \/ Release \/ Kill
    PROVE  OpsInv'
<1>1. IsRun(run) /\ IsLane(lane) /\ lane.todo \subseteq Calls
  BY DEF OpsInv, OpsTyped
<1>2. UNCHANGED <<plan, dispatch, steps, config, effect>>
  BY DEF Take, BeginRun, ClaimRun, Check, Complete, Stop, Lose, Error, Release, Kill
<1>3. RunKept
  BY <1>1 DEF Take, BeginRun, ClaimRun, Check, Complete, Stop, Lose, Error, Release, Kill,
              Finished, RunKept, IsRun
<1>4. \A pc \in {"claim", "loop", "release", "lost", "stopped", "complete", "ask", "next"} :
         pc \notin AtCall
  BY DEF AtCall, Trying
<1>5. Eased
  <2>1. CASE Take
    BY <2>1 DEF Take, Eased, Resting, LaneKept, IsLane, AtCall, Trying
  <2>2. CASE BeginRun \/ Release \/ Kill
    BY <1>4, <2>2, LaneEases DEF BeginRun, Release, Kill
  <2>3. CASE ClaimRun \/ Complete \/ Stop \/ Lose \/ Error
    BY <1>4, <2>3, LaneEases DEF ClaimRun, Complete, Stop, Lose, Error
  <2>4. CASE Check
    <3>1. CASE \/ lane' = [lane EXCEPT !.pc = "next"]
               \/ lane' = [lane EXCEPT !.pc = "complete"]
               \/ lane' = [lane EXCEPT !.pc = "ask"]
      BY <1>4, <3>1, LaneEases DEF Go
    <3>2. CASE \E todo \in {run.answer, Unsettled(run.issued)} :
                 lane' = [lane EXCEPT !.pc = "next", !.recovering = FALSE, !.todo = todo]
      BY <1>1, <1>4, <3>2 DEF Eased, LaneKept, IsLane, OpsInv, OpsTyped, Unsettled
    <3> QED BY <1>4, <2>4, <3>1, <3>2, LaneEases DEF Check
  <2> QED BY <2>1, <2>2, <2>3, <2>4
<1> QED BY <1>2, <1>3, <1>5, QuietStep DEF Eased

LEMMA LoopKeeps ==
    ASSUME OpsInv, Loop
    PROVE  OpsInv'
<1>1. run.answer \subseteq Calls /\ run.issued \subseteq Calls /\ IsLane(lane) /\ IsRun(run)
  BY DEF OpsInv, OpsTyped
<1>2. \E todo \in {Executing(run.answer), Executing(run.issued), {}} :
         lane' = [lane EXCEPT !.pc = "next", !.recovering = TRUE, !.todo = todo]
  BY ZenonT(30) DEF Loop
<1>3. Eased
  BY <1>1, <1>2 DEF Eased, LaneKept, IsLane, Executing, AtCall, Trying
<1>4. RunKept /\ UNCHANGED <<plan, dispatch, steps, config, effect>>
  BY <1>1 DEF Loop, RunKept, IsRun
<1> QED BY <1>3, <1>4, QuietStep DEF Eased

-------------------------------------------------------------------------------
(* Steps that settle calls or take them up.                                *)

LEMMA DispatchStep ==
    ASSUME OpsInv, IsRun(run'), run'.issued \subseteq Calls, run'.answer \subseteq Calls, LaneKept,
           UNCHANGED <<plan, steps, config, effect>>,
           DOMAIN dispatch' = Calls, \A c \in Calls : IsDispatch(dispatch'[c]),
           \A c \in Calls \ run'.issued : dispatch'[c].status = "none",
           \A c, k \in Calls : Vouches(c, k) /\ Within(k, config.changes) =>
              \E d \in Calls : Vouches(d, k)',
           CountsOK', CallOK'
    PROVE  OpsInv'
<1>1. OpsTyped'
  BY DEF OpsInv, OpsTyped, LaneKept
<1>2. StepsOK'
  BY DEF OpsInv, StepsOK, Intent
<1>3. ConfigOK'
  <2>1. \A k \in Calls : Within(k, config.changes) => \E d \in Calls : Vouches(d, k)'
    BY DEF OpsInv, ConfigOK
  <2> QED BY <2>1 DEF OpsInv, ConfigOK, Intent
<1> QED BY <1>1, <1>2, <1>3 DEF OpsInv

\* A call is taken up, put back, or settled without a change of its own.
LEMMA CallStep ==
    ASSUME OpsInv, RunKept, LaneKept, UNCHANGED <<plan, steps, config, effect>>,
           NEW c \in Calls, dispatch[c].status \in {"pending", "executing"},
           NEW row, IsDispatch(row), ~row.counted, dispatch' = [dispatch EXCEPT ![c] = row],
           \/ row.status \in {"executing", "needs_review"} \/ dispatch[c].status = "pending"
           \/ steps[c].of = 0 \/ ~Within(steps[c].of, config.changes),
           CallOK'
    PROVE  OpsInv'
<1>1. /\ IsRun(run) /\ run.issued \subseteq Calls /\ run.answer \subseteq Calls
      /\ DOMAIN dispatch = Calls /\ \A d \in Calls : IsDispatch(dispatch[d])
      /\ \A d \in Calls \ run.issued : dispatch[d].status = "none"
  BY DEF OpsInv, OpsTyped
<1>2. c \in run.issued /\ ~dispatch[c].counted
  BY <1>1 DEF OpsInv, CountsOK
<1>3. /\ DOMAIN dispatch' = Calls /\ dispatch'[c] = row
      /\ \A d \in Calls \ {c} : dispatch'[d] = dispatch[d]
  BY <1>1
<1>4. \A d \in Calls : IsDispatch(dispatch'[d])
  BY <1>1, <1>3
<1>5. \A d \in Calls \ run'.issued : dispatch'[d].status = "none"
  BY <1>1, <1>2, <1>3 DEF RunKept
<1>6. ASSUME NEW d \in Calls, NEW k \in Calls, Vouches(d, k), Within(k, config.changes)
      PROVE  Vouches(d, k)'
  <2>1. CASE d # c
    BY <1>3, <1>6, <2>1 DEF Vouches
  <2>2. CASE d = c
    <3>1. dispatch[c].status = "executing" /\ steps[c].of = k /\ k # 0
      BY <1>2, <1>6, <2>2, CallsAre DEF Vouches
    <3>2. row.status \in {"executing", "needs_review"}
      BY <1>6, <3>1
    <3> QED BY <1>3, <2>2, <3>1, <3>2 DEF Vouches
  <2> QED BY <2>1, <2>2
<1>7. CountsOK'
  <2>1. \A d \in Calls : dispatch'[d].counted => d # c /\ dispatch[d].counted /\ dispatch'[d] = dispatch[d]
    BY <1>3
  <2> QED BY <2>1 DEF OpsInv, CountsOK
<1>8. IsRun(run') /\ run'.issued \subseteq Calls /\ run'.answer \subseteq Calls
  BY <1>1 DEF RunKept
<1> QED BY <1>3, <1>4, <1>5, <1>6, <1>7, <1>8, DispatchStep

\* A call is settled with the receipt of a change.
LEMMA ReceiptStep ==
    ASSUME OpsInv, RunKept, LaneKept, UNCHANGED <<plan, steps, config, effect>>,
           NEW c \in Calls, dispatch[c].status \in {"pending", "executing"},
           NEW seen \in BOOLEAN,
           seen <=> \E d \in Calls \ {c} : dispatch[d].counted /\ steps[d].of = steps[c].of,
           dispatch' = [dispatch EXCEPT ![c] =
              [status |-> "succeeded", counted |-> ~seen, replay |-> seen]],
           steps[c].of # 0, steps[steps[c].of].status = "succeeded",
           CallOK'
    PROVE  OpsInv'
<1> DEFINE row == [status |-> "succeeded", counted |-> ~seen, replay |-> seen]
<1>1. /\ IsRun(run) /\ run.issued \subseteq Calls /\ run.answer \subseteq Calls
      /\ DOMAIN dispatch = Calls /\ \A d \in Calls : IsDispatch(dispatch[d])
      /\ \A d \in Calls \ run.issued : dispatch[d].status = "none"
  BY DEF OpsInv, OpsTyped
<1>2. c \in run.issued /\ ~dispatch[c].counted
  BY <1>1 DEF OpsInv, CountsOK
<1>3. /\ DOMAIN dispatch' = Calls /\ dispatch'[c] = row
      /\ \A d \in Calls \ {c} : dispatch'[d] = dispatch[d]
  BY <1>1
<1>4. IsDispatch(row) /\ row.status = "succeeded" /\ (row.counted <=> ~seen)
  BY DEF IsDispatch
<1> HIDE DEF row
<1>5. \A d \in Calls : IsDispatch(dispatch'[d])
  BY <1>1, <1>3, <1>4
<1>6. \A d \in Calls \ run'.issued : dispatch'[d].status = "none"
  BY <1>1, <1>2, <1>3 DEF RunKept
<1>7. ASSUME NEW d \in Calls, NEW k \in Calls, Vouches(d, k), Within(k, config.changes)
      PROVE  \E e \in Calls : Vouches(e, k)'
  <2>1. CASE d # c
    <3>1. Vouches(d, k)'
      BY <1>3, <1>7, <2>1 DEF Vouches
    <3> QED BY <3>1
  <2>2. CASE d = c /\ ~seen
    <3>1. Vouches(c, k)'
      BY <1>3, <1>4, <1>7, <2>2 DEF Vouches
    <3> QED BY <3>1
  <2>3. CASE d = c /\ seen
    <3>1. PICK e \in Calls \ {c} : dispatch[e].counted /\ steps[e].of = steps[c].of
      BY <2>3
    <3>2. Vouches(e, k)'
      BY <1>3, <1>7, <2>3, <3>1 DEF Vouches
    <3> QED BY <3>1, <3>2
  <2> QED BY <2>1, <2>2, <2>3
<1>8. CountsOK'
  <2> SUFFICES ASSUME NEW d \in Calls, dispatch'[d].counted
               PROVE  /\ dispatch'[d].status = "succeeded" /\ steps'[d].of # 0
                      /\ steps'[steps'[d].of].status = "succeeded"
                      /\ \A e \in Calls : dispatch'[e].counted /\ steps'[e].of = steps'[d].of => e = d
    BY DEF CountsOK
  <2>1. CASE d = c
    <3>1. ~seen
      BY <1>3, <1>4, <2>1
    <3>2. \A e \in Calls \ {c} : dispatch'[e].counted => steps[e].of # steps[c].of
      BY <1>3, <3>1
    <3> QED BY <1>3, <1>4, <2>1, <3>2
  <2>2. CASE d # c
    <3>1. dispatch'[d] = dispatch[d] /\ dispatch[d].counted
      BY <1>3, <2>2
    <3>2. /\ dispatch[d].status = "succeeded" /\ steps[d].of # 0
          /\ steps[steps[d].of].status = "succeeded"
          /\ \A e \in Calls : dispatch[e].counted /\ steps[e].of = steps[d].of => e = d
      BY <3>1 DEF OpsInv, CountsOK
    <3>3. \A e \in Calls \ {c} : dispatch'[e].counted /\ steps[e].of = steps[d].of => e = d
      BY <1>3, <3>2
    <3>4. dispatch'[c].counted => steps[c].of # steps[d].of
      BY <1>3, <1>4, <2>2, <3>1
    <3> QED BY <3>1, <3>2, <3>3, <3>4
  <2> QED BY <2>1, <2>2
<1>9. IsRun(run') /\ run'.issued \subseteq Calls /\ run'.answer \subseteq Calls
  BY <1>1 DEF RunKept
<1> QED BY <1>3, <1>5, <1>6, <1>7, <1>8, <1>9, DispatchStep

\* What the invariant says of the call at hand.
LEMMA CallIs ==
    ASSUME OpsInv, lane.pc \in AtCall
    PROVE  /\ lane.call \in Calls
           /\ lane.pc \in Trying => dispatch[lane.call].status = "executing"
           /\ lane.pc = "mark" => dispatch[lane.call].status = "pending"
           /\ dispatch[lane.call].status \in {"pending", "executing"}
           /\ IsDispatch(dispatch[lane.call]) /\ ~dispatch[lane.call].counted
           /\ Canonical # 0 => Canonical \in Calls /\ steps[Canonical].of = Canonical
<1>1. lane.call \in Calls
  BY DEF OpsInv, CallOK, AtCall
<1>2. /\ lane.pc \in Trying => dispatch[lane.call].status = "executing"
      /\ lane.pc = "mark" => dispatch[lane.call].status = "pending"
      /\ dispatch[lane.call].status \in {"pending", "executing"}
  BY DEF OpsInv, CallOK, AtCall
<1>3. IsDispatch(dispatch[lane.call]) /\ ~dispatch[lane.call].counted
  BY <1>1, <1>2 DEF OpsInv, OpsTyped, CountsOK
<1>4. Canonical # 0 => Canonical \in Calls /\ steps[Canonical].of = Canonical
  BY <1>1, CanonicalIs DEF OpsInv, Canonical
<1> QED BY <1>1, <1>2, <1>3, <1>4

LEMMA NextCallKeeps ==
    ASSUME OpsInv, NextCall
    PROVE  OpsInv'
<1>1. IsRun(run) /\ IsLane(lane) /\ lane.todo \subseteq Calls
  BY DEF OpsInv, OpsTyped
<1>2. RunKept /\ UNCHANGED <<plan, dispatch, steps, config, effect>>
  BY <1>1 DEF NextCall, RunKept
<1>3. "check" \notin AtCall
  BY DEF AtCall, Trying
<1>4. CASE Go("check")
  BY <1>2, <1>3, <1>4, QuietStep, LaneEases DEF Eased
<1>5. CASE lane.todo # {} /\ ~Go("check")
  <2> DEFINE c == Min(lane.todo)
  <2>1. c \in lane.todo /\ c \in Calls
    BY <1>1, <1>5, FirstCall
  <2>2. PICK pc \in {"tool", "mark", "check"} :
           /\ lane' = [lane EXCEPT !.call = c, !.todo = @ \ {c}, !.pc = pc]
           /\ pc = "tool" => dispatch[c].status = "executing"
           /\ pc = "mark" => dispatch[c].status = "pending"
    BY <1>5 DEF NextCall
  <2> HIDE DEF c
  <2>3. LaneKept /\ lane'.call = c /\ lane'.pc = pc
    BY <1>1, <2>1, <2>2 DEF LaneKept, IsLane
  <2>4. CallOK'
    BY <1>2, <2>1, <2>2, <2>3 DEF CallOK, Trying
  <2> QED BY <1>2, <2>3, <2>4, LaneStep
<1> QED BY <1>4, <1>5 DEF NextCall

LEMMA MarkKeeps ==
    ASSUME OpsInv, Mark
    PROVE  OpsInv'
<1> DEFINE c == lane.call
<1>1. IsRun(run)
  BY DEF OpsInv, OpsTyped
<1>2. RunKept /\ UNCHANGED <<plan, steps, config, effect>>
  BY <1>1 DEF Mark, RunKept
<1>3. "lost" \notin AtCall /\ "stopped" \notin AtCall /\ "mark" \in AtCall
  BY DEF AtCall, Trying
<1>4. c \in Calls /\ dispatch[c].status = "pending" /\ IsDispatch(dispatch[c]) /\ ~dispatch[c].counted
  BY <1>3, CallIs DEF Mark, At
<1>5. CASE dispatch' = dispatch /\ (Ends("lost") \/ Ends("stopped") \/ EndsWith("refused"))
  <2>1. Eased
    BY <1>3, <1>5, LaneEases
  <2> QED BY <1>2, <1>5, <2>1, QuietStep DEF Eased
<1>6. CASE dispatch' = dispatch /\ Yields("replay")
  <2>1. LaneKept /\ lane'.pc = "record" /\ lane'.call = c /\ lane'.result = "replay"
    BY <1>6, LaneForms
  <2>2. CallOK'
    BY <1>2, <1>4, <1>6, <2>1 DEF CallOK, Trying
  <2> QED BY <1>2, <1>6, <2>1, <2>2, LaneStep
<1>7. CASE Go("tool") /\ dispatch' = [dispatch EXCEPT ![c].status = "executing"]
  <2> DEFINE row == [dispatch[c] EXCEPT !.status = "executing"]
  <2>1. LaneKept /\ lane'.pc = "tool" /\ lane'.call = c
    BY <1>7, LaneForms
  <2>2. IsDispatch(row) /\ ~row.counted /\ row.status = "executing"
    BY <1>4 DEF IsDispatch
  <2>3. dispatch' = [dispatch EXCEPT ![c] = row] /\ DOMAIN dispatch = Calls
    BY <1>7 DEF OpsInv, OpsTyped
  <2> HIDE DEF row
  <2>4. dispatch'[c] = row
    BY <1>4, <2>3
  <2>5. CallOK'
    BY <1>4, <2>1, <2>2, <2>4 DEF CallOK, Trying
  <2> QED BY <1>2, <1>4, <2>1, <2>2, <2>3, <2>5, CallStep
<1> QED BY <1>5, <1>6, <1>7 DEF Mark

\* The fence inside the tool, where the change of the call is not in the file.
LEMMA FencedKeeps ==
    ASSUME OpsInv, lane.pc \in Trying, Fenced, RunKept, UNCHANGED <<plan, steps, config, effect>>,
           Canonical = 0 \/ ~Within(Canonical, config.changes)
    PROVE  OpsInv'
<1> DEFINE c == lane.call
<1>1. lane.pc \in AtCall
  BY DEF AtCall
<1>2. c \in Calls /\ dispatch[c].status = "executing" /\ IsDispatch(dispatch[c]) /\ ~dispatch[c].counted
  BY <1>1, CallIs
<1>3. "lost" \notin AtCall /\ "stopped" \notin AtCall
  BY DEF AtCall, Trying
<1>4. CASE dispatch' = dispatch /\ Ends("lost")
  <2>1. Eased
    BY <1>3, <1>4, LaneEases
  <2> QED BY <1>4, <2>1, QuietStep DEF Eased
<1>5. CASE dispatch' = dispatch /\ Yields("refused")
  <2>1. LaneKept /\ lane'.pc = "record" /\ lane'.call = c /\ lane'.result = "refused"
    BY <1>5, LaneForms
  <2>2. CallOK'
    BY <1>2, <1>5, <2>1 DEF CallOK, Trying, Canonical
  <2> QED BY <1>5, <2>1, <2>2, LaneStep
<1>6. CASE Ends("stopped") /\ dispatch' = [dispatch EXCEPT ![c].status = "pending"]
  <2> DEFINE row == [dispatch[c] EXCEPT !.status = "pending"]
  <2>1. Eased
    BY <1>3, <1>6, LaneEases
  <2>2. IsDispatch(row) /\ ~row.counted
    BY <1>2 DEF IsDispatch
  <2>3. dispatch' = [dispatch EXCEPT ![c] = row]
    BY <1>6 DEF OpsInv, OpsTyped
  <2> HIDE DEF row
  <2>4. CallOK'
    BY <2>1 DEF CallOK, Eased, AtCall, Trying
  <2> QED BY <1>2, <2>1, <2>2, <2>3, <2>4, CallStep DEF Canonical, Eased
<1> QED BY <1>4, <1>5, <1>6 DEF Fenced

-------------------------------------------------------------------------------
(* Steps on the rows of the steps.                                         *)

LEMMA StatusStep ==
    ASSUME OpsInv, RunKept, LaneKept, UNCHANGED <<plan, dispatch, config, effect>>,
           NEW k \in Calls, steps[k].of = k,
           NEW s \in {"executing", "succeeded", "needs_review"},
           steps' = [steps EXCEPT ![k].status = s],
           s = "succeeded" => effect[Intent(k)].written > 0,
           steps[k].status # "succeeded", CallOK'
    PROVE  OpsInv'
<1> DEFINE row == [steps[k] EXCEPT !.status = s]
<1>1. /\ steps \in [Calls -> StepRow] /\ steps' = [steps EXCEPT ![k] = row]
  BY DEF OpsInv, OpsTyped
<1>2. row \in StepRow /\ row.status = s /\ row.of = k /\ row.before = steps[k].before
  BY <1>1 DEF StepRow
<1> HIDE DEF row
<1>3. steps' \in [Calls -> StepRow] /\ steps'[k] = row /\ \A c \in Calls \ {k} : steps'[c] = steps[c]
  BY <1>1, <1>2
<1>4. \A c \in Calls : steps'[c].of = steps[c].of /\ steps'[c].before = steps[c].before
  BY <1>2, <1>3
<1>5. OpsTyped'
  BY <1>3 DEF OpsInv, OpsTyped, RunKept, LaneKept
<1>6. StepsOK'
  <2>1. /\ \A c \in Calls : steps[c].of # 0 => steps[c].of \in Calls
    BY CanonicalIs DEF OpsInv
  <2>2. ASSUME NEW l \in Calls, steps'[l].of = l, steps'[l].status = "succeeded"
        PROVE  effect[Intent(l)].written > 0
    <3>1. CASE l = k
      BY <1>2, <1>3, <2>2, <3>1
    <3>2. CASE l # k
      BY <1>3, <2>2, <3>2 DEF OpsInv, StepsOK
    <3> QED BY <3>1, <3>2
  <2>3. \A c \in Calls : Intent(c)' = Intent(c)
    BY DEF Intent
  <2> QED BY <1>4, <2>1, <2>2, <2>3 DEF OpsInv, StepsOK
<1>7. ConfigOK'
  <2>1. \A c, l \in Calls : Vouches(c, l) => Vouches(c, l)'
    BY <1>4 DEF Vouches
  <2>2. \A l \in Calls : Within(l, config.changes) =>
           steps'[l].status \in {"executing", "succeeded", "needs_review"}
    BY <1>2, <1>3 DEF OpsInv, ConfigOK
  <2>3. \A c \in Calls : Intent(c)' = Intent(c)
    BY DEF Intent
  <2> QED BY <1>4, <2>1, <2>2, <2>3 DEF OpsInv, ConfigOK
<1>8. CountsOK'
  <2>1. \A c \in Calls : steps[c].of # 0 => steps[c].of \in Calls
    BY CanonicalIs DEF OpsInv
  <2>2. \A l \in Calls : steps[l].status = "succeeded" => steps'[l].status = "succeeded"
    BY <1>3
  <2> QED BY <1>4, <2>1, <2>2 DEF OpsInv, CountsOK
<1> QED BY <1>5, <1>6, <1>7, <1>8 DEF OpsInv

\* A change not in the file, and one known to be there.
LEMMA NotDoneIs ==
    ASSUME OpsInv, NEW k \in Calls, steps[k].of = k, NotDone(k)
    PROVE  config = steps[k].before /\ ~Within(k, config.changes)
<1>1. config = steps[k].before
  BY DEF NotDone, StepState
<1> QED BY <1>1, BeforeIs DEF OpsInv

\* What a step's row already says, and what the file says of it.
LEMMA ReconcileKeeps ==
    ASSUME OpsInv, lane.pc \in Trying, Canonical # 0, NEW ok \in {"ok", "recovered"},
           Reconcile(Canonical, ok), RunKept, UNCHANGED <<plan, dispatch, config, effect>>
    PROVE  OpsInv'
<1> DEFINE c == lane.call
           k == Canonical
<1>1. lane.pc \in AtCall
  BY DEF AtCall
<1>2. /\ c \in Calls /\ dispatch[c].status = "executing" /\ k \in Calls /\ steps[k].of = k
      /\ k = steps[c].of
  BY <1>1, CallIs DEF Canonical
<1>3. ASSUME NEW result, Yields(result), UNCHANGED steps,
             result \in {"ok", "recovered"} => steps[k].status = "succeeded",
             result \notin {"ok", "recovered", "review"} => ~Within(k, config.changes)
      PROVE  OpsInv'
  <2>1. LaneKept /\ lane'.pc = "record" /\ lane'.call = c /\ lane'.result = result
    BY <1>3, LaneForms
  <2>2. CallOK'
    BY <1>2, <1>3, <2>1 DEF CallOK, Trying
  <2> QED BY <1>3, <2>1, <2>2, LaneStep
<1>4. ASSUME NEW result, Yields(result), NEW s \in {"succeeded", "needs_review"},
             steps' = [steps EXCEPT ![k].status = s],
             s = "succeeded" => effect[Intent(k)].written > 0,
             steps[k].status # "succeeded",
             result = "review" \/ (s = "succeeded" /\ result \in {"ok", "recovered"})
      PROVE  OpsInv'
  <2>1. LaneKept /\ lane'.pc = "record" /\ lane'.call = c /\ lane'.result = result
    BY <1>4, LaneForms
  <2>2. steps'[c].of = k /\ steps'[k].status = s
    <3>1. steps \in [Calls -> StepRow]
      BY DEF OpsInv, OpsTyped
    <3> QED BY <1>2, <1>4, <3>1 DEF StepRow
  <2>3. CallOK'
    BY <1>2, <1>4, <2>1, <2>2 DEF CallOK, Trying
  <2> QED BY <1>2, <1>4, <2>1, <2>3, StatusStep
<1>5. CASE steps[k].status = "succeeded" /\ Yields(ok) /\ UNCHANGED steps
  BY <1>3, <1>5
<1>6. CASE steps[k].status = "unchanged" /\ Yields("unchanged") /\ UNCHANGED steps
  <2>1. ~Within(k, config.changes)
    BY <1>2, <1>6 DEF OpsInv, ConfigOK
  <2> QED BY <1>3, <1>6, <2>1
<1>7. CASE steps[k].status = "needs_review" /\ Yields("review") /\ UNCHANGED steps
  BY <1>3, <1>7
<1>8. CASE /\ steps[k].status \in {"prepared", "executing"} /\ StepState(k) = "after" /\ Yields(ok)
           /\ steps' = [steps EXCEPT ![k].status = "succeeded"]
  <2>1. config = After(k)
    BY <1>8 DEF StepState
  <2>2. Within(k, config.changes)
    BY <1>2, <2>1, AfterIs DEF OpsInv
  <2>3. effect[Intent(k)].written > 0
    BY <1>2, <2>2, WithinIsWritten DEF OpsInv
  <2> QED BY <1>4, <1>8, <2>3
<1>9. CASE /\ steps[k].status \in {"prepared", "executing"} /\ Yields("review")
           /\ steps' = [steps EXCEPT ![k].status = "needs_review"]
  BY <1>4, <1>9
<1>10. Reconcile(k, ok)
  OBVIOUS
<1> HIDE DEF k
<1> QED BY <1>5, <1>6, <1>7, <1>8, <1>9, <1>10 DEF Reconcile

\* The tool fails before anything is written.
LEMMA RefusalKeeps ==
    ASSUME OpsInv, lane.pc \in Trying, NEW result, Yields(result),
           result \notin {"ok", "recovered"},
           result # "review" => Canonical = 0 \/ ~Within(Canonical, config.changes),
           RunKept, UNCHANGED <<plan, dispatch, steps, config, effect>>
    PROVE  OpsInv'
<1>1. lane.pc \in AtCall
  BY DEF AtCall
<1>2. lane.call \in Calls /\ dispatch[lane.call].status = "executing"
  BY <1>1, CallIs
<1>3. LaneKept /\ lane'.pc = "record" /\ lane'.call = lane.call /\ lane'.result = result
  BY LaneForms
<1>4. CallOK'
  BY <1>2, <1>3 DEF CallOK, Trying, Canonical
<1> QED BY <1>3, <1>4, LaneStep

LEMMA ToDoIs ==
    ASSUME OpsInv, lane.pc \in Trying, ToDo
    PROVE  Canonical = 0 \/ ~Within(Canonical, config.changes)
<1>1. CASE Canonical # 0
  <2>1. lane.pc \in AtCall
    BY DEF AtCall
  <2>2. Canonical \in Calls /\ steps[Canonical].of = Canonical
    BY <1>1, <2>1, CallIs
  <2>3. NotDone(Canonical)
    BY <1>1 DEF ToDo
  <2> QED BY <2>2, <2>3, NotDoneIs
<1> QED BY <1>1

LEMMA ToolKeeps ==
    ASSUME OpsInv, Tool
    PROVE  OpsInv'
<1>1. lane.pc \in Trying /\ lane.pc \in AtCall
  BY DEF Tool, At, Trying, AtCall
<1>2. RunKept /\ UNCHANGED <<plan, dispatch, config, effect>>
  BY DEF Tool, RunKept, OpsInv, OpsTyped
<1>3. CASE Canonical # 0 /\ Reconcile(Canonical, "ok")
  BY <1>1, <1>2, <1>3, ReconcileKeeps
<1>4. CASE Go("prepare") /\ UNCHANGED steps
  <2>1. LaneKept /\ lane'.pc = "prepare" /\ lane'.call = lane.call
    BY <1>4, LaneForms
  <2>2. lane.call \in Calls /\ dispatch[lane.call].status = "executing"
    BY <1>1, CallIs
  <2>3. CallOK'
    BY <1>2, <2>1, <2>2 DEF CallOK, Trying
  <2> QED BY <1>2, <1>4, <2>1, <2>3, LaneStep
<1>5. CASE ToDo /\ Yields("failed") /\ UNCHANGED steps
  <2>1. Canonical = 0 \/ ~Within(Canonical, config.changes)
    BY <1>1, <1>5, ToDoIs
  <2> QED BY <1>1, <1>2, <1>5, <2>1, RefusalKeeps
<1> QED BY <1>3, <1>4, <1>5 DEF Tool

LEMMA ProbeKeeps ==
    ASSUME OpsInv, Probe
    PROVE  OpsInv'
<1>1. lane.pc \in Trying
  BY DEF Probe, At, Trying
<1>2. RunKept /\ UNCHANGED <<plan, dispatch, config, effect>>
  BY DEF Probe, RunKept, OpsInv, OpsTyped
<1>3. CASE Canonical # 0 /\ Reconcile(Canonical, "recovered")
  BY <1>1, <1>2, <1>3, ReconcileKeeps
<1>4. CASE ToDo /\ (Yields("failed") \/ Yields("refused")) /\ UNCHANGED steps
  <2>1. Canonical = 0 \/ ~Within(Canonical, config.changes)
    BY <1>1, <1>4, ToDoIs
  <2> QED BY <1>1, <1>2, <1>4, <2>1, RefusalKeeps
<1>5. CASE Yields("review") /\ UNCHANGED steps
  BY <1>1, <1>2, <1>5, RefusalKeeps
<1> QED BY <1>3, <1>4, <1>5 DEF Probe

\* A call is made an alias of the first step with its intent.
LEMMA AliasKeeps ==
    ASSUME OpsInv, NEW c \in Calls, c = lane.call, dispatch[c].status = "executing",
           steps[c].of = 0, NEW f \in Calls, steps[f].of = f, Intent(f) = Intent(c),
           steps' = [steps EXCEPT ![c].of = f],
           RunKept, LaneKept, lane'.pc = "prepare", lane'.call = c,
           UNCHANGED <<plan, dispatch, config, effect>>
    PROVE  OpsInv'
<1> DEFINE row == [steps[c] EXCEPT !.of = f]
<1>1. steps \in [Calls -> StepRow] /\ steps' = [steps EXCEPT ![c] = row] /\ c # f /\ f # 0
  BY CallsAre DEF OpsInv, OpsTyped
<1>2. row \in StepRow /\ row.of = f
  BY <1>1 DEF StepRow
<1> HIDE DEF row
<1>3. steps' \in [Calls -> StepRow] /\ steps'[c] = row /\ \A d \in Calls \ {c} : steps'[d] = steps[d]
  BY <1>1, <1>2
<1>4. \A d \in Calls : Intent(d)' = Intent(d)
  BY DEF Intent
<1>5. \A d \in Calls : steps[d].of # 0 => d # c /\ steps[d].of \in Calls \ {c}
  <2>1. \A d \in Calls : steps[d].of # 0 => steps[d].of \in Calls /\ steps[steps[d].of].of = steps[d].of
    BY CanonicalIs DEF OpsInv
  <2> QED BY <2>1, CallsAre
<1>6. OpsTyped'
  BY <1>3 DEF OpsInv, OpsTyped, RunKept, LaneKept
<1>7. StepsOK'
  <2>1. ASSUME NEW d \in Calls, steps'[d].of # 0
        PROVE  LET k == steps'[d].of IN steps'[k].of = k /\ Intent(k) = Intent(d)
    <3>1. CASE d = c
      BY <1>1, <1>2, <1>3, <3>1
    <3>2. CASE d # c
      BY <1>3, <1>5, <2>1, <3>2 DEF OpsInv, StepsOK
    <3> QED BY <3>1, <3>2
  <2>2. \A k \in Calls : steps'[k].of = k => k # c /\ steps'[k] = steps[k]
    BY <1>1, <1>2, <1>3
  <2>3. \A k, l \in Calls : steps'[k].of = k /\ steps'[l].of = l /\ Intent(k) = Intent(l) => k = l
    BY <2>2 DEF OpsInv, StepsOK
  <2>4. \A k \in Calls : steps'[k].of = k =>
           /\ ~Within(k, steps'[k].before.changes)
           /\ steps'[k].status = "succeeded" => effect[Intent(k)].written > 0
    BY <2>2 DEF OpsInv, StepsOK
  <2>5. \A d \in Calls : steps'[d].of \in Calls \cup {0}
    BY <1>3 DEF StepRow
  <2> QED BY <1>4, <2>1, <2>3, <2>4, <2>5 DEF StepsOK
<1>8. ConfigOK'
  <2>1. \A d, k \in Calls : Vouches(d, k) => Vouches(d, k)'
    BY <1>3, CallsAre DEF Vouches
  <2>2. \A k \in Calls : Within(k, config.changes) => k # c /\ steps'[k] = steps[k]
    BY <1>3, CallsAre DEF OpsInv, ConfigOK
  <2> QED BY <1>4, <2>1, <2>2 DEF OpsInv, ConfigOK
<1>9. CountsOK'
  <2>1. \A d \in Calls : dispatch[d].counted => d # c /\ steps[d].of # 0
    BY DEF OpsInv, CountsOK
  <2> QED BY <1>3, <1>5, <2>1 DEF OpsInv, CountsOK
<1>10. CallOK'
  BY DEF CallOK, Trying
<1> QED BY <1>6, <1>7, <1>8, <1>9, <1>10 DEF OpsInv

\* A step of its own is planned from the file as it is.
LEMMA PlanKeeps ==
    ASSUME OpsInv, NEW c \in Calls, c = lane.call, dispatch[c].status = "executing",
           steps[c].of = 0, \A d \in Calls : steps[d].of = d => Intent(d) # Intent(c),
           NEW s \in {"prepared", "unchanged"},
           steps' = [steps EXCEPT ![c] = [status |-> s, of |-> c, before |-> config]],
           RunKept, LaneKept, lane'.call = c, UNCHANGED <<plan, dispatch, config, effect>>,
           \/ s = "prepared" /\ lane'.pc = "arm"
           \/ s = "unchanged" /\ lane'.pc = "record" /\ lane'.result = "unchanged"
    PROVE  OpsInv'
<1> DEFINE row == [status |-> s, of |-> c, before |-> config]
<1>1. steps \in [Calls -> StepRow] /\ steps' = [steps EXCEPT ![c] = row] /\ c # 0
  BY CallsAre DEF OpsInv, OpsTyped
<1>2. row \in StepRow /\ row.of = c /\ row.before = config /\ row.status = s
  BY DEF StepRow, OpsInv, OpsTyped
<1> HIDE DEF row
<1>3. steps' \in [Calls -> StepRow] /\ steps'[c] = row /\ \A d \in Calls \ {c} : steps'[d] = steps[d]
  BY <1>1, <1>2
<1>4. \A d \in Calls : Intent(d)' = Intent(d)
  BY DEF Intent
<1>5. \A d \in Calls : steps[d].of # 0 => d # c /\ steps[d].of \in Calls \ {c}
  <2>1. \A d \in Calls : steps[d].of # 0 => steps[d].of \in Calls /\ steps[steps[d].of].of = steps[d].of
    BY CanonicalIs DEF OpsInv
  <2> QED BY <2>1, CallsAre
<1>6. OpsTyped'
  BY <1>3 DEF OpsInv, OpsTyped, RunKept, LaneKept
<1>7. \A k \in Calls : Within(k, config.changes) => k # c
  BY <1>1 DEF OpsInv, ConfigOK
<1>8. StepsOK'
  <2>1. ASSUME NEW d \in Calls, steps'[d].of # 0
        PROVE  LET k == steps'[d].of IN steps'[k].of = k /\ Intent(k) = Intent(d)
    <3>1. CASE d = c
      BY <1>2, <1>3, <3>1
    <3>2. CASE d # c
      BY <1>3, <1>5, <2>1, <3>2 DEF OpsInv, StepsOK
    <3> QED BY <3>1, <3>2
  <2>2. \A k \in Calls \ {c} : steps'[k].of = k => Intent(k) # Intent(c)
    BY <1>3
  <2>3. \A k, l \in Calls \ {c} : steps'[k].of = k /\ steps'[l].of = l /\ Intent(k) = Intent(l) => k = l
    BY <1>3 DEF OpsInv, StepsOK
  <2>4. \A k \in Calls \ {c} : steps'[k].of = k =>
           /\ ~Within(k, steps'[k].before.changes)
           /\ steps'[k].status = "succeeded" => effect[Intent(k)].written > 0
    BY <1>3 DEF OpsInv, StepsOK
  <2>5. ~Within(c, steps'[c].before.changes) /\ steps'[c].status # "succeeded"
    BY <1>2, <1>3, <1>7
  <2>6. \A d \in Calls : steps'[d].of \in Calls \cup {0}
    BY <1>3 DEF StepRow
  <2> QED BY <1>4, <2>1, <2>2, <2>3, <2>4, <2>5, <2>6 DEF StepsOK
<1>9. ConfigOK'
  <2>1. \A d, k \in Calls : Vouches(d, k) => Vouches(d, k)'
    BY <1>3, CallsAre DEF Vouches
  <2>2. \A k \in Calls : Within(k, config.changes) => steps'[k] = steps[k]
    BY <1>3, <1>7
  <2> QED BY <1>4, <2>1, <2>2 DEF OpsInv, ConfigOK
<1>10. CountsOK'
  <2>1. \A d \in Calls : dispatch[d].counted => d # c /\ steps[d].of # 0
    BY DEF OpsInv, CountsOK
  <2> QED BY <1>3, <1>5, <2>1 DEF OpsInv, CountsOK
<1>11. CallOK'
  BY <1>1, <1>2, <1>3, <1>7 DEF CallOK, Trying
<1> QED BY <1>6, <1>8, <1>9, <1>10, <1>11 DEF OpsInv

LEMMA PrepareKeeps ==
    ASSUME OpsInv, Prepare
    PROVE  OpsInv'
<1> DEFINE c == lane.call
           same == {d \in Calls : steps[d].of = d /\ Intent(d) = Intent(c)}
<1>1. lane.pc \in Trying /\ lane.pc \in AtCall
  BY DEF Prepare, At, Trying, AtCall
<1>2. RunKept /\ UNCHANGED <<plan, config, effect>>
  BY DEF Prepare, RunKept, OpsInv, OpsTyped
<1>3. c \in Calls /\ dispatch[c].status = "executing"
  BY <1>1, CallIs
<1>4. CASE Canonical # 0 /\ Reconcile(Canonical, "ok") /\ UNCHANGED dispatch
  BY <1>1, <1>2, <1>4, ReconcileKeeps
<1>5. CASE ToDo /\ Fenced /\ UNCHANGED steps
  <2>1. Canonical = 0 \/ ~Within(Canonical, config.changes)
    BY <1>1, <1>5, ToDoIs
  <2> QED BY <1>1, <1>2, <1>5, <2>1, FencedKeeps
<1>6. CASE Canonical # 0 /\ NotDone(Canonical) /\ Go("arm") /\ UNCHANGED <<steps, dispatch>>
  <2>1. Canonical \in Calls /\ steps[Canonical].of = Canonical
    BY <1>1, <1>6, CallIs
  <2>2. config = steps[Canonical].before /\ steps[Canonical].status \in {"prepared", "executing"}
    BY <1>6, <2>1, NotDoneIs DEF NotDone
  <2>3. LaneKept /\ lane'.pc = "arm" /\ lane'.call = c
    BY <1>6, LaneForms
  <2>4. CallOK'
    BY <1>2, <1>3, <1>6, <2>1, <2>2, <2>3 DEF CallOK, Trying, Canonical
  <2> QED BY <1>2, <1>6, <2>3, <2>4, LaneStep
<1>7. CASE /\ Canonical = 0 /\ same # {} /\ Go("prepare") /\ UNCHANGED dispatch
           /\ steps' = [steps EXCEPT ![c].of = Min(same)]
  <2>1. LaneKept /\ lane'.pc = "prepare" /\ lane'.call = c
    BY <1>7, LaneForms
  <2>2. Min(same) \in same
    BY <1>7, FirstCall
  <2>3. Min(same) \in Calls /\ steps[Min(same)].of = Min(same) /\ Intent(Min(same)) = Intent(c)
    BY <2>2
  <2>4. steps[c].of = 0
    BY <1>7 DEF Canonical
  <2> HIDE DEF same
  <2> QED BY <1>2, <1>3, <1>7, <2>1, <2>3, <2>4, AliasKeeps
<1>8. ASSUME NEW s \in {"prepared", "unchanged"}, Canonical = 0, same = {}, UNCHANGED dispatch,
             steps' = [steps EXCEPT ![c] = [status |-> s, of |-> c, before |-> config]],
             (s = "prepared" /\ Go("arm")) \/ (s = "unchanged" /\ Yields("unchanged"))
      PROVE  OpsInv'
  <2>1. /\ LaneKept /\ lane'.call = c
        /\ \/ s = "prepared" /\ lane'.pc = "arm"
           \/ s = "unchanged" /\ lane'.pc = "record" /\ lane'.result = "unchanged"
    BY <1>8, LaneForms
  <2>2. steps[c].of = 0 /\ \A d \in Calls : steps[d].of = d => Intent(d) # Intent(c)
    BY <1>8 DEF Canonical
  <2> QED BY <1>2, <1>3, <1>8, <2>1, <2>2, PlanKeeps
<1>9. CASE Canonical = 0 /\ Yields("rejected") /\ UNCHANGED <<steps, dispatch>>
  BY <1>1, <1>2, <1>9, RefusalKeeps
<1>10. \/ Canonical = 0 /\ same # {} /\ Go("prepare") /\ UNCHANGED dispatch
             /\ steps' = [steps EXCEPT ![c].of = Min(same)]
       \/ Canonical = 0 /\ same = {} /\ UNCHANGED dispatch
             /\ \/ /\ steps' = [steps EXCEPT ![c] = [status |-> "prepared", of |-> c, before |-> config]]
                   /\ Go("arm")
                \/ /\ steps' = [steps EXCEPT ![c] = [status |-> "unchanged", of |-> c, before |-> config]]
                   /\ Yields("unchanged")
                \/ UNCHANGED steps /\ Yields("rejected")
       \/ Canonical # 0 /\ Reconcile(Canonical, "ok") /\ UNCHANGED dispatch
       \/ ToDo /\ Fenced /\ UNCHANGED steps
       \/ Canonical # 0 /\ NotDone(Canonical) /\ Go("arm") /\ UNCHANGED <<steps, dispatch>>
  BY DEF Prepare
<1> HIDE DEF same
<1> QED BY <1>4, <1>5, <1>6, <1>7, <1>8, <1>9, <1>10

LEMMA ArmKeeps ==
    ASSUME OpsInv, Arm
    PROVE  OpsInv'
<1> DEFINE c == lane.call
           k == Canonical
<1>1. lane.pc \in Trying /\ lane.pc \in AtCall
  BY DEF Arm, At, Trying, AtCall
<1>2. RunKept /\ UNCHANGED <<plan, config, effect>>
  BY DEF Arm, RunKept, OpsInv, OpsTyped
<1>3. /\ c \in Calls /\ dispatch[c].status = "executing" /\ k \in Calls /\ steps[k].of = k
      /\ k = steps[c].of /\ k # 0
      /\ config = steps[k].before /\ steps[k].status \in {"prepared", "executing"}
  BY <1>1, CallIs DEF Arm, At, OpsInv, CallOK, Canonical
<1>4. CASE Fenced /\ UNCHANGED steps
  <2>1. ~Within(k, config.changes)
    BY <1>3, BeforeIs DEF OpsInv
  <2> QED BY <1>1, <1>2, <1>4, <2>1, FencedKeeps
<1>5. CASE Go("guard") /\ UNCHANGED dispatch /\ steps' = [steps EXCEPT ![k].status = "executing"]
  <2>1. LaneKept /\ lane'.pc = "guard" /\ lane'.call = c
    BY <1>5, LaneForms
  <2>2. steps'[c].of = k /\ steps'[k].status = "executing" /\ steps'[k].before = steps[k].before
    <3>1. steps \in [Calls -> StepRow]
      BY DEF OpsInv, OpsTyped
    <3> QED BY <1>3, <1>5, <3>1 DEF StepRow
  <2>3. CallOK'
    BY <1>2, <1>3, <1>5, <2>1, <2>2 DEF CallOK, Trying
  <2> QED BY <1>2, <1>3, <1>5, <2>1, <2>3, StatusStep
<1> QED BY <1>4, <1>5 DEF Arm

LEMMA GuardKeeps ==
    ASSUME OpsInv, Guard
    PROVE  OpsInv'
<1> DEFINE c == lane.call
           k == Canonical
<1>1. lane.pc \in Trying /\ lane.pc \in AtCall
  BY DEF Guard, At, Trying, AtCall
<1>2. RunKept /\ UNCHANGED <<plan, steps, config, effect>>
  BY DEF Guard, RunKept, OpsInv, OpsTyped
<1>3. /\ c \in Calls /\ dispatch[c].status = "executing" /\ k \in Calls /\ steps[k].of = k
      /\ k = steps[c].of /\ k # 0
      /\ config = steps[k].before /\ steps[k].status = "executing"
  BY <1>1, CallIs DEF Guard, At, OpsInv, CallOK, Canonical
<1>4. CASE Fenced
  <2>1. ~Within(k, config.changes)
    BY <1>3, BeforeIs DEF OpsInv
  <2> QED BY <1>1, <1>2, <1>4, <2>1, FencedKeeps
<1>5. CASE Go("write") /\ UNCHANGED dispatch
  <2>1. LaneKept /\ lane'.pc = "write" /\ lane'.call = c
    BY <1>5, LaneForms
  <2>2. CallOK'
    BY <1>2, <1>3, <1>5, <2>1 DEF CallOK, Trying
  <2> QED BY <1>2, <1>5, <2>1, <2>2, LaneStep
<1> QED BY <1>4, <1>5 DEF Guard

LEMMA CommitKeeps ==
    ASSUME OpsInv, Commit
    PROVE  OpsInv'
<1> DEFINE c == lane.call
           k == Canonical
<1>1. lane.pc \in Trying /\ lane.pc \in AtCall
  BY DEF Commit, At, Trying, AtCall
<1>2. RunKept /\ UNCHANGED <<plan, dispatch, config, effect>>
  BY DEF Commit, RunKept, OpsInv, OpsTyped
<1>3. /\ c \in Calls /\ dispatch[c].status = "executing" /\ k \in Calls /\ steps[k].of = k
      /\ k = steps[c].of /\ k # 0 /\ Within(k, config.changes)
  BY <1>1, CallIs DEF Commit, At, OpsInv, CallOK, Canonical
<1>4. LaneKept /\ lane'.pc = "record" /\ lane'.call = c /\ lane'.result = "ok"
  BY LaneForms DEF Commit
<1>5. steps' = [steps EXCEPT ![k].status = "succeeded"] /\ steps \in [Calls -> StepRow]
  BY DEF Commit, OpsInv, OpsTyped
<1>6. steps'[c].of = k /\ steps'[k].status = "succeeded"
  BY <1>3, <1>5 DEF StepRow
<1>7. CallOK'
  BY <1>2, <1>3, <1>4, <1>6 DEF CallOK, Trying
<1>8. effect[Intent(k)].written > 0
  BY <1>3, WithinIsWritten DEF OpsInv
<1>9. CASE steps[k].status # "succeeded"
  BY <1>2, <1>3, <1>4, <1>5, <1>7, <1>8, <1>9, StatusStep
<1>10. CASE steps[k].status = "succeeded"
  <2>1. [steps[k] EXCEPT !.status = "succeeded"] = steps[k]
    BY <1>3, <1>5, <1>10 DEF StepRow
  <2>2. steps' = steps
    BY <1>3, <1>5, <2>1
  <2> QED BY <1>2, <1>4, <1>7, <2>2, LaneStep
<1> QED BY <1>9, <1>10

-------------------------------------------------------------------------------
(* Steps on the file.                                                      *)

\* What a change of the file keeps: what is in it, once, was written and is vouched for.
LEMMA FileStep ==
    ASSUME OpsInv, LaneKept, UNCHANGED <<plan, run, dispatch, steps>>,
           config' \in FileRow, effect' \in [Calls -> [written : Nat, undone : Nat]],
           \A i \in Calls : effect'[i].written >= effect[i].written,
           ConfigOK', CallOK'
    PROVE  OpsInv'
<1>1. OpsTyped'
  BY DEF OpsInv, OpsTyped, LaneKept
<1>2. StepsOK'
  <2>1. ASSUME NEW k \in Calls, effect[Intent(k)].written > 0
        PROVE  effect'[Intent(k)].written > 0
    <3> DEFINE i == Intent(k)
    <3>1. i \in Calls
      BY CallsAre
    <3> HIDE DEF i
    <3>2. effect[i].written \in Nat /\ effect'[i].written \in Nat
      BY <3>1 DEF OpsInv, OpsTyped
    <3>3. effect'[i].written >= effect[i].written
      BY <3>1
    <3>4. effect[i].written > 0
      BY <2>1 DEF i
    <3>5. effect'[i].written > 0
      BY <3>2, <3>3, <3>4
    <3> QED BY <3>5 DEF i
  <2>2. \A c \in Calls : Intent(c)' = Intent(c)
    BY DEF Intent
  <2>3. \A c \in Calls : steps[c].of \in Calls \cup {0}
    BY DEF OpsInv, OpsTyped, StepRow
  <2> QED BY <2>1, <2>2, <2>3 DEF OpsInv, StepsOK
<1>3. CountsOK'
  BY DEF OpsInv, CountsOK
<1> QED BY <1>1, <1>2, <1>3 DEF OpsInv

LEMMA WriteFileKeeps ==
    ASSUME OpsInv, WriteFile
    PROVE  OpsInv'
<1> DEFINE c == lane.call
           k == Canonical
           i == Intent(k)
           s == config.changes
<1>1. lane.pc \in Trying /\ lane.pc \in AtCall
  BY DEF WriteFile, At, Trying, AtCall
<1>2. UNCHANGED <<plan, run, dispatch, steps>>
  BY DEF WriteFile
<1>3. /\ c \in Calls /\ dispatch[c].status = "executing" /\ k \in Calls /\ steps[k].of = k
      /\ k = steps[c].of /\ k # 0
      /\ config = steps[k].before /\ steps[k].status = "executing"
  BY <1>1, CallIs DEF WriteFile, At, OpsInv, CallOK, Canonical
<1>4. ~Within(k, s)
  BY <1>3, BeforeIs DEF OpsInv
<1>5. i \in Calls /\ s \in Seq(Calls \cup {0}) /\ k \in Calls \cup {0}
  <2> HIDE DEF c, k
  <2>1. config \in FileRow
    BY DEF OpsInv, OpsTyped
  <2>2. s \in Seq(Calls \cup {0})
    BY <2>1, Zenon DEF FileRow
  <2> QED BY <1>3, <2>2, CallsAre
<1>6. config' = [changes |-> Append(s, k), receipt |-> k]
  <2>1. config' = [changes |-> Append(steps[k].before.changes, k), receipt |-> k]
    BY Zenon DEF WriteFile, After
  <2> QED BY <1>3, <2>1, Zenon
<1>7. config' \in FileRow
  BY <1>5, <1>6 DEF FileRow
<1>8. /\ DOMAIN config'.changes = DOMAIN s \cup {Len(s) + 1} /\ Len(s) + 1 \notin DOMAIN s
      /\ config'.changes[Len(s) + 1] = k /\ \A j \in DOMAIN s : config'.changes[j] = s[j]
  BY <1>5, <1>6
<1>9. \A l : Within(l, config'.changes) <=> l = k \/ Within(l, s)
  BY <1>8 DEF Within
<1>10. /\ effect' = [effect EXCEPT ![i].written = @ + 1]
       /\ effect \in [Calls -> [written : Nat, undone : Nat]]
  BY DEF WriteFile, OpsInv, OpsTyped
<1>11. /\ effect' \in [Calls -> [written : Nat, undone : Nat]]
       /\ effect'[i].written = effect[i].written + 1 /\ effect'[i].undone = effect[i].undone
       /\ \A j \in Calls \ {i} : effect'[j] = effect[j]
  BY <1>5, <1>10
<1>12. LaneKept /\ lane'.pc = "committed" /\ lane'.call = c
  BY LaneForms DEF WriteFile
<1> HIDE DEF i
<1>13. ConfigOK'
  <2>1. \A j, l \in DOMAIN config'.changes :
           config'.changes[j] = config'.changes[l] /\ config'.changes[j] # 0 => j = l
    <3>1. \A j \in DOMAIN s : s[j] # k
      BY <1>4 DEF Within
    <3>2. \A j, l \in DOMAIN s : s[j] = s[l] /\ s[j] # 0 => j = l
      BY DEF OpsInv, ConfigOK
    <3> QED BY <1>8, <3>1, <3>2
  <2>2. ASSUME NEW l \in Calls, Within(l, config'.changes)
        PROVE  /\ steps'[l].of = l /\ steps'[l].status \in {"executing", "succeeded", "needs_review"}
               /\ \E d \in Calls : Vouches(d, l)'
    <3>1. CASE l = k
      <4>1. \E d \in Calls : steps'[d].of = l /\ dispatch'[d].status = "executing"
        BY <1>2, <1>3, <3>1
      <4>2. \E d \in Calls : Vouches(d, l)'
        BY <4>1 DEF Vouches
      <4> QED BY <1>2, <1>3, <3>1, <4>2
    <3>2. CASE l # k
      <4>1. Within(l, s)
        BY <1>9, <2>2, <3>2
      <4>2. PICK d \in Calls : Vouches(d, l)
        BY <4>1 DEF OpsInv, ConfigOK
      <4>3. Vouches(d, l)'
        BY <1>2, <4>2 DEF Vouches
      <4> QED BY <1>2, <4>1, <4>3 DEF OpsInv, ConfigOK
    <3> QED BY <3>1, <3>2
  <2>3. ASSUME NEW j \in Calls
        PROVE  effect'[j].written = effect'[j].undone +
                  IF \E l \in Calls : Intent(l)' = j /\ Within(l, config'.changes) THEN 1 ELSE 0
    <3>1. \A l \in Calls : Intent(l)' = Intent(l)
      BY <1>2 DEF Intent
    <3>2. effect[j].written = effect[j].undone +
             IF \E l \in Calls : Intent(l) = j /\ Within(l, s) THEN 1 ELSE 0
      BY DEF OpsInv, ConfigOK
    <3>3. effect[j].written \in Nat /\ effect[j].undone \in Nat
      BY <1>10
    <3>4. CASE j = i
      <4>1. ~\E l \in Calls : Intent(l) = j /\ Within(l, s)
        <5>1. ASSUME NEW l \in Calls, Intent(l) = j, Within(l, s) PROVE FALSE
          <6>1. steps[l].of = l /\ Intent(l) = Intent(k)
            BY <3>4, <5>1 DEF i, OpsInv, ConfigOK
          <6>2. l = k
            BY <1>3, <6>1 DEF OpsInv, StepsOK
          <6> QED BY <1>4, <5>1, <6>2
        <5> QED BY <5>1
      <4>2. \E l \in Calls : Intent(l)' = j /\ Within(l, config'.changes)
        BY <1>3, <1>9, <3>1, <3>4 DEF i
      <4> QED BY <1>11, <3>2, <3>3, <3>4, <4>1, <4>2
    <3>5. CASE j # i
      <4>1. (\E l \in Calls : Intent(l)' = j /\ Within(l, config'.changes))
               <=> \E l \in Calls : Intent(l) = j /\ Within(l, s)
        BY <1>3, <1>9, <3>1, <3>5 DEF i
      <4> QED BY <1>11, <3>2, <3>5, <4>1
    <3> QED BY <3>4, <3>5
  <2> QED BY <2>1, <2>2, <2>3 DEF ConfigOK
<1>14. CallOK'
  BY <1>2, <1>3, <1>9, <1>12 DEF CallOK, Trying
<1>15. \A j \in Calls : effect'[j].written >= effect[j].written
  BY <1>10, <1>11
<1> QED BY <1>2, <1>7, <1>11, <1>12, <1>13, <1>14, <1>15, FileStep

LEMMA EditKeeps ==
    ASSUME OpsInv, NEW undo \in BOOLEAN, Edit(undo)
    PROVE  OpsInv'
<1> DEFINE s == config.changes
           n == Len(s)
           last == s[n]
           i == Intent(last)
<1>1. UNCHANGED <<plan, run, dispatch, steps, lane>> /\ ~Leased
  BY DEF Edit
<1>2. LaneKept
  BY <1>1 DEF LaneKept, OpsInv, OpsTyped
<1>3. s \in Seq(Calls \cup {0}) /\ effect \in [Calls -> [written : Nat, undone : Nat]]
  BY DEF OpsInv, OpsTyped, FileRow
<1>4. \A l \in Calls : Intent(l)' = Intent(l)
  BY <1>1 DEF Intent
<1>5. ASSUME \A l \in Calls : Within(l, config'.changes) => Within(l, s)
      PROVE  CallOK'
  <2>1. lane.pc = "record" => lane.call \in Calls /\ steps[lane.call].of \in Calls \cup {0}
    BY DEF OpsInv, OpsTyped, CallOK, StepRow
  <2> QED BY <1>1, <1>5, <2>1 DEF OpsInv, CallOK, Leased
<1>6. ASSUME NEW l \in Calls, Within(l, s)
      PROVE  /\ steps'[l].of = l /\ steps'[l].status \in {"executing", "succeeded", "needs_review"}
             /\ \E d \in Calls : Vouches(d, l)'
  <2>1. PICK d \in Calls : Vouches(d, l)
    BY <1>6 DEF OpsInv, ConfigOK
  <2>2. Vouches(d, l)'
    BY <1>1, <2>1 DEF Vouches
  <2> QED BY <1>1, <1>6, <2>2 DEF OpsInv, ConfigOK
<1>7. \A j, l \in DOMAIN s : s[j] = s[l] /\ s[j] # 0 => j = l
  BY DEF OpsInv, ConfigOK
<1>8. \A j \in Calls : effect[j].written = effect[j].undone +
         IF \E l \in Calls : Intent(l) = j /\ Within(l, s) THEN 1 ELSE 0
  BY DEF OpsInv, ConfigOK
<1>9. CASE ~undo
  <2>1. config' = [changes |-> Append(s, 0), receipt |-> 0] /\ effect' = effect
    BY <1>9 DEF Edit
  <2>2. config' \in FileRow
    BY <1>3, <2>1 DEF FileRow
  <2>3. /\ DOMAIN config'.changes = DOMAIN s \cup {n + 1} /\ n + 1 \notin DOMAIN s
        /\ config'.changes[n + 1] = 0 /\ \A j \in DOMAIN s : config'.changes[j] = s[j]
    BY <1>3, <2>1
  <2>4. \A l \in Calls : Within(l, config'.changes) <=> Within(l, s)
    BY <2>3, CallsAre DEF Within
  <2>5. ConfigOK'
    <3>1. \A j, l \in DOMAIN config'.changes :
             config'.changes[j] = config'.changes[l] /\ config'.changes[j] # 0 => j = l
      BY <1>7, <2>3
    <3>2. \A j \in Calls : effect'[j].written = effect'[j].undone +
             IF \E l \in Calls : Intent(l)' = j /\ Within(l, config'.changes) THEN 1 ELSE 0
      BY <1>4, <1>8, <2>1, <2>4
    <3> QED BY <1>6, <2>4, <3>1, <3>2 DEF ConfigOK
  <2>6. CallOK'
    BY <1>5, <2>4
  <2>7. \A j \in Calls : effect[j].written >= effect[j].written
    BY <1>3
  <2> QED BY <1>1, <1>2, <1>3, <2>1, <2>2, <2>5, <2>6, <2>7, FileStep
<1>10. CASE undo
  <2>1. /\ s # <<>> /\ last # 0
        /\ config' = [changes |-> SubSeq(s, 1, n - 1), receipt |-> 0]
        /\ effect' = [effect EXCEPT ![i].undone = @ + 1]
    BY <1>10 DEF Edit
  <2>2. n \in Nat /\ n > 0 /\ DOMAIN s = 1..n /\ n \in DOMAIN s /\ last \in Calls
    BY <1>3, <2>1
  <2>3. /\ config'.changes \in Seq(Calls \cup {0}) /\ DOMAIN config'.changes = 1..(n - 1)
        /\ \A j \in 1..(n - 1) : config'.changes[j] = s[j]
    BY <1>3, <2>1, <2>2
  <2>4. config' \in FileRow
    BY <2>1, <2>3 DEF FileRow
  <2>5. \A l \in Calls : Within(l, config'.changes) <=> Within(l, s) /\ l # last
    <3>1. \A j \in DOMAIN s : j \in 1..(n - 1) \/ j = n
      BY <2>2
    <3>2. ASSUME NEW j \in 1..(n - 1) PROVE j \in DOMAIN s /\ s[j] # last
      <4>1. j \in DOMAIN s /\ j # n
        BY <2>2
      <4>2. s[j] = s[n] /\ s[j] # 0 => j = n
        BY <1>7, <2>2, <4>1
      <4> QED BY <2>1, <4>1, <4>2
    <3> QED BY <2>3, <3>1, <3>2 DEF Within
  <2>6. Within(last, s)
    BY <2>2 DEF Within
  <2>7. i \in Calls
    BY <2>2, CallsAre
  <2> HIDE DEF last
  <2>8. /\ effect' \in [Calls -> [written : Nat, undone : Nat]]
        /\ effect'[i].written = effect[i].written /\ effect'[i].undone = effect[i].undone + 1
        /\ \A j \in Calls \ {i} : effect'[j] = effect[j]
    <3>1. /\ effect \in [Calls -> [written : Nat, undone : Nat]] /\ i \in Calls
          /\ effect' = [effect EXCEPT ![i].undone = @ + 1]
      BY <1>3, <2>1, <2>7
    <3> HIDE DEF i
    <3> QED BY <3>1
  <2>9. ASSUME NEW j \in Calls
        PROVE  effect'[j].written = effect'[j].undone +
                  IF \E l \in Calls : Intent(l)' = j /\ Within(l, config'.changes) THEN 1 ELSE 0
    <3>1. effect[j].written \in Nat /\ effect[j].undone \in Nat
      BY <1>3
    <3>2. CASE j = i
      <4>1. \A l \in Calls : Intent(l) = i /\ Within(l, s) => l = last
        BY <2>2, <2>6 DEF OpsInv, ConfigOK, StepsOK
      <4>2. ~\E l \in Calls : Intent(l)' = j /\ Within(l, config'.changes)
        BY <1>4, <2>5, <3>2, <4>1
      <4>3. effect[j].written = effect[j].undone + 1
        BY <1>8, <2>2, <2>6, <3>2
      <4> QED BY <2>8, <3>1, <3>2, <4>2, <4>3
    <3>3. CASE j # i
      <4>1. (\E l \in Calls : Intent(l)' = j /\ Within(l, config'.changes))
               <=> \E l \in Calls : Intent(l) = j /\ Within(l, s)
        BY <1>4, <2>5, <3>3
      <4> QED BY <1>8, <2>8, <3>3, <4>1
    <3> QED BY <3>2, <3>3
  <2>10. ConfigOK'
    <3>1. \A j, l \in DOMAIN config'.changes :
             config'.changes[j] = config'.changes[l] /\ config'.changes[j] # 0 => j = l
      <4>1. \A j \in 1..(n - 1) : j \in DOMAIN s
        BY <2>2
      <4> QED BY <1>7, <2>3, <4>1
    <3> QED BY <1>6, <2>5, <2>9, <3>1 DEF ConfigOK
  <2>11. CallOK'
    BY <1>5, <2>5
  <2>12. ASSUME NEW j \in Calls PROVE effect'[j].written >= effect[j].written
    <3>1. effect'[j].written = effect[j].written /\ effect[j].written \in Nat
      BY <1>3, <2>8
    <3> QED BY <3>1
  <2> QED BY <1>1, <1>2, <2>4, <2>8, <2>10, <2>11, <2>12, FileStep
<1> QED BY <1>9, <1>10

-------------------------------------------------------------------------------
(* Results, answers of the model, retries and storage errors.              *)

LEMMA RecordKeeps ==
    ASSUME OpsInv, Record
    PROVE  OpsInv'
<1> DEFINE c == lane.call
           r == lane.result
           seen == \E d \in Calls \ {c} : dispatch[d].counted /\ steps[d].of = Canonical
           next == [lane EXCEPT !.pc = IF lane.recovering THEN "next" ELSE "check",
                                !.call = 0, !.result = "ok"]
<1>1. lane.pc = "record" /\ lane.pc \in AtCall
  BY DEF Record, At, AtCall
<1>2. RunKept /\ UNCHANGED <<plan, steps, config, effect>>
  BY DEF Record, RunKept, OpsInv, OpsTyped
<1>3. c \in Calls /\ dispatch[c].status \in {"pending", "executing"}
  BY <1>1, CallIs
<1>4. Eased
  <2>1. IsLane(lane) /\ lane.todo \subseteq Calls
    BY DEF OpsInv, OpsTyped
  <2>2. "next" \notin AtCall /\ "check" \notin AtCall
    BY DEF AtCall, Trying
  <2>3. EndsWith(r) \/ lane' = next
    BY DEF Record
  <2>4. lane' = next => LaneKept /\ lane'.pc \in {"next", "check"}
    BY <2>1 DEF LaneKept, IsLane
  <2> HIDE DEF next
  <2> QED BY <2>2, <2>3, <2>4, LaneEases DEF Eased
<1>5. LaneKept /\ CallOK'
  BY <1>4 DEF Eased, CallOK, AtCall, Trying
<1>6. CASE r \in {"ok", "recovered"}
  <2>1. dispatch' = [dispatch EXCEPT ![c] = [status |-> "succeeded", counted |-> ~seen, replay |-> seen]]
    BY <1>6 DEF Record
  <2>2. steps[c].of # 0 /\ steps[steps[c].of].status = "succeeded"
    BY <1>1, <1>6 DEF OpsInv, CallOK
  <2>3. seen <=> \E d \in Calls \ {c} : dispatch[d].counted /\ steps[d].of = steps[c].of
    BY DEF Canonical
  <2>4. seen \in BOOLEAN
    OBVIOUS
  <2> HIDE DEF seen
  <2> QED BY <1>2, <1>3, <1>5, <2>1, <2>2, <2>3, <2>4, ReceiptStep
<1>7. CASE r \notin {"ok", "recovered"}
  <2> DEFINE row == CASE r \in {"replay", "unchanged"} ->
                           [status |-> "succeeded", counted |-> FALSE, replay |-> r = "replay"]
                      [] r = "review" -> [NoDispatch EXCEPT !.status = "needs_review"]
                      [] OTHER        -> [NoDispatch EXCEPT !.status = r]
  <2>1. dispatch' = [dispatch EXCEPT ![c] = row]
    BY <1>7 DEF Record
  <2>2. IsDispatch(row) /\ ~row.counted /\ (r = "review" => row.status = "needs_review")
    BY DEF IsDispatch, NoDispatch
  <2> HIDE DEF row
  <2>3. \/ row.status \in {"executing", "needs_review"} \/ dispatch[c].status = "pending"
        \/ steps[c].of = 0 \/ ~Within(steps[c].of, config.changes)
    BY <1>1, <1>7, <2>2 DEF OpsInv, CallOK
  <2> QED BY <1>2, <1>3, <1>5, <2>1, <2>2, <2>3, CallStep
<1> QED BY <1>6, <1>7

\* Steps that only make calls pending, which changed nothing in the file.
LEMMA PendingStep ==
    ASSUME OpsInv, IsRun(run'), run.issued \subseteq run'.issued, run'.issued \subseteq Calls,
           run'.answer \subseteq Calls, LaneKept, UNCHANGED <<plan, steps, config, effect>>,
           DOMAIN dispatch' = Calls,
           \A c \in Calls :
              \/ dispatch'[c] = dispatch[c]
              \/ /\ dispatch[c].status \in {"failed", "none"} /\ c \in run'.issued
                 /\ IsDispatch(dispatch'[c]) /\ ~dispatch'[c].counted /\ dispatch'[c].status = "pending",
           lane' = lane \/ lane'.pc \notin AtCall
    PROVE  OpsInv'
<1>1. /\ \A c \in Calls : IsDispatch(dispatch[c])
      /\ \A c \in Calls \ run.issued : dispatch[c].status = "none"
  BY DEF OpsInv, OpsTyped
<1>2. \A c \in Calls : IsDispatch(dispatch'[c])
  BY <1>1
<1>3. \A c \in Calls \ run'.issued : dispatch'[c].status = "none"
  BY <1>1
<1>4. \A c \in Calls : dispatch[c].counted => dispatch[c].status = "succeeded"
  BY DEF OpsInv, CountsOK
<1>5. \A c, k \in Calls : Vouches(c, k) => Vouches(c, k)'
  BY <1>4 DEF Vouches
<1>6. CountsOK'
  <2>1. \A c \in Calls : dispatch'[c].counted => dispatch'[c] = dispatch[c]
    OBVIOUS
  <2> QED BY <2>1 DEF OpsInv, CountsOK
<1>7. CallOK'
  <2>1. CASE lane'.pc \notin AtCall
    BY <2>1 DEF CallOK, AtCall, Trying
  <2>2. CASE lane' = lane
    <3>1. \A c \in Calls : dispatch[c].status \in {"pending", "executing"} => dispatch'[c] = dispatch[c]
      OBVIOUS
    <3> QED BY <2>2, <3>1 DEF OpsInv, CallOK, Trying
  <2> QED BY <2>1, <2>2
<1> QED BY <1>2, <1>3, <1>5, <1>6, <1>7, DispatchStep

LEMMA RetryKeeps ==
    ASSUME OpsInv, Retry
    PROVE  OpsInv'
<1> DEFINE again == [c \in Calls |-> IF dispatch[c].status = "failed"
                                     THEN [dispatch[c] EXCEPT !.status = "pending"] ELSE dispatch[c]]
<1>1. /\ IsRun(run) /\ run.issued \subseteq Calls /\ run.answer \subseteq Calls
      /\ IsLane(lane) /\ lane.todo \subseteq Calls
      /\ \A c \in Calls : IsDispatch(dispatch[c])
      /\ \A c \in Calls \ run.issued : dispatch[c].status = "none"
  BY DEF OpsInv, OpsTyped
<1>2. dispatch' = again /\ UNCHANGED <<plan, steps, config, lane, effect>>
  BY DEF Retry
<1>3. IsRun(run') /\ run'.issued = run.issued /\ run'.answer \subseteq run.answer
  BY <1>1 DEF Retry, IsRun
<1>4. \A c \in Calls : dispatch[c].counted => dispatch[c].status = "succeeded"
  BY DEF OpsInv, CountsOK
<1>5. ASSUME NEW c \in Calls, dispatch[c].status = "failed"
      PROVE  /\ c \in run'.issued /\ IsDispatch(dispatch'[c])
             /\ ~dispatch'[c].counted /\ dispatch'[c].status = "pending"
  <2>1. dispatch'[c] = [dispatch[c] EXCEPT !.status = "pending"]
    BY <1>2, <1>5
  <2>2. IsDispatch(dispatch[c]) /\ ~dispatch[c].counted
    BY <1>1, <1>4, <1>5
  <2> QED BY <1>1, <1>3, <1>5, <2>1, <2>2 DEF IsDispatch
<1>6. \A c \in Calls : dispatch[c].status # "failed" => dispatch'[c] = dispatch[c]
  BY <1>2
<1>7. DOMAIN dispatch' = Calls
  BY <1>2
<1> HIDE DEF again
<1>8. LaneKept
  BY <1>1, <1>2 DEF LaneKept
<1> QED BY <1>1, <1>2, <1>3, <1>5, <1>6, <1>7, <1>8, PendingStep

LEMMA AskKeeps ==
    ASSUME OpsInv, Ask
    PROVE  OpsInv'
<1>1. /\ IsRun(run) /\ run.issued \subseteq Calls /\ run.answer \subseteq Calls
      /\ \A c \in Calls : IsDispatch(dispatch[c])
      /\ \A c \in Calls \ run.issued : dispatch[c].status = "none"
  BY DEF OpsInv, OpsTyped
<1>2. UNCHANGED <<plan, steps, config, effect>>
  BY DEF Ask
<1>3. "check" \notin AtCall
  BY DEF AtCall, Trying
<1>4. CASE UNCHANGED <<run, dispatch>> /\ \E result : EndsWith(result)
  BY <1>1, <1>2, <1>4, LaneEases, QuietStep DEF Eased, RunKept
<1>5. ASSUME NEW a \in SUBSET (Calls \ run.issued),
             run' = [run EXCEPT !.answer = a, !.issued = @ \cup a, !.phase = "dispatch"],
             dispatch' = [c \in Calls |-> IF c \in a THEN [NoDispatch EXCEPT !.status = "pending"]
                                          ELSE dispatch[c]],
             Go("check")
      PROVE  OpsInv'
  <2>1. IsRun(run') /\ run'.issued = run.issued \cup a /\ run'.answer = a
    BY <1>1, <1>5 DEF IsRun
  <2>2. Eased
    BY <1>3, <1>5, LaneEases
  <2>3. ASSUME NEW c \in a
        PROVE  /\ dispatch[c].status = "none" /\ c \in run'.issued /\ IsDispatch(dispatch'[c])
               /\ ~dispatch'[c].counted /\ dispatch'[c].status = "pending"
    <3>1. c \in Calls /\ dispatch'[c] = [NoDispatch EXCEPT !.status = "pending"]
      BY <1>5
    <3> QED BY <1>1, <2>1, <3>1 DEF NoDispatch, IsDispatch
  <2>4. \A c \in Calls \ a : dispatch'[c] = dispatch[c]
    BY <1>5
  <2>5. DOMAIN dispatch' = Calls
    BY <1>5
  <2> QED BY <1>1, <1>2, <2>1, <2>2, <2>3, <2>4, <2>5, PendingStep DEF Eased
<1>6. CASE ~(UNCHANGED <<run, dispatch>> /\ \E result : EndsWith(result))
  <2>1. PICK a \in {{c \in Calls \ run.issued : c <= last} : last \in (Calls \ run.issued) \cup {0}} :
           /\ run' = [run EXCEPT !.answer = a, !.issued = @ \cup a, !.phase = "dispatch"]
           /\ dispatch' = [c \in Calls |-> IF c \in a THEN [NoDispatch EXCEPT !.status = "pending"]
                                          ELSE dispatch[c]]
           /\ Go("check")
    <3>1. CASE UNCHANGED <<run, dispatch>> /\ (EndsWith("provider") \/ EndsWith("refused"))
      BY <1>6, <3>1
    <3> QED BY <3>1, Zenon DEF Ask
  <2>2. a \in SUBSET (Calls \ run.issued)
    OBVIOUS
  <2> QED BY <1>5, <2>1, <2>2
<1> QED BY <1>4, <1>6

LEMMA StorageErrorKeeps ==
    ASSUME OpsInv, StorageError
    PROVE  OpsInv'
<1> DEFINE c == lane.call
<1>1. RunKept /\ UNCHANGED <<plan, dispatch, steps, config, effect>>
  BY DEF StorageError, RunKept, OpsInv, OpsTyped
<1>2. CASE Go("probe") /\ (lane.pc \in Trying \/ (lane.pc = "record" /\ lane.result = "ok"))
  <2>1. LaneKept /\ lane'.pc = "probe" /\ lane'.call = c
    BY <1>2, LaneForms
  <2>2. c \in Calls /\ dispatch[c].status = "executing"
    BY <1>2 DEF OpsInv, CallOK
  <2>3. CallOK'
    BY <1>1, <2>1, <2>2 DEF CallOK, Trying
  <2> QED BY <1>1, <2>1, <2>3, LaneStep
<1>3. CASE Yields("failed") /\ (lane.pc = "mark" \/ (lane.pc = "record" /\ lane.result = "replay"))
  <2>1. LaneKept /\ lane'.pc = "record" /\ lane'.call = c /\ lane'.result = "failed"
    BY <1>3, LaneForms
  <2>2. CallOK'
    BY <1>1, <1>3, <2>1 DEF OpsInv, CallOK, Trying
  <2> QED BY <1>1, <2>1, <2>2, LaneStep
<1>4. CASE EndsWith("storage") \/ lane' = Resting
  BY <1>1, <1>4, LaneEases, QuietStep DEF Eased
<1> QED BY <1>2, <1>3, <1>4 DEF StorageError, At, Trying

-------------------------------------------------------------------------------
(* The runs within the control plane, whatever work is followed.           *)

LEMMA OpsStart ==
    ASSUME OpsInit(Calls)
    PROVE  OpsInv
<1>1. /\ run = [status |-> "queued", phase |-> "model", claim |-> None, job |-> 1,
                recoverable |-> FALSE, binding |-> "ok", attempt |-> 0,
                issued |-> {}, answer |-> {}]
      /\ dispatch = [c \in Calls |-> [status |-> "none", counted |-> FALSE, replay |-> FALSE]]
      /\ config = [changes |-> <<>>, receipt |-> 0]
      /\ lane = [pc |-> "idle", job |-> 0, call |-> 0, todo |-> {},
                 recovering |-> FALSE, result |-> "ok"]
      /\ effect = [c \in Calls |-> [written |-> 0, undone |-> 0]]
  BY DEF OpsInit, NoDispatch, Resting
<1>2. steps = [c \in Calls |-> [status |-> "none", of |-> 0, before |-> config]]
  BY <1>1 DEF OpsInit, NoStep
<1>3. config \in FileRow /\ DOMAIN config.changes = {}
  BY <1>1 DEF FileRow
<1>4. steps \in [Calls -> StepRow]
  BY <1>2, <1>3 DEF StepRow
<1>5. OpsTyped
  BY <1>1, <1>3, <1>4 DEF OpsTyped, IsRun, IsDispatch, IsLane
<1>6. \A c \in Calls : steps[c].of = 0 /\ c # 0
  BY <1>2, CallsAre
<1>7. StepsOK
  BY <1>6 DEF StepsOK
<1>8. \A k : ~Within(k, config.changes)
  BY <1>3 DEF Within
<1>9. ConfigOK
  BY <1>1, <1>3, <1>8 DEF ConfigOK
<1>10. CountsOK
  BY <1>1 DEF CountsOK
<1>11. CallOK
  BY <1>1 DEF CallOK, Trying
<1> QED BY <1>5, <1>7, <1>9, <1>10, <1>11 DEF OpsInv

LEMMA OpsStepKeeps ==
    ASSUME OpsInv, OpsNext
    PROVE  OpsInv'
<1>1. CASE Cancel \/ Supersede \/ \E how \in {"session", "connection"} : Rebind(how)
  BY <1>1, OwnerKeeps
<1>2. CASE \/ Take \/ BeginRun \/ ClaimRun \/ Check \/ Complete
           \/ Stop \/ Lose \/ Error \/ Release \/ Kill
  BY <1>2, ConsumerKeeps
<1>3. CASE Retry \/ (\E undo \in BOOLEAN : Edit(undo)) \/ Loop \/ Ask \/ NextCall \/ Mark
  BY <1>3, RetryKeeps, EditKeeps, LoopKeeps, AskKeeps, NextCallKeeps, MarkKeeps
<1>4. CASE Tool \/ Prepare \/ Arm \/ Guard \/ WriteFile \/ Commit
  BY <1>4, ToolKeeps, PrepareKeeps, ArmKeeps, GuardKeeps, WriteFileKeeps, CommitKeeps
<1>5. CASE Probe \/ Record \/ StorageError
  BY <1>5, ProbeKeeps, RecordKeeps, StorageErrorKeeps
<1> QED BY <1>1, <1>2, <1>3, <1>4, <1>5 DEF OpsNext

\* What the invariant says of the changes reported.
LEMMA OpsInvSuffices ==
    ASSUME OpsInv
    PROVE  ChangesAreExact
<1>1. DOMAIN effect = Calls /\ OpsTyped /\ StepsOK /\ ConfigOK /\ CountsOK
  BY DEF OpsInv, OpsTyped
<1> SUFFICES ASSUME NEW i \in Calls
             PROVE  LET of == {c \in Calls : Intent(c) = i}
                        counted == of \cap Counted
                    IN  /\ effect[i].written <= 1 + effect[i].undone
                        /\ Cardinality(counted) <= 1
                        /\ counted # {} => effect[i].written > 0
                        /\ run.status \in Settled /\ effect[i].written > effect[i].undone =>
                              counted # {} \/ \E c \in of : dispatch[c].status \in {"executing", "needs_review"}
  BY <1>1 DEF ChangesAreExact
<1> DEFINE of == {c \in Calls : Intent(c) = i}
           counted == of \cap Counted
<1>2. effect[i].written \in Nat /\ effect[i].undone \in Nat
  BY <1>1 DEF OpsTyped
<1>3. effect[i].written = effect[i].undone +
         IF \E k \in Calls : Intent(k) = i /\ Within(k, config.changes) THEN 1 ELSE 0
  BY <1>1 DEF ConfigOK
<1>4. \A c \in counted : /\ c \in Calls /\ dispatch[c].counted /\ Intent(c) = i
                         /\ steps[c].of \in Calls /\ steps[steps[c].of].of = steps[c].of
                         /\ Intent(steps[c].of) = i /\ steps[steps[c].of].status = "succeeded"
  BY <1>1, CanonicalIs DEF CountsOK, Counted
<1>5. \A c, d \in counted : c = d
  <2> SUFFICES ASSUME NEW c \in counted, NEW d \in counted PROVE c = d
    OBVIOUS
  <2>1. steps[c].of = steps[d].of
    BY <1>1, <1>4 DEF StepsOK
  <2> QED BY <1>1, <1>4, <2>1 DEF CountsOK
<1>6. Cardinality(counted) <= 1
  <2>1. CASE counted = {}
    BY <2>1, FS_EmptySet
  <2>2. CASE counted # {}
    <3>1. PICK c \in counted : TRUE
      BY <2>2
    <3>2. counted = {c}
      BY <1>5, <3>1
    <3>3. Cardinality({c}) = 1
      BY FS_Singleton
    <3> QED BY <3>2, <3>3
  <2> QED BY <2>1, <2>2
<1>7. counted # {} => effect[i].written > 0
  BY <1>1, <1>4 DEF StepsOK
<1>8. effect[i].written > effect[i].undone =>
         counted # {} \/ \E c \in of : dispatch[c].status \in {"executing", "needs_review"}
  <2> SUFFICES ASSUME effect[i].written > effect[i].undone
               PROVE  counted # {} \/ \E c \in of : dispatch[c].status \in {"executing", "needs_review"}
    OBVIOUS
  <2>1. PICK k \in Calls : Intent(k) = i /\ Within(k, config.changes)
    BY <1>2, <1>3
  <2>2. PICK c \in Calls : Vouches(c, k)
    BY <1>1, <2>1 DEF ConfigOK
  <2>3. k # 0 /\ Intent(c) = i
    BY <1>1, <2>1, <2>2, CallsAre, CanonicalIs DEF Vouches
  <2> QED BY <2>2, <2>3 DEF Vouches, Counted
<1> HIDE DEF of, counted
<1>9. effect[i].written <= 1 + effect[i].undone
  BY <1>2, <1>3
<1> QED BY <1>6, <1>7, <1>8, <1>9 DEF of, counted

RunInv == ChangesAreExact /\ (workload = "ops_run" => OpsInv)

\* The runs stay in order in every behaviour of the control plane.
LEMMA RunInvariant == Spec => []RunInv
<1>1. Init => RunInv
  <2> SUFFICES ASSUME Init PROVE RunInv
    OBVIOUS
  <2>1. CASE workload = "ops_run"
    <3>1. OpsInit(Calls)
      BY <2>1 DEF Init
    <3> QED BY <3>1, OpsStart, OpsInvSuffices DEF RunInv
  <2>2. CASE workload # "ops_run"
    <3>1. OpsInit({})
      BY <2>2 DEF Init
    <3>2. DOMAIN effect = {}
      BY <3>1 DEF OpsInit
    <3> QED BY <2>2, <3>2 DEF RunInv, ChangesAreExact
  <2> QED BY <2>1, <2>2
<1>2. RunInv /\ [Next]_vars => RunInv'
  <2> SUFFICES ASSUME RunInv, [Next]_vars PROVE RunInv'
    OBVIOUS
  <2>1. CASE UNCHANGED <<workload, opsVars>>
    <3>1. ChangesAreExact'
      BY <2>1 DEF RunInv, ChangesAreExact, Counted, Intent, opsVars
    <3>2. OpsInv => OpsInv'
      <4>1. OpsTyped => OpsTyped'
        BY <2>1 DEF OpsTyped, opsVars
      <4>2. StepsOK /\ ConfigOK => StepsOK' /\ ConfigOK'
        BY <2>1 DEF StepsOK, ConfigOK, Vouches, Intent, opsVars
      <4>3. CountsOK /\ CallOK => CountsOK' /\ CallOK'
        BY <2>1 DEF CountsOK, CallOK, opsVars
      <4> QED BY <4>1, <4>2, <4>3 DEF OpsInv
    <3> QED BY <2>1, <3>1, <3>2 DEF RunInv
  <2>2. CASE OpsRun
    <3>1. OpsInv /\ OpsNext /\ workload' = workload
      BY <2>2 DEF OpsRun, RunInv
    <3>2. OpsInv'
      BY <3>1, OpsStepKeeps
    <3>3. ChangesAreExact'
      BY <3>2, OpsInvSuffices, PTL
    <3> QED BY <3>2, <3>3 DEF RunInv
  <2> QED BY <2>1, <2>2 DEF Next, ShopSync, Accounts, Probing, vars
<1> QED BY <1>1, <1>2, PTL DEF Spec

\* A run reports what it did: whatever a model asks for, however often it is retried, recovered
\* after a kill or a storage error, said again in other words or edited meanwhile, a change is
\* written once (again only after the owner took it back), counted once and never without
\* having been written, and one in effect when the run is settled is counted, in review or
\* still marked for recovery.
THEOREM ReportsAreExact == Spec => []ChangesAreExact
<1>1. RunInv => ChangesAreExact
  BY DEF RunInv
<1> QED BY <1>1, RunInvariant, PTL

-------------------------------------------------------------------------------
(* The probe.                                                              *)

\* Replacing an attempt by another one keeps the coordinators' rows.
LEMMA AttemptIsTyped ==
    ASSUME ProbeTypeOK, NEW p \in Probers, NEW attempt \in AttemptRow, Attempt(p, attempt)
    PROVE  probers' \in [Probers -> ProberRow]
<1>1. [probers[p] EXCEPT !.attempt = attempt] \in ProberRow
  BY DEF ProbeTypeOK, ProberRow
<1>2. probers' = [probers EXCEPT ![p] = [probers[p] EXCEPT !.attempt = attempt]]
  BY DEF Attempt
<1> QED BY <1>1, <1>2 DEF ProbeTypeOK

\* It leaves the other coordinators alone.
LEMMA AttemptIsLocal ==
    ASSUME ProbeTypeOK, NEW p \in Probers, NEW attempt, Attempt(p, attempt)
    PROVE  /\ probers'[p].attempt = attempt
           /\ \A q \in Probers \ {p} : probers'[q] = probers[q]
BY DEF ProbeTypeOK, ProberRow, Attempt

\* Each step of the probe, whoever takes it, keeps the types of the row and of the
\* attempts.
LEMMA TypeIsKept ==
    ASSUME ProbeTypeOK, [ProbeNext]_probeVars
    PROVE  ProbeTypeOK'
<1> USE ProbeAssumption
<1>a. /\ NoAttempt \in AttemptRow
      /\ \A p \in Probers : probers[p] \in ProberRow /\ probers[p].attempt \in AttemptRow
  BY DEF ProbeTypeOK, ProberRow, AttemptRow, NoAttempt, Answers
<1>b. ASSUME Churn PROVE churn' \in 0..MaxChurn
  BY <1>b DEF Churn, ProbeTypeOK
<1>c. ASSUME NEW p \in Probers PROVE Abandoned(p) \in ProbeRow
  BY DEF Abandoned, ProbeTypeOK, ProbeRow
<1>1. ASSUME NEW p \in Probers, NEW force \in BOOLEAN, StartCheck(p, force)
      PROVE  ProbeTypeOK'
  <2>1. Acquired(p, probers[p].version) \in ProbeRow
    <3>1. probers[p].version \in 0..2 /\ probe.gen + 1 \in 0..MaxClaims
      BY <1>a, <1>1 DEF StartCheck, ProbeTypeOK, ProbeRow, ProberRow
    <3> QED BY <1>1, <3>1 DEF Acquired, ProbeTypeOK, ProbeRow
  <2>2. CASE Churn /\ UNCHANGED probers
    <3>1. probe' \in ProbeRow
      BY <1>1, <2>1, <2>2 DEF StartCheck, ProbeRow
    <3> QED BY <1>1, <1>b, <2>2, <3>1 DEF StartCheck, ProbeTypeOK
  <2>3. CASE /\ probe' = Acquired(p, probers[p].version)
             /\ Attempt(p, [NoAttempt EXCEPT !.pc = "claimed", !.gen = probe'.gen,
                                             !.loop = ~force])
             /\ UNCHANGED churn
    <3>1. [NoAttempt EXCEPT !.pc = "claimed", !.gen = probe'.gen, !.loop = ~force]
             \in AttemptRow
      BY <1>a, <2>1, <2>3 DEF AttemptRow, ProbeRow
    <3>2. probers' \in [Probers -> ProberRow]
      BY <2>3, <3>1, AttemptIsTyped
    <3> QED BY <1>1, <2>1, <2>3, <3>2 DEF StartCheck, ProbeTypeOK
  <2> QED BY <1>1, <2>2, <2>3 DEF StartCheck
<1>2. ASSUME NEW p \in Probers, Inspect(p)
      PROVE  ProbeTypeOK'
  <2>1. \A answer \in {0, source} :
           [probers[p].attempt EXCEPT !.pc = "asked", !.answer = answer] \in AttemptRow
    <3>1. \A answer \in {0, source} : answer \in Answers
      BY DEF ProbeTypeOK, Answers
    <3> QED BY <1>a, <3>1 DEF AttemptRow
  <2>2. [probers[p].attempt EXCEPT !.pc = "leave"] \in AttemptRow
    BY <1>a DEF AttemptRow
  <2>3. probers' \in [Probers -> ProberRow]
    <3>1. CASE Attempting(p, "leave")
      BY <2>2, <3>1, AttemptIsTyped DEF Attempting
    <3>2. ASSUME NEW answer \in {0, source},
                 Attempt(p, [probers[p].attempt EXCEPT !.pc = "asked", !.answer = answer])
          PROVE  probers' \in [Probers -> ProberRow]
      BY <2>1, <3>2, AttemptIsTyped
    <3> QED BY <1>2, <3>1, <3>2 DEF Inspect
  <2> QED BY <1>2, <2>3 DEF Inspect, ProbeTypeOK
<1>3. ASSUME NEW p \in Probers, Conclude(p)
      PROVE  ProbeTypeOK'
  <2>1. [probers[p].attempt EXCEPT !.pc = "leave"] \in AttemptRow
    BY <1>a DEF AttemptRow
  <2>2. probers' \in [Probers -> ProberRow]
    BY <1>3, <2>1, AttemptIsTyped DEF Conclude, Attempting
  <2>3. FinishedWith(probers[p].attempt.answer) \in ProbeRow
    <3>1. probers[p].attempt.answer \in Answers
      BY <1>a DEF AttemptRow
    <3> QED BY <3>1 DEF FinishedWith, ProbeTypeOK, ProbeRow
  <2> QED BY <1>3, <1>b, <2>2, <2>3 DEF Conclude, ProbeTypeOK
<1>4. ASSUME NEW p \in Probers, LeaveCheck(p)
      PROVE  ProbeTypeOK'
  <2>1. probers' \in [Probers -> ProberRow]
    BY <1>4, <1>a, AttemptIsTyped DEF LeaveCheck
  <2> QED BY <1>4, <1>b, <1>c, <2>1 DEF LeaveCheck, ProbeTypeOK
<1>5. ASSUME NEW p \in Probers, RenewLease(p)
      PROVE  ProbeTypeOK'
  <2>1. [probers[p].attempt EXCEPT !.cancelled = TRUE] \in AttemptRow
    BY <1>a DEF AttemptRow
  <2>2. probers' \in [Probers -> ProberRow]
    BY <1>5, <2>1, AttemptIsTyped DEF RenewLease
  <2> QED BY <1>5, <1>b, <2>2 DEF RenewLease, ProbeTypeOK
<1>6. ASSUME NEW p \in Probers, StopProber(p)
      PROVE  ProbeTypeOK'
  <2> DEFINE running == probers[p].attempt.pc # "idle"
             row == [probers[p] EXCEPT !.closing = TRUE, !.attempt.cancelled = running]
  <2>1. [probers[p].attempt EXCEPT !.cancelled = running] \in AttemptRow
    BY <1>a DEF AttemptRow
  <2>2. row = [probers[p] EXCEPT !.closing = TRUE,
                  !.attempt = [probers[p].attempt EXCEPT !.cancelled = running]]
    BY <1>a DEF ProberRow
  <2>3. row \in ProberRow
    BY <1>a, <2>1, <2>2 DEF ProberRow
  <2>4. probers' = [probers EXCEPT ![p] = row]
    BY <1>6 DEF StopProber, ProbeTypeOK
  <2>5. probers[p].attempt.gen \in 0..MaxClaims
    BY <1>a DEF AttemptRow
  <2> QED BY <1>6, <1>b, <1>c, <2>3, <2>4, <2>5 DEF StopProber, ProbeTypeOK
<1>7. ASSUME NEW p \in Probers, StartProber(p)
      PROVE  ProbeTypeOK'
  <2>1. [probers[p] EXCEPT !.closing = FALSE] \in ProberRow
    BY <1>a DEF ProberRow
  <2> QED BY <1>7, <2>1 DEF StartProber, ProbeTypeOK
<1>8. ASSUME NEW p \in Probers, RestartApi(p)
      PROVE  ProbeTypeOK'
  <2>1. \A version \in {1, 2} :
           [version |-> version, closing |-> FALSE, attempt |-> NoAttempt] \in ProberRow
    BY <1>a DEF ProberRow
  <2> QED BY <1>8, <1>b, <2>1 DEF RestartApi, ProbeTypeOK
<1>9. CASE Maintain
  BY <1>9 DEF Maintain, ProbeTypeOK
<1>10. CASE Publish
  BY <1>10 DEF Publish, ProbeTypeOK
<1>11. CASE LeaseRunsOut \/ CooldownEnds \/ BackoffEnds \/ IntervalPasses
  <2>1. probe' \in ProbeRow
    BY <1>11 DEF LeaseRunsOut, CooldownEnds, BackoffEnds, IntervalPasses, ProbeTypeOK, ProbeRow
  <2> QED BY <1>11, <2>1
          DEF LeaseRunsOut, CooldownEnds, BackoffEnds, IntervalPasses, ProbeTypeOK
<1>12. CASE UNCHANGED probeVars
  BY <1>12 DEF probeVars, ProbeTypeOK
<1> QED BY <1>1, <1>2, <1>3, <1>4, <1>5, <1>6, <1>7, <1>8, <1>9, <1>10, <1>11, <1>12
        DEF ProbeNext

\* Each step of the probe keeps the inductive invariant.
LEMMA ProbeInvIsKept ==
    ASSUME ProbeInv, [ProbeNext]_probeVars
    PROVE  ProbeInv'
<1> USE ProbeAssumption
<1>t. ProbeTypeOK /\ ProbeTypeOK'
  BY TypeIsKept DEF ProbeInv
<1>n. /\ source \in Nat /\ probe.found \in Nat /\ probe.gen \in Nat
      /\ probe'.gen \in Nat /\ probe'.found \in Nat
      /\ \A g \in barred : g \in Nat
      /\ \A p \in Probers : /\ probers[p].attempt.gen \in Nat
                            /\ probers[p].attempt.answer \in Nat
  BY <1>t DEF ProbeTypeOK, ProbeRow, ProberRow, AttemptRow, Answers
<1> DEFINE Rest == ClaimsAreDistinct /\ AnswersAreFresh /\ WithdrawnAreCancelled
<1> SUFFICES Rest'
  BY <1>t DEF ProbeInv
<1>r. Rest
  BY DEF ProbeInv
<1>1. ASSUME NEW p \in Probers, NEW force \in BOOLEAN, StartCheck(p, force)
      PROVE  Rest'
  <2>1. /\ probe'.gen = probe.gen + 1 /\ probe'.found = probe.found
        /\ source' = source /\ barred' = barred
        /\ probe'.owner \in {p, NoProber}
    BY <1>1, <1>t DEF StartCheck, Acquired, ProbeTypeOK, ProbeRow
  <2>2. /\ \A q \in Probers \ {p} : probers'[q] = probers[q]
        /\ \/ probers'[p] = probers[p]
           \/ /\ probers'[p].attempt.pc = "claimed" /\ probers'[p].attempt.answer = 0
              /\ probers'[p].attempt.gen = probe.gen + 1
    <3>1. CASE UNCHANGED probers
      BY <3>1
    <3>2. CASE Attempt(p, [NoAttempt EXCEPT !.pc = "claimed", !.gen = probe'.gen,
                                            !.loop = ~force])
      <4> DEFINE new == [NoAttempt EXCEPT !.pc = "claimed", !.gen = probe'.gen,
                                          !.loop = ~force]
      <4>1. new.pc = "claimed" /\ new.answer = 0 /\ new.gen = probe'.gen
        BY DEF NoAttempt
      <4>2. /\ probers'[p].attempt = new
            /\ \A q \in Probers \ {p} : probers'[q] = probers[q]
        BY <1>t, <3>2, AttemptIsLocal
      <4> QED BY <2>1, <4>1, <4>2
    <3> QED BY <1>1, <3>1, <3>2 DEF StartCheck
  <2>3. ClaimsAreDistinct'
    BY <1>n, <1>r, <2>1, <2>2 DEF ClaimsAreDistinct, WithdrawnAreCancelled
  <2>4. AnswersAreFresh'
    BY <1>n, <1>r, <2>1, <2>2 DEF AnswersAreFresh, WithdrawnAreCancelled, Mine
  <2>5. WithdrawnAreCancelled'
    BY <1>n, <1>r, <2>1, <2>2 DEF WithdrawnAreCancelled
  <2> QED BY <2>3, <2>4, <2>5
<1>2. ASSUME NEW p \in Probers, Inspect(p)
      PROVE  Rest'
  <2>1. UNCHANGED <<probe, source, barred>>
    BY <1>2 DEF Inspect
  <2>2. /\ \A q \in Probers \ {p} : probers'[q] = probers[q]
        /\ probers[p].attempt.pc = "claimed"
        /\ probers'[p].attempt.gen = probers[p].attempt.gen
        /\ probers'[p].attempt.cancelled = probers[p].attempt.cancelled
        /\ \/ /\ probers'[p].attempt.pc = "leave"
              /\ probers'[p].attempt.answer = probers[p].attempt.answer
           \/ probers'[p].attempt.answer \in {0, source}
    <3> DEFINE me == probers[p].attempt
    <3>1. me \in AttemptRow
      BY <1>t DEF ProbeTypeOK, ProberRow
    <3>2. CASE Attempting(p, "leave")
      BY <1>2, <1>t, <3>1, <3>2, AttemptIsLocal DEF Inspect, Attempting, AttemptRow
    <3>3. ASSUME NEW answer \in {0, source},
                 Attempt(p, [me EXCEPT !.pc = "asked", !.answer = answer])
          PROVE  /\ \A q \in Probers \ {p} : probers'[q] = probers[q]
                 /\ probers'[p].attempt.gen = me.gen
                 /\ probers'[p].attempt.cancelled = me.cancelled
                 /\ probers'[p].attempt.answer \in {0, source}
      <4>1. /\ probers'[p].attempt = [me EXCEPT !.pc = "asked", !.answer = answer]
            /\ \A q \in Probers \ {p} : probers'[q] = probers[q]
        BY <1>t, <3>3, AttemptIsLocal
      <4> QED BY <3>1, <4>1 DEF AttemptRow
    <3> QED BY <1>2, <3>2, <3>3 DEF Inspect
  <2>3. ClaimsAreDistinct'
    BY <1>r, <2>1, <2>2 DEF ClaimsAreDistinct
  <2>4. AnswersAreFresh'
    BY <1>n, <1>r, <2>1, <2>2 DEF AnswersAreFresh, Mine
  <2>5. WithdrawnAreCancelled'
    BY <1>r, <2>1, <2>2 DEF WithdrawnAreCancelled
  <2> QED BY <2>3, <2>4, <2>5
<1>3. ASSUME NEW p \in Probers, Conclude(p)
      PROVE  Rest'
  <2>1. /\ source' = source /\ barred' = barred /\ probe'.gen = probe.gen
        /\ \/ probe' = probe
           \/ /\ probe'.owner = NoProber
              /\ probe'.found \in {probe.found, probers[p].attempt.answer}
    BY <1>3, <1>t DEF Conclude, FinishedWith, ProbeTypeOK, ProbeRow
  <2>2. /\ \A q \in Probers \ {p} : probers'[q] = probers[q]
        /\ probers[p].attempt.pc # "idle" /\ probers'[p].attempt.pc = "leave"
        /\ probers'[p].attempt.gen = probers[p].attempt.gen
        /\ probers'[p].attempt.cancelled = probers[p].attempt.cancelled
        /\ probers'[p].attempt.answer = probers[p].attempt.answer
    BY <1>3, <1>t DEF Conclude, Attempting, Attempt, ProbeTypeOK, ProberRow, AttemptRow
  <2>3. ClaimsAreDistinct'
    BY <1>r, <2>2 DEF ClaimsAreDistinct
  <2>4. AnswersAreFresh'
    BY <1>n, <1>r, <2>1, <2>2 DEF AnswersAreFresh, Mine
  <2>5. WithdrawnAreCancelled'
    BY <1>r, <2>1, <2>2 DEF WithdrawnAreCancelled
  <2> QED BY <2>3, <2>4, <2>5
<1>4. ASSUME NEW p \in Probers, LeaveCheck(p)
      PROVE  Rest'
  <2>1. /\ source' = source /\ barred' = barred
        /\ probe'.gen = probe.gen /\ probe'.found = probe.found
        /\ probe'.owner \in {probe.owner, NoProber}
    BY <1>4, <1>t DEF LeaveCheck, Abandoned, ProbeTypeOK, ProbeRow
  <2>2. /\ \A q \in Probers \ {p} : probers'[q] = probers[q]
        /\ probers'[p].attempt = NoAttempt
    BY <1>4, <1>t DEF LeaveCheck, Attempt, ProbeTypeOK, ProberRow
  <2>3. ClaimsAreDistinct'
    BY <1>r, <2>2 DEF ClaimsAreDistinct, NoAttempt
  <2>4. AnswersAreFresh'
    BY <1>n, <1>r, <2>1, <2>2 DEF AnswersAreFresh, Mine, NoAttempt
  <2>5. WithdrawnAreCancelled'
    BY <1>n, <1>r, <2>1, <2>2 DEF WithdrawnAreCancelled, NoAttempt
  <2> QED BY <2>3, <2>4, <2>5
<1>5. ASSUME NEW p \in Probers, RenewLease(p)
      PROVE  Rest'
  <2>1. UNCHANGED <<probe, source, barred>>
    BY <1>5 DEF RenewLease
  <2>2. /\ \A q \in Probers \ {p} : probers'[q] = probers[q]
        /\ probers'[p].attempt.pc = probers[p].attempt.pc
        /\ probers'[p].attempt.gen = probers[p].attempt.gen
        /\ probers'[p].attempt.answer = probers[p].attempt.answer
        /\ probers'[p].attempt.cancelled
    BY <1>5, <1>t DEF RenewLease, Attempt, ProbeTypeOK, ProberRow, AttemptRow
  <2>3. ClaimsAreDistinct'
    BY <1>r, <2>2 DEF ClaimsAreDistinct
  <2>4. AnswersAreFresh'
    BY <1>r, <2>1, <2>2 DEF AnswersAreFresh, Mine
  <2>5. WithdrawnAreCancelled'
    BY <1>r, <2>1, <2>2 DEF WithdrawnAreCancelled
  <2> QED BY <2>3, <2>4, <2>5
<1>6. ASSUME NEW p \in Probers, StopProber(p)
      PROVE  Rest'
  <2>1. /\ source' = source
        /\ probe'.gen = probe.gen /\ probe'.found = probe.found
        /\ probe'.owner \in {probe.owner, NoProber}
        /\ \/ barred' = barred
           \/ /\ probers[p].attempt.pc # "idle"
              /\ barred' = barred \cup {probers[p].attempt.gen}
    BY <1>6, <1>t DEF StopProber, Abandoned, ProbeTypeOK, ProbeRow
  <2>2. /\ \A q \in Probers \ {p} : probers'[q] = probers[q]
        /\ probers'[p].attempt.pc = probers[p].attempt.pc
        /\ probers'[p].attempt.gen = probers[p].attempt.gen
        /\ probers'[p].attempt.answer = probers[p].attempt.answer
        /\ probers'[p].attempt.pc # "idle" => probers'[p].attempt.cancelled
    BY <1>6, <1>t DEF StopProber, ProbeTypeOK, ProberRow, AttemptRow
  <2>3. ClaimsAreDistinct'
    BY <1>r, <2>2 DEF ClaimsAreDistinct
  <2>4. AnswersAreFresh'
    BY <1>r, <2>1, <2>2 DEF AnswersAreFresh, Mine
  <2>5. WithdrawnAreCancelled'
    BY <1>n, <1>r, <2>1, <2>2 DEF WithdrawnAreCancelled, ClaimsAreDistinct
  <2> QED BY <2>3, <2>4, <2>5
<1>7. ASSUME NEW p \in Probers, StartProber(p)
      PROVE  Rest'
  <2>1. \A q \in Probers : probers'[q].attempt = probers[q].attempt
    BY <1>7, <1>t DEF StartProber, ProbeTypeOK, ProberRow
  <2> QED BY <1>7, <1>r, <2>1
          DEF StartProber, ClaimsAreDistinct, AnswersAreFresh, WithdrawnAreCancelled, Mine
<1>8. ASSUME NEW p \in Probers, RestartApi(p)
      PROVE  Rest'
  <2>1. /\ UNCHANGED <<probe, source, barred>>
        /\ \A q \in Probers \ {p} : probers'[q] = probers[q]
        /\ probers'[p].attempt = NoAttempt
    BY <1>8, <1>t DEF RestartApi, ProbeTypeOK, ProberRow
  <2>2. ClaimsAreDistinct'
    BY <1>r, <2>1 DEF ClaimsAreDistinct, NoAttempt
  <2>3. AnswersAreFresh'
    BY <1>n, <1>r, <2>1 DEF AnswersAreFresh, Mine, NoAttempt
  <2>4. WithdrawnAreCancelled'
    BY <1>n, <1>r, <2>1 DEF WithdrawnAreCancelled, NoAttempt
  <2> QED BY <2>2, <2>3, <2>4
<1>9. CASE Maintain \/ UNCHANGED probeVars
  BY <1>9, <1>r DEF Maintain, probeVars, ClaimsAreDistinct, AnswersAreFresh,
                    WithdrawnAreCancelled, Mine
<1>10. CASE Publish
  BY <1>10, <1>n, <1>r DEF Publish, ClaimsAreDistinct, AnswersAreFresh,
                           WithdrawnAreCancelled, Mine
<1>11. CASE LeaseRunsOut \/ CooldownEnds \/ BackoffEnds \/ IntervalPasses
  <2>1. /\ UNCHANGED <<source, probers, barred>>
        /\ probe'.gen = probe.gen /\ probe'.found = probe.found
        /\ probe'.owner = probe.owner
    BY <1>11, <1>t
    DEF LeaseRunsOut, CooldownEnds, BackoffEnds, IntervalPasses, ProbeTypeOK, ProbeRow
  <2> QED BY <1>r, <2>1 DEF ClaimsAreDistinct, AnswersAreFresh, WithdrawnAreCancelled, Mine
<1> QED BY <1>1, <1>2, <1>3, <1>4, <1>5, <1>6, <1>7, <1>8, <1>9, <1>10, <1>11 DEF ProbeNext

\* The stored discovery changes only by a commit of the newest claim, which is neither
\* withdrawn nor older than what it replaces.
LEMMA StepAdvances ==
    ASSUME ProbeInv, ProbeNext, probe'.found # probe.found
    PROVE  probe'.found > probe.found /\ probe.gen \notin barred
<1> USE ProbeAssumption
<1>t. ProbeTypeOK
  BY DEF ProbeInv
<1>1. PICK p \in Probers : Conclude(p)
  <2>1. ASSUME NEW p \in Probers, NEW force \in BOOLEAN, StartCheck(p, force)
        PROVE  probe'.found = probe.found
    BY <1>t, <2>1 DEF StartCheck, Acquired, ProbeTypeOK, ProbeRow
  <2>2. ASSUME NEW p \in Probers, LeaveCheck(p) \/ StopProber(p)
        PROVE  probe'.found = probe.found
    BY <1>t, <2>2 DEF LeaveCheck, StopProber, Abandoned, ProbeTypeOK, ProbeRow
  <2>3. ASSUME NEW p \in Probers,
               Inspect(p) \/ RenewLease(p) \/ StartProber(p) \/ RestartApi(p)
        PROVE  probe'.found = probe.found
    BY <2>3 DEF Inspect, RenewLease, StartProber, RestartApi
  <2>4. CASE Maintain \/ Publish
    BY <2>4 DEF Maintain, Publish
  <2>5. CASE LeaseRunsOut \/ CooldownEnds \/ BackoffEnds \/ IntervalPasses
    BY <1>t, <2>5
    DEF LeaseRunsOut, CooldownEnds, BackoffEnds, IntervalPasses, ProbeTypeOK, ProbeRow
  <2> QED BY <2>1, <2>2, <2>3, <2>4, <2>5 DEF ProbeNext
<1>2. /\ probers[p].attempt.pc = "asked" /\ ~probers[p].attempt.cancelled
      /\ Mine(p)
      /\ probers[p].attempt.answer # 0 /\ probe'.found = probers[p].attempt.answer
  BY <1>1, <1>t DEF Conclude, FencedBy, FinishedWith, ProbeTypeOK, ProbeRow
<1>3. probe.gen \notin barred
  BY <1>2 DEF ProbeInv, WithdrawnAreCancelled, Mine
<1>4. probe.found <= probe'.found
  BY <1>2 DEF ProbeInv, AnswersAreFresh
<1>5. probe.found \in Nat /\ probe'.found \in Nat
  BY <1>2, <1>t DEF ProbeTypeOK, ProbeRow, ProberRow, AttemptRow, Answers
<1> QED BY <1>3, <1>4, <1>5

\* The invariant holds of every behaviour of the probe, for any number of API
\* processes: claims are distinct, answers that may be committed are fresh, withdrawn
\* attempts are cancelled.
THEOREM ProbeIsFenced == ProbeSpec => []ProbeInv
<1>1. ProbeInit => ProbeInv
  <2> SUFFICES ASSUME ProbeInit PROVE ProbeInv
    OBVIOUS
  <2> USE ProbeAssumption
  <2>1. NoAttempt \in AttemptRow
    BY DEF NoAttempt, AttemptRow, Answers
  <2>2. probe \in ProbeRow
    BY DEF ProbeInit, ProbeRow, Answers
  <2>3. probers \in [Probers -> ProberRow]
    BY <2>1 DEF ProbeInit, ProberRow
  <2>4. ProbeTypeOK
    <3>1. 1 \in 1..MaxEditions /\ 0 \in 0..MaxChurn
      OBVIOUS
    <3> QED BY <2>2, <2>3, <3>1 DEF ProbeInit, ProbeTypeOK
  <2>5. ClaimsAreDistinct /\ AnswersAreFresh /\ WithdrawnAreCancelled
    BY DEF ProbeInit, NoAttempt, ClaimsAreDistinct, AnswersAreFresh, WithdrawnAreCancelled
  <2> QED BY <2>4, <2>5 DEF ProbeInv
<1>2. ProbeInv /\ [ProbeNext]_probeVars => ProbeInv'
  BY ProbeInvIsKept
<1> QED BY <1>1, <1>2, PTL DEF ProbeSpec

\* For any number of API processes, claims and answers of the source, a discovery is
\* never replaced by an older one nor by one whose attempt stop() withdrew.
THEOREM DiscoveriesNeverGoBack == ProbeSpec => DiscoveriesAdvance
<1>1. ProbeInv /\ [ProbeNext]_probeVars =>
         [probe'.found # probe.found =>
             probe'.found > probe.found /\ probe.gen \notin barred]_probeVars
  BY StepAdvances
<1> QED BY <1>1, ProbeIsFenced, PTL DEF ProbeSpec, DiscoveriesAdvance
===============================================================================
