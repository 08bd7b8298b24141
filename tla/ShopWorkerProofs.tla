--------------------------- MODULE ShopWorkerProofs ---------------------------
(***************************************************************************)
(* The shop worker beside its order fulfilment, for any number of messages,*)
(* manual replies, images, retries and restarts.                           *)
(*                                                                         *)
(* The session: an answer that asks for a person is never written over.    *)
(* HoldIsKept speaks of one file; SessionInv says why it stands: nothing   *)
(* that could write the file is left (Frozen) - no request is out, the     *)
(* main loop knows that it has been stopped or does not run, and it cannot *)
(* get past its registration.                                              *)
(*                                                                         *)
(* The conversations: TalkInv is one invariant per table.  A ledger row    *)
(* says exactly what left for the buyer, because the handler carries the   *)
(* draft that is stored and counts its bubbles (OnDraft).  A side whose    *)
(* turn is over sends at most what it had already checked (TurnInv).  The  *)
(* courier of manual replies is at the first part that is not recorded     *)
(* (CourierOK), and what an open reply still needs is on disk (ImagesInv). *)
(* Each is kept by its own lemma; a step is cited as what it does to a row *)
(* (Follows, Keeps), so that the steps of the other tasks are short.       *)
(*                                                                         *)
(* Last, the worker process: what Fulfillment promises holds in it too.    *)
(***************************************************************************)
EXTENDS ShopWorker, FulfillmentProofs

-------------------------------------------------------------------------------
(* The platform session.                                                   *)

Phases == {"UNCONFIGURED", "WS_REGISTERED", "SESSION_VALID", "TOKEN_VALID", "DEGRADED",
           "NEEDS_HUMAN"}
AuthRow == [phase : Phases, hold : BOOLEAN]
LiveRow == [pc : {"down", "top", "wait", "token", "connect", "register", "run", "cleanup",
                  "pause"},
            ws : {"none", "open", "closed"}, ready : BOOLEAN, stopped : BOOLEAN,
            fatal : BOOLEAN, token : BOOLEAN, due : BOOLEAN, restart : BOOLEAN,
            jittered : BOOLEAN, served : BOOLEAN]
AskingRow == [by : {"none", "startup", "loop"}, stage : {"none", "token", "login", "again"}]
MarkRow == [held : BOOLEAN, during : BOOLEAN, asked : BOOLEAN]

SessionTypeOK ==
    /\ auth \in AuthRow
    /\ live \in LiveRow
    /\ asking \in AskingRow
    /\ mark \in MarkRow

(* A hold that no request can write over.                                  *)
HoldStands == mark.held /\ ~mark.during

(* No step towards the platform is left: every request is over, the main   *)
(* loop knows of the hold or does not run, and cannot register any more.   *)
Frozen ==
    /\ auth.hold /\ ~live.ready /\ ~mark.asked
    /\ asking.by = "none"
    /\ live.pc = "down" \/ live.stopped
    /\ live.pc = "register" => live.ws # "open"

HoldOK ==
    /\ mark.asked => mark.held
    /\ HoldStands => Frozen

SessionInv == SessionTypeOK /\ HoldOK

\* Without an answer that asks for a person, the auth status file is written with a phase
\* and no hold, or left alone.
Files == (\E p \in Phases : File(p)) \/ UNCHANGED auth

\* Whatever a step files, the phase is one that auth_status.json can hold.
LEMMA FilesAreTyped ==
    ASSUME SessionTypeOK, Files
    PROVE  auth' \in AuthRow
<1>1. ASSUME NEW p \in Phases, File(p) PROVE auth' \in AuthRow
  BY <1>1 DEF File, AuthRow
<1> QED BY <1>1 DEF Files, SessionTypeOK

\* A new token request leaves the hold as it is and notes whether one stood.
LEMMA RequestsAreTyped ==
    ASSUME SessionTypeOK, NEW by \in {"startup", "loop"}, Ask(by)
    PROVE  /\ asking' \in AskingRow /\ mark' \in MarkRow
           /\ Files
           /\ mark'.asked = (mark.asked \/ mark.held)
           /\ mark'.held = mark.held /\ mark'.during = mark.during
<1>1. asking' \in AskingRow
  BY DEF Ask, AskingRow
<1>2. mark' \in MarkRow
  BY DEF Ask, MarkRow, SessionTypeOK
<1>3. Files
  BY DEF Ask, Files, Phases
<1>4. /\ mark'.asked = (mark.asked \/ mark.held)
      /\ mark'.held = mark.held /\ mark'.during = mark.during
  BY DEF Ask, SessionTypeOK, MarkRow
<1> QED BY <1>1, <1>2, <1>3, <1>4

\* A token request is only begun while nobody asks for a person, on the way to a token.
LEMMA StartupTokenIsGood ==
    ASSUME SessionInv, NEW row \in LiveRow, StartupToken(row),
           live.pc # "down",
           row.stopped = live.stopped, row.ready = live.ready
    PROVE  SessionInv'
<1>1. CASE Barred
  <2>1. live' = [Fatal(row) EXCEPT !.stopped = TRUE] /\ UNCHANGED <<auth, asking, mark>>
    BY <1>1 DEF StartupToken
  <2>2. live' \in LiveRow /\ live'.stopped /\ live'.ready = live.ready /\ live'.pc = "cleanup"
    BY <2>1 DEF Fatal, LiveRow
  <2>3. SessionTypeOK'
    BY <2>1, <2>2 DEF SessionInv, SessionTypeOK
  <2> QED BY <2>1, <2>2, <2>3 DEF SessionInv, HoldOK, HoldStands, Frozen
<1>2. CASE ~Barred /\ row.token /\ ~row.due
  <2>1. live' = Connect(row) /\ File("TOKEN_VALID") /\ UNCHANGED <<asking, mark>>
    BY <1>2 DEF StartupToken
  <2>2. live' \in LiveRow
    BY <2>1 DEF Connect, LiveRow
  <2>3. auth' \in AuthRow
    BY <2>1, FilesAreTyped DEF Files, Phases, SessionInv
  <2>4. ~HoldStands
    BY <1>2 DEF Barred, SessionInv, HoldOK, Frozen
  <2> QED BY <2>1, <2>2, <2>3, <2>4 DEF SessionInv, SessionTypeOK, HoldOK, HoldStands
<1>3. CASE ~Barred /\ ~(row.token /\ ~row.due)
  <2>1. live' = [row EXCEPT !.pc = "token"] /\ Ask("startup")
    BY <1>3 DEF StartupToken
  <2>2. live' \in LiveRow
    BY <2>1 DEF LiveRow
  <2>3. ~HoldStands
    BY <1>3 DEF Barred, SessionInv, HoldOK, Frozen
  <2>4. /\ asking' \in AskingRow /\ mark' \in MarkRow /\ Files
        /\ mark'.asked = (mark.asked \/ mark.held)
        /\ mark'.held = mark.held /\ mark'.during = mark.during
    BY <2>1, RequestsAreTyped DEF SessionInv
  <2>5. auth' \in AuthRow
    BY <2>4, FilesAreTyped DEF SessionInv
  <2> QED BY <2>2, <2>3, <2>4, <2>5 DEF SessionInv, SessionTypeOK, HoldOK, HoldStands
<1> QED BY <1>1, <1>2, <1>3

\* A step that records no hold keeps the invariant if it leaves a held session frozen.
LEMMA QuietStep ==
    ASSUME SessionInv, Files, live' \in LiveRow, asking' \in AskingRow, UNCHANGED mark,
           HoldStands => /\ UNCHANGED auth /\ ~live'.ready /\ asking'.by = "none"
                         /\ live'.pc = "down" \/ live'.stopped
                         /\ live'.pc = "register" => live'.ws # "open"
    PROVE  SessionInv'
<1>1. auth' \in AuthRow
  BY FilesAreTyped DEF SessionInv
<1>2. SessionTypeOK'
  BY <1>1 DEF SessionInv, SessionTypeOK
<1>3. HoldStands' = HoldStands
  BY DEF HoldStands
<1>4. HoldStands => Frozen'
  BY DEF SessionInv, HoldOK, Frozen
<1> QED BY <1>2, <1>3, <1>4 DEF SessionInv, HoldOK

\* A hold is recorded by a task whose answer closes the connection and opens the circuit.
LEMMA HoldingStep ==
    ASSUME SessionInv, NEW during \in BOOLEAN, HoldFile(during), live' \in LiveRow,
           asking' \in AskingRow, ~live'.ready, live'.stopped, live'.ws # "open",
           during \/ asking'.by = "none",
           HoldStands => asking.by = "none" /\ ~during
    PROVE  SessionInv'
<1>1. auth' = [phase |-> "NEEDS_HUMAN", hold |-> TRUE]
  BY DEF HoldFile
<1>2. auth' \in AuthRow /\ auth'.hold
  BY <1>1 DEF AuthRow, Phases
<1>3. mark' \in MarkRow /\ mark'.held /\ mark'.during = (mark.during \/ during)
      /\ mark'.asked = mark.asked
  BY DEF HoldFile, MarkRow, SessionInv, SessionTypeOK
<1>4. SessionTypeOK'
  BY <1>2, <1>3 DEF SessionTypeOK
<1>5. HoldStands' => ~mark.asked
  BY <1>3 DEF HoldStands, SessionInv, HoldOK, Frozen
<1>6. HoldStands' => asking'.by = "none"
  BY <1>3 DEF HoldStands
<1>7. HoldStands' => Frozen'
  BY <1>2, <1>3, <1>5, <1>6 DEF Frozen
<1> QED BY <1>3, <1>4, <1>7 DEF SessionInv, HoldOK

\* A session that stops is neither ready nor connected.
LEMMA StoppedIsSafe ==
    ASSUME NEW row \in LiveRow
    PROVE  /\ Stopped(row) \in LiveRow
           /\ Stopped(row).stopped /\ ~Stopped(row).ready /\ Stopped(row).ws # "open"
BY DEF Stopped, LiveRow

\* Every answer to a token request keeps the session's invariant.
LEMMA TokenStepIsGood ==
    ASSUME SessionInv, NEW code \in Answers, TokenAnswer(code)
    PROVE  SessionInv'
<1>1. asking.by # "none" /\ ~HoldStands
  BY DEF TokenAnswer, SessionInv, HoldOK, Frozen
<1>2. Nobody \in AskingRow /\ Nobody.by = "none" /\ live \in LiveRow /\ asking \in AskingRow
  BY DEF Nobody, AskingRow, SessionInv, SessionTypeOK
<1>3. CASE NewToken
  <2>1. Files /\ UNCHANGED mark
    BY <1>3 DEF NewToken, Files, Phases
  <2>2. live' \in LiveRow /\ asking' \in AskingRow
    BY <1>2, <1>3 DEF NewToken, Connect, LiveRow
  <2> QED BY <1>1, <2>1, <2>2, QuietStep
<1>4. CASE NoToken
  <2>1. Files /\ UNCHANGED mark
    BY <1>4 DEF NoToken, Files, Phases
  <2>2. live' \in LiveRow /\ asking' \in AskingRow
    BY <1>2, <1>4 DEF NoToken, Connect, LiveRow
  <2> QED BY <1>1, <2>1, <2>2, QuietStep
<1>5. CASE RefusedToken
  <2>1. HoldFile(FALSE) /\ asking' \in AskingRow /\ asking'.by = "none"
    BY <1>2, <1>5 DEF RefusedToken
  <2>2. /\ Stopped(live) \in LiveRow
        /\ Stopped(live).stopped /\ ~Stopped(live).ready /\ Stopped(live).ws # "open"
    BY <1>2, StoppedIsSafe
  <2>3. live' \in {Stopped(live), Fatal(Stopped(live))}
    BY <1>5 DEF RefusedToken
  <2>4. live' \in LiveRow /\ live'.stopped /\ ~live'.ready /\ live'.ws # "open"
    BY <2>2, <2>3 DEF Fatal, LiveRow
  <2> QED BY <1>1, <2>1, <2>4, HoldingStep
<1>6. CASE /\ \E stage \in {"login", "again"} : asking' = [asking EXCEPT !.stage = stage]
           /\ UNCHANGED <<auth, live, refresher, mark>>
  <2>1. asking' \in AskingRow /\ Files
    BY <1>2, <1>6 DEF AskingRow, Files
  <2> QED BY <1>1, <1>2, <1>6, <2>1, QuietStep
<1> QED BY <1>3, <1>4, <1>5, <1>6 DEF TokenAnswer

\* Every step of the session keeps it, those of the token requests and the main loop
\* included.
LEMMA SessionInvIsKept ==
    ASSUME SessionInv, [SessionNext]_sessionVars
    PROVE  SessionInv'
<1>a. live \in LiveRow /\ asking \in AskingRow /\ Down \in LiveRow /\ Nobody \in AskingRow
  BY DEF SessionInv, SessionTypeOK, Down, Nobody, LiveRow, AskingRow
<1>b. /\ HoldStands => Frozen
      /\ Nobody.by = "none" /\ Down.pc = "down" /\ ~Down.ready
  BY DEF SessionInv, HoldOK, Down, Nobody
<1>1. CASE UNCHANGED sessionVars
  BY <1>a, <1>b, <1>1, QuietStep DEF sessionVars, Files, Frozen
<1>2. CASE EnsureToken
  <2> DEFINE row == [live EXCEPT !.restart = FALSE]
  <2>1. row \in LiveRow /\ row.stopped = live.stopped /\ row.ready = live.ready
    BY <1>a DEF LiveRow
  <2>2. CASE StartupToken(row)
    BY <1>2, <2>1, <2>2, StartupTokenIsGood DEF EnsureToken
  <2>3. CASE /\ live' = [row EXCEPT !.pc = "wait", !.jittered = TRUE]
             /\ UNCHANGED <<auth, asking, mark>>
    <3>1. live' \in LiveRow /\ live'.stopped = live.stopped /\ live'.ready = live.ready
          /\ live'.pc = "wait"
      BY <2>1, <2>3 DEF LiveRow
    <3>2. live.pc = "top"
      BY <1>2 DEF EnsureToken
    <3> QED BY <1>a, <1>b, <2>3, <3>1, <3>2, QuietStep DEF Frozen, Files
  <2> QED BY <1>2, <2>2, <2>3 DEF EnsureToken
<1>3. CASE WaitOver
  BY <1>a, <1>3, StartupTokenIsGood DEF WaitOver
<1>4. CASE RefreshDue
  <2>1. live' \in LiveRow /\ \A f \in {"pc", "ready", "stopped", "ws"} : live'[f] = live[f]
    BY <1>a, <1>4 DEF RefreshDue, LiveRow
  <2> QED BY <1>a, <1>b, <1>4, <2>1, QuietStep DEF RefreshDue, Frozen, Files
<1>5. CASE LoopWakes
  <2>1. CASE Barred
    <3>1. live' \in LiveRow /\ \A f \in {"pc", "ready", "ws"} : live'[f] = live[f]
          /\ live'.stopped
      BY <1>a, <1>5, <2>1 DEF LoopWakes, LiveRow
    <3> QED BY <1>a, <1>b, <1>5, <2>1, <3>1, QuietStep DEF LoopWakes, Frozen, Files
  <2>2. CASE ~Barred
    <3>1. Ask("loop") /\ UNCHANGED live
      BY <1>5, <2>2 DEF LoopWakes
    <3>2. /\ asking' \in AskingRow /\ mark' \in MarkRow /\ Files
          /\ mark'.asked = (mark.asked \/ mark.held)
          /\ mark'.held = mark.held /\ mark'.during = mark.during
      BY <3>1, RequestsAreTyped DEF SessionInv
    <3>3. ~HoldStands
      BY <1>b, <2>2 DEF Barred, Frozen
    <3>4. auth' \in AuthRow
      BY <3>2, FilesAreTyped DEF SessionInv
    <3> QED BY <1>a, <3>1, <3>2, <3>3, <3>4 DEF SessionInv, SessionTypeOK, HoldOK, HoldStands
  <2> QED BY <2>1, <2>2
<1>6. ASSUME NEW code \in Answers, TokenAnswer(code) PROVE SessionInv'
  BY <1>6, TokenStepIsGood
<1>7. CASE HandshakeAnswer
  <2>1. Files
    BY <1>7 DEF HandshakeAnswer, Reported, Files, Phases
  <2>2. live.pc = "connect" /\ UNCHANGED <<asking, mark>>
    BY <1>7 DEF HandshakeAnswer
  <2>3. live' \in LiveRow /\ live'.ready = live.ready /\ live'.stopped = live.stopped
    BY <1>a, <1>7 DEF HandshakeAnswer, Fatal, LiveRow
  <2>4. auth.hold => live'.pc = "cleanup"
    BY <1>a, <1>7 DEF HandshakeAnswer, Fatal, LiveRow
  <2>5. auth.hold /\ live.stopped => UNCHANGED auth
    BY <1>7 DEF HandshakeAnswer, Reported, MayReportLoss
  <2> QED BY <1>a, <1>b, <2>1, <2>2, <2>3, <2>4, <2>5, QuietStep DEF Frozen
<1>8. CASE Register
  <2>1. live' \in LiveRow /\ Files /\ UNCHANGED <<asking, mark>>
    BY <1>a, <1>8 DEF Register, LiveRow, Files, Phases
  <2>2. ~HoldStands
    BY <1>b, <1>8 DEF Register, Frozen
  <2> QED BY <1>a, <2>1, <2>2, QuietStep
<1>9. CASE ConnectionLost
  <2>1. live' \in LiveRow /\ live'.ws = "closed" /\ Files
        /\ \A f \in {"pc", "ready", "stopped"} : live'[f] = live[f]
    BY <1>a, <1>9 DEF ConnectionLost, LiveRow, Files
  <2> QED BY <1>a, <1>b, <1>9, <2>1, QuietStep DEF ConnectionLost, Frozen
<1>10. CASE ReaderEnds
  <2>1. live' \in LiveRow /\ live'.pc = "cleanup"
        /\ \A f \in {"ready", "stopped"} : live'[f] = live[f]
    BY <1>a, <1>10 DEF ReaderEnds, LiveRow
  <2>2. Files
    BY <1>10 DEF ReaderEnds, Reported, Files, Phases
  <2>3. live.pc # "down" /\ (live.stopped => UNCHANGED auth)
    BY <1>10 DEF ReaderEnds, Reported, MayReportLoss
  <2> QED BY <1>a, <1>b, <1>10, <2>1, <2>2, <2>3, QuietStep DEF ReaderEnds, Frozen
<1>11. CASE Cleanup
  <2>1. CASE live.fatal \/ live.stopped
    <3>1. live' = Down /\ UNCHANGED <<auth, mark>> /\ asking' = Nobody
      BY <1>11, <2>1 DEF Cleanup
    <3> QED BY <1>a, <1>b, <3>1, QuietStep DEF Files
  <2>2. CASE ~(live.fatal \/ live.stopped)
    <3>1. ~HoldStands
      BY <1>b, <1>11, <2>2 DEF Frozen, Cleanup
    <3>2. live' \in LiveRow /\ asking' \in AskingRow
      BY <1>a, <1>11, <2>2 DEF Cleanup, LiveRow
    <3>3. Files /\ UNCHANGED mark
      BY <1>11, <2>2 DEF Cleanup, Files, Phases
    <3> QED BY <3>1, <3>2, <3>3, QuietStep
  <2> QED BY <2>1, <2>2
<1>12. CASE PauseOver
  <2>1. live' \in LiveRow /\ live'.pc = "top"
        /\ \A f \in {"ready", "stopped"} : live'[f] = live[f]
    BY <1>a, <1>12 DEF PauseOver, LiveRow
  <2> QED BY <1>a, <1>b, <1>12, <2>1, QuietStep DEF PauseOver, Frozen, Files
<1>13. ASSUME NEW t \in Callers, NEW kind \in {"soft", "fatal"}, CallPlatform(t, kind)
       PROVE  SessionInv'
  BY <1>a, <1>b, <1>13, QuietStep DEF CallPlatform, Frozen, Files
<1>14. ASSUME NEW t \in Callers, NEW code \in Answers, CallAnswer(t, code)
       PROVE  SessionInv'
  <2>1. CASE UNCHANGED <<live, auth, mark>>
    BY <1>a, <1>b, <1>14, <2>1, QuietStep DEF CallAnswer, Frozen, Files
  <2>2. CASE live' = Stopped(live) /\ HoldFile(asking.by # "none")
    <3>1. live' \in LiveRow /\ live'.stopped /\ ~live'.ready /\ live'.ws # "open"
      BY <1>a, <2>2, StoppedIsSafe
    <3>2. UNCHANGED asking
      BY <1>14 DEF CallAnswer
    <3>3. HoldStands => asking.by = "none"
      BY <1>b DEF Frozen
    <3> QED BY <1>a, <2>2, <3>1, <3>2, <3>3, HoldingStep
  <2> QED BY <1>14, <2>1, <2>2 DEF CallAnswer
<1>15. CASE ClearAuthStatus
  <2>1. mark' = Unmarked /\ UNCHANGED <<live, asking>> /\ Files
    BY <1>15 DEF ClearAuthStatus, Files, Phases
  <2>2. mark' \in MarkRow /\ ~mark'.held /\ ~mark'.asked
    BY <2>1 DEF Unmarked, MarkRow
  <2>3. auth' \in AuthRow
    BY <2>1, FilesAreTyped DEF SessionInv
  <2> QED BY <1>a, <2>1, <2>2, <2>3 DEF SessionInv, SessionTypeOK, HoldOK, HoldStands
<1>16. CASE StartWorker
  <2>1. live' \in LiveRow /\ UNCHANGED <<asking, mark>> /\ Files
    BY <1>a, <1>16 DEF StartWorker, Files, Phases, LiveRow
  <2>2. ~HoldStands
    BY <1>b, <1>16 DEF StartWorker, Frozen
  <2> QED BY <1>a, <2>1, <2>2, QuietStep
<1>17. CASE StopWorker
  BY <1>a, <1>b, <1>17, QuietStep DEF StopWorker, Frozen, Files
<1> QED BY <1>1, <1>2, <1>3, <1>4, <1>5, <1>6, <1>7, <1>8, <1>9, <1>10, <1>11, <1>12,
           <1>13, <1>14, <1>15, <1>16, <1>17 DEF SessionNext

-------------------------------------------------------------------------------
(* The conversations: the invariants.                                      *)

TalkRow == [mode : BOOLEAN, allowed : BOOLEAN, revision : Nat, ai : Nat, calls : Nat,
            human : BOOLEAN, strays : Nat, up : BOOLEAN, paced : BOOLEAN,
            scope : {"owned", "foreign"}]
Proofs == [origin : {"none", "rule", "ai"}, revision : Nat, ai : Nat]
LedgerRow == [done : BOOLEAN, user : BOOLEAN,
              role : {"none", "pending", "assistant", "cancelled", "no_reply"},
              text : Nat, bubbles : Nat, tries : Nat, proof : Proofs]
HandlerRow == [pc : {"idle", "buyer", "generate", "delay", "draft", "attempt", "verify",
                     "ready", "send", "ack", "settle"},
               m : Nat, text : Nat, bubbles : Nat, proof : Proofs, again : BOOLEAN,
               k : Nat \ {0}, attempt : {1, 2}]
OutboxRow == [status : {"none", "queued", "retry", "sending", "manual_review",
                        "acknowledged"},
              tries : Nat, acked : Nat, lease : {"none", "live", "expired"}, mine : BOOLEAN]
CourierRow == [pc : {"idle", "wait", "upload", "send", "ack"}, q : Replies \cup {"none"},
               part : Nat, attempt : {1, 2}]
WireRow == [auto : [Messages -> SUBSET (Nat \X Nat)], manual : [DOMAIN outbox -> SUBSET Nat]]

TalkTypeOK ==
    /\ talk \in TalkRow
    /\ Messages \subseteq Nat
    /\ ledger \in [Messages -> LedgerRow]
    /\ handler \in HandlerRow
    /\ DOMAIN outbox \subseteq Replies
    /\ outbox \in [DOMAIN outbox -> OutboxRow]
    /\ courier \in CourierRow
    /\ images \in [DOMAIN images -> {"none", "there", "gone"}]
    /\ wire \in WireRow

(* The handler works on the draft that is stored, from its first bubble    *)
(* on, and what it has passed has left.                                    *)
Attempting == {"attempt", "verify", "ready", "send", "ack"}

OnDraft(row) ==
    /\ row.role = "pending"
    /\ handler.text = row.text /\ handler.bubbles = row.bubbles
    /\ handler.k <= row.bubbles
    /\ \A j \in 1..handler.k - 1 : <<j, row.text>> \in wire.auto[handler.m]
    /\ handler.pc = "ack" => <<handler.k, row.text>> \in wire.auto[handler.m]

HandlerOK ==
    /\ handler.pc # "idle" => handler.m \in Messages
    /\ handler.pc \in {"generate", "delay"} => ledger[handler.m].role = "none"
    /\ handler.pc = "draft" => ledger[handler.m].role \in {"none", "pending"}
    /\ handler.pc \in {"delay", "draft"} => handler.bubbles >= 1
    /\ handler.pc \in {"buyer", "generate", "delay", "draft"} => handler.k = 1
    /\ handler.pc \in Attempting => OnDraft(ledger[handler.m])

DraftsHaveText == \A m \in Messages : ledger[m].role = "pending" => ledger[m].bubbles >= 1

LedgerInv == LedgerIsTrue /\ DraftsHaveText /\ HandlerOK

(* A side whose turn is over and that has sent since has not passed its    *)
(* last check again.                                                       *)
TurnInv ==
    /\ talk.strays <= 1
    /\ talk.strays = 1 /\ talk.mode => handler.pc \notin {"ready", "send"}
    /\ talk.strays = 1 /\ ~talk.mode => courier.pc \notin {"upload", "send"}

(* The courier is at the first part of an open reply that is not recorded. *)
CourierOK ==
    courier.pc # "idle" =>
        /\ courier.q \in DOMAIN outbox
        /\ outbox[courier.q].status # "acknowledged"
        /\ courier.part = outbox[courier.q].acked + 1
        /\ courier.pc = "ack" => courier.part \in wire.manual[courier.q]

PartsInv ==
    /\ \A q \in DOMAIN outbox :
          /\ wire.manual[q] \subseteq 1..outbox[q].acked + 1
          /\ 1..outbox[q].acked \subseteq wire.manual[q]
          /\ outbox[q].acked <= Parts(q)
          /\ outbox[q].status = "acknowledged" <=> outbox[q].acked = Parts(q)
    /\ CourierOK

(* Every image of a reply is known.                                        *)
ImagesInv ==
    /\ \A q \in DOMAIN outbox : \A j \in DOMAIN MediaOf[q] : MediaOf[q][j] \in DOMAIN images
    /\ ImagesAreKept

TalkInv == TalkTypeOK /\ LedgerInv /\ TurnInv /\ PartsInv /\ ImagesInv

-------------------------------------------------------------------------------
(* The conversations: the handler and its ledger.                          *)

(* What a row says of the bubbles that left.                               *)
RowIsTrue(row, out) ==
    LET full == {<<k, row.text>> : k \in 1..row.bubbles}
    IN  /\ out \subseteq full
        /\ row.role = "assistant" => out = full
        /\ row.role \in {"none", "no_reply"} => out = {}
        /\ row.role = "pending" => row.bubbles >= 1

(* The new row keeps the draft; an outcome is only set where there was     *)
(* none.                                                                   *)
Follows(row, new) ==
    /\ new \in LedgerRow
    /\ new.text = row.text /\ new.bubbles = row.bubbles
    /\ \/ new.role = row.role
       \/ row.role = "pending" /\ new.role = "cancelled"
       \/ row.role = "none" /\ new.role \in {"cancelled", "no_reply"}

\* The ledger is true row by row.
LEMMA RowsAreTrue ==
    LedgerInv <=> HandlerOK /\ \A m \in Messages : RowIsTrue(ledger[m], wire.auto[m])
BY DEF LedgerInv, LedgerIsTrue, DraftsHaveText, RowIsTrue

\* A row that follows a true row is true of the same bubbles.
LEMMA FollowersAreTrue ==
    ASSUME NEW row, NEW new, NEW out, Follows(row, new), RowIsTrue(row, out)
    PROVE  RowIsTrue(new, out)
BY DEF Follows, RowIsTrue

\* None of the ways to end an event contradicts what has left.
LEMMA OutcomesFollow ==
    ASSUME NEW row \in LedgerRow
    PROVE  /\ Follows(row, row) /\ Follows(row, Kept(row)) /\ Follows(row, Cancelled(row))
           /\ Follows(row, Recorded(row, "no_reply")) /\ Follows(row, SuppressReply(row))
           /\ Follows(row, [row EXCEPT !.proof = NoProof])
           /\ Follows(row, [row EXCEPT !.tries = @ + 1])
           /\ \A proof \in Proofs : Follows(row, [row EXCEPT !.proof = proof])
           /\ Kept(row).role = row.role /\ [row EXCEPT !.tries = @ + 1].role = row.role
           /\ \A proof \in Proofs : [row EXCEPT !.proof = proof].role = row.role
<1>0. NoProof \in Proofs
  BY DEF NoProof, Proofs
<1>1. Follows(row, row)
  BY DEF Follows
<1>2. Follows(row, Kept(row)) /\ Kept(row).role = row.role
  BY DEF Follows, Kept, LedgerRow
<1>3. Follows(row, Cancelled(row))
  BY <1>0, <1>1 DEF Follows, Cancelled, LedgerRow
<1>4. \A role \in {"cancelled", "no_reply"} : Follows(row, Recorded(row, role))
  BY <1>1 DEF Follows, Recorded, LedgerRow
<1>5. Follows(row, SuppressReply(row))
  BY <1>3, <1>4 DEF SuppressReply
<1>6. /\ Follows(row, [row EXCEPT !.tries = @ + 1])
      /\ [row EXCEPT !.tries = @ + 1].role = row.role
  BY DEF Follows, LedgerRow
<1>7. ASSUME NEW proof \in Proofs
      PROVE  /\ Follows(row, [row EXCEPT !.proof = proof])
             /\ [row EXCEPT !.proof = proof].role = row.role
  BY DEF Follows, LedgerRow
<1> QED BY <1>0, <1>1, <1>2, <1>3, <1>4, <1>5, <1>6, <1>7

\* An outcome is set at most once.
LEMMA FollowingIsTransitive ==
    ASSUME NEW a, NEW b, NEW c, Follows(a, b), Follows(b, c),
           b.role = a.role \/ c.role = b.role
    PROVE  Follows(a, c)
BY DEF Follows

(* What a step of the handler has to show.                                 *)
HandlerGood ==
    /\ Messages' = Messages
    /\ ledger' \in [Messages -> LedgerRow]
    /\ handler' \in HandlerRow
    /\ HandlerOK'
    /\ \A m \in Messages : RowIsTrue(ledger'[m], wire'.auto[m])

\* The row of a message is replaced by one that is true.
LEMMA RowIsReplaced ==
    ASSUME TalkTypeOK, LedgerInv, NEW m \in Messages, NEW row \in LedgerRow,
           ledger' = [ledger EXCEPT ![m] = row], UNCHANGED wire,
           RowIsTrue(row, wire.auto[m])
    PROVE  /\ Messages' = Messages /\ ledger' \in [Messages -> LedgerRow]
           /\ ledger'[m] = row
           /\ \A n \in Messages : RowIsTrue(ledger'[n], wire'.auto[n])
<1>1. /\ Messages' = Messages /\ ledger' \in [Messages -> LedgerRow] /\ ledger'[m] = row
      /\ \A n \in Messages \ {m} : ledger'[n] = ledger[n]
  BY DEF TalkTypeOK, Messages
<1>2. \A n \in Messages : RowIsTrue(ledger[n], wire.auto[n])
  BY RowsAreTrue
<1> QED BY <1>1, <1>2

\* A message that is closed leaves its row in order.
LEMMA CloseIsGood ==
    ASSUME TalkTypeOK, LedgerInv, NEW m \in Messages, NEW row, Follows(ledger[m], row),
           Close(m, row), UNCHANGED wire
    PROVE  HandlerGood
<1> DEFINE new == [row EXCEPT !.done = TRUE]
<1>1. Follows(ledger[m], new) /\ new \in LedgerRow
  BY DEF Follows, LedgerRow
<1>2. RowIsTrue(new, wire.auto[m])
  BY <1>1, RowsAreTrue, FollowersAreTrue
<1>3. ledger' = [ledger EXCEPT ![m] = new] /\ handler' = Resting
  BY DEF Close
<1> HIDE DEF new
<1>4. handler' \in HandlerRow /\ HandlerOK'
  BY <1>3 DEF Resting, HandlerRow, HandlerOK, NoProof, Proofs, Attempting
<1> QED BY <1>1, <1>2, <1>3, <1>4, RowIsReplaced DEF HandlerGood

\* A handler that has not begun to send may go on with a row that follows.
LEMMA ThinkingIsGood ==
    ASSUME TalkTypeOK, LedgerInv, NEW m \in Messages, NEW row, Follows(ledger[m], row),
           ledger' = [ledger EXCEPT ![m] = row], UNCHANGED wire,
           handler' \in HandlerRow, handler'.m = m, handler'.k = 1,
           handler'.pc \in {"buyer", "generate", "delay", "draft"},
           handler'.pc \in {"generate", "delay"} => row.role = "none",
           handler'.pc = "draft" => row.role \in {"none", "pending"},
           handler'.pc \in {"delay", "draft"} => handler'.bubbles >= 1
    PROVE  HandlerGood
<1>1. row \in LedgerRow /\ RowIsTrue(row, wire.auto[m])
  BY RowsAreTrue, FollowersAreTrue DEF Follows
<1>2. /\ Messages' = Messages /\ ledger' \in [Messages -> LedgerRow]
      /\ ledger'[m] = row
      /\ \A n \in Messages : RowIsTrue(ledger'[n], wire'.auto[n])
  BY <1>1, RowIsReplaced
<1>3. HandlerOK'
  BY <1>2 DEF HandlerOK, Attempting
<1> QED BY <1>2, <1>3 DEF HandlerGood

\* An attempt goes on with the draft that is stored.
LEMMA AttemptIsGood ==
    ASSUME TalkTypeOK, LedgerInv, handler.pc \in Attempting, NEW new \in HandlerRow,
           handler' = new, UNCHANGED <<ledger, wire>>,
           new.m = handler.m, new.text = handler.text, new.bubbles = handler.bubbles,
           new.k = handler.k, new.pc \in Attempting \ {"ack"}
    PROVE  HandlerGood
<1>1. handler.m \in Messages /\ OnDraft(ledger[handler.m])
  BY DEF LedgerInv, HandlerOK, Attempting
<1>2. OnDraft(ledger[handler.m])'
  BY <1>1 DEF OnDraft, Attempting
<1>3. HandlerOK' /\ Messages' = Messages
  BY <1>1, <1>2 DEF HandlerOK, Messages, Attempting
<1> QED BY <1>3, RowsAreTrue DEF HandlerGood, TalkTypeOK

\* The oldest open message is taken up, recorded or ignored.
LEMMA ReceiveIsGood ==
    ASSUME TalkTypeOK, LedgerInv, NEW m \in Messages, Receive(m)
    PROVE  HandlerGood
<1>1. ledger[m] \in LedgerRow /\ m \in Nat
  BY DEF TalkTypeOK
<1>2. Follows(ledger[m], ledger[m]) /\ Follows(ledger[m], Kept(ledger[m]))
  BY <1>1, OutcomesFollow
<1>3. UNCHANGED wire
  BY DEF Receive
<1>4. CASE Close(m, Kept(ledger[m])) \/ Close(m, ledger[m])
  BY <1>2, <1>3, <1>4, CloseIsGood
<1>5. CASE handler' = [Resting EXCEPT !.pc = "buyer", !.m = m] /\ UNCHANGED ledger
  <2>1. Resting \in HandlerRow /\ Resting.k = 1
    BY DEF Resting, HandlerRow, NoProof, Proofs
  <2>2. handler' \in HandlerRow /\ handler'.pc = "buyer" /\ handler'.m = m /\ handler'.k = 1
    BY <1>1, <1>5, <2>1 DEF HandlerRow
  <2>3. ledger' = [ledger EXCEPT ![m] = ledger[m]]
    BY <1>5 DEF TalkTypeOK
  <2> QED BY <1>2, <1>3, <2>2, <2>3, ThinkingIsGood
<1> QED BY <1>4, <1>5 DEF Receive

\* A draft takes the place of an empty row, of which nothing has left.
LEMMA ComposeIsGood ==
    ASSUME TalkTypeOK, LedgerInv, handler.pc = "buyer", NEW row,
           Follows(ledger[handler.m], row), row.role = "none", Compose(row), UNCHANGED wire
    PROVE  HandlerGood
<1> DEFINE m == handler.m
           made == [row EXCEPT !.tries = @ + 1]
           proof(origin) == [origin |-> origin, revision |-> talk.revision, ai |-> 0]
<1>1. m \in Messages /\ row \in LedgerRow /\ handler \in HandlerRow /\ handler.k = 1
  BY DEF LedgerInv, HandlerOK, Follows, TalkTypeOK
<1>2. Follows(ledger[m], made) /\ made.role = "none" /\ made.tries \in Nat
  <2>1. Follows(row, made) /\ made.role = row.role
    BY <1>1, OutcomesFollow
  <2>2. made.tries \in Nat
    BY <1>1 DEF LedgerRow
  <2> QED BY <2>1, <2>2, FollowingIsTransitive
<1>3. \A origin \in {"rule", "ai"} : proof(origin) \in Proofs
  BY DEF TalkTypeOK, TalkRow, Proofs
<1>4. CASE Close(m, Recorded(row, "no_reply"))
  <2>1. Follows(ledger[m], Recorded(row, "no_reply"))
    <3>1. Follows(row, Recorded(row, "no_reply")) /\ row.role = ledger[m].role
      BY <1>1, OutcomesFollow DEF Follows, TalkTypeOK
    <3> QED BY <3>1, FollowingIsTransitive
  <2> QED BY <1>1, <1>4, <2>1, CloseIsGood
<1>5. CASE /\ Note(made)
           /\ handler' = [handler EXCEPT !.pc = "delay", !.text = made.tries,
                             !.bubbles = 1, !.proof = proof("rule")]
  <2>1. handler' \in HandlerRow /\ handler'.pc = "delay" /\ handler'.m = m
        /\ handler'.bubbles = 1 /\ handler'.k = 1
    BY <1>1, <1>2, <1>3, <1>5 DEF HandlerRow
  <2>3. handler'.bubbles >= 1
    BY <2>1
  <2> HIDE DEF made, proof
  <2>2. ledger' = [ledger EXCEPT ![m] = made]
    BY <1>5 DEF Note
  <2> QED BY <1>1, <1>2, <2>1, <2>2, <2>3, ThinkingIsGood
<1>6. CASE /\ Note(made)
           /\ handler' = [handler EXCEPT !.pc = "generate", !.text = made.tries,
                             !.proof = proof("ai")]
  <2>1. handler' \in HandlerRow /\ handler'.pc = "generate" /\ handler'.m = m
        /\ handler'.k = 1
    BY <1>1, <1>2, <1>3, <1>6 DEF HandlerRow
  <2> HIDE DEF made, proof
  <2>2. ledger' = [ledger EXCEPT ![m] = made]
    BY <1>6 DEF Note
  <2> QED BY <1>1, <1>2, <2>1, <2>2, ThinkingIsGood
<1> QED BY <1>4, <1>5, <1>6 DEF Compose

\* A buyer's message is composed for, replayed from its draft, or closed.
LEMMA BuyerChatIsGood ==
    ASSUME TalkTypeOK, LedgerInv, BuyerChat
    PROVE  HandlerGood
<1> DEFINE m == handler.m
           row == ledger[m]
           kept == Kept(row)
<1>1. m \in Messages /\ row \in LedgerRow /\ handler \in HandlerRow /\ handler.k = 1
  BY DEF BuyerChat, LedgerInv, HandlerOK, TalkTypeOK
<1>2. UNCHANGED wire /\ handler.pc = "buyer"
  BY DEF BuyerChat
<1>3. Follows(row, row) /\ Follows(row, kept) /\ kept.role = row.role /\ kept \in LedgerRow
  BY <1>1, OutcomesFollow DEF Follows
<1>4. Follows(row, Cancelled(row)) /\ Follows(row, Cancelled(kept))
      /\ Follows(row, SuppressReply(kept))
  <2>1. Follows(row, Cancelled(row)) /\ Follows(kept, Cancelled(kept))
        /\ Follows(kept, SuppressReply(kept))
    BY <1>1, <1>3, OutcomesFollow
  <2> HIDE DEF kept, row
  <2> QED BY <1>3, <2>1, FollowingIsTransitive
<1>5. CASE \E new \in {kept, Cancelled(row), Cancelled(kept), SuppressReply(kept)} : Close(m, new)
  BY <1>1, <1>2, <1>3, <1>4, <1>5, CloseIsGood
<1>6. CASE /\ row.role = "pending" /\ Note(kept)
           /\ handler' = [handler EXCEPT !.pc = "draft", !.text = row.text,
                             !.bubbles = row.bubbles, !.proof = row.proof]
  <2>1. row.bubbles >= 1
    BY <1>1, <1>6 DEF LedgerInv, DraftsHaveText
  <2>2. handler' \in HandlerRow /\ handler'.pc = "draft" /\ handler'.m = m
        /\ handler'.bubbles >= 1 /\ handler'.k = 1
    BY <1>1, <1>6, <2>1 DEF HandlerRow, LedgerRow
  <2>3. ledger' = [ledger EXCEPT ![m] = kept]
    BY <1>6 DEF Note
  <2> HIDE DEF kept, row
  <2> QED BY <1>1, <1>2, <1>3, <1>6, <2>2, <2>3, ThinkingIsGood DEF row
<1>7. CASE row.role \notin Final /\ row.role # "pending" /\ Compose(kept)
  <2>1. kept.role = "none"
    BY <1>1, <1>3, <1>7 DEF LedgerRow, Final
  <2> QED BY <1>2, <1>3, <1>7, <2>1, ComposeIsGood
<1> HIDE DEF kept
<1> QED BY <1>5, <1>6, <1>7 DEF BuyerChat, kept

\* The provider answers, or does not.
LEMMA GenerateAnswerIsGood ==
    ASSUME TalkTypeOK, LedgerInv, GenerateAnswer
    PROVE  HandlerGood
<1> DEFINE m == handler.m
           row == ledger[m]
<1>1. m \in Messages /\ row \in LedgerRow /\ handler \in HandlerRow /\ row.role = "none"
      /\ handler.k = 1
  BY DEF GenerateAnswer, LedgerInv, HandlerOK, TalkTypeOK
<1>2. UNCHANGED wire
  BY DEF GenerateAnswer
<1>3. Follows(row, row) /\ Follows(row, Recorded(row, "no_reply"))
  BY <1>1, OutcomesFollow
<1>4. ledger = [ledger EXCEPT ![m] = row]
  BY DEF TalkTypeOK
<1>5. ASSUME NEW n \in {1, 2}, handler' = Generated(n), UNCHANGED ledger PROVE HandlerGood
  <2>1. [handler.proof EXCEPT !.ai = talk.ai] \in Proofs /\ n \in Nat
    BY <1>1 DEF TalkTypeOK, TalkRow, HandlerRow, Proofs
  <2>2. handler' \in HandlerRow /\ handler'.pc = "delay" /\ handler'.m = m
        /\ handler'.bubbles = n /\ handler'.k = 1
    <3>1. handler' = [handler EXCEPT !.pc = "delay", !.bubbles = n,
                                     !.proof = [handler.proof EXCEPT !.ai = talk.ai]]
      BY <1>1, <1>5 DEF Generated, HandlerRow
    <3> QED BY <1>1, <2>1, <3>1 DEF HandlerRow
  <2>3. handler'.bubbles >= 1
    BY <2>2
  <2> QED BY <1>1, <1>2, <1>3, <1>4, <1>5, <2>2, <2>3, ThinkingIsGood
<1>6. CASE handler' = [handler EXCEPT !.again = TRUE] /\ UNCHANGED ledger
  <2>1. handler' \in HandlerRow /\ handler'.pc = "generate" /\ handler'.m = m
        /\ handler'.k = 1
    BY <1>1, <1>6 DEF HandlerRow, GenerateAnswer
  <2> QED BY <1>1, <1>2, <1>3, <1>4, <1>6, <2>1, ThinkingIsGood
<1>7. CASE Close(m, Recorded(row, "no_reply"))
  BY <1>1, <1>2, <1>3, <1>7, CloseIsGood
<1> QED BY <1>5, <1>6, <1>7 DEF GenerateAnswer

\* After the delay the draft's provenance is stored, or the reply suppressed.
LEMMA StoreProvenanceIsGood ==
    ASSUME TalkTypeOK, LedgerInv, StoreProvenance
    PROVE  HandlerGood
<1> DEFINE m == handler.m
           row == ledger[m]
<1>1. m \in Messages /\ row \in LedgerRow /\ handler \in HandlerRow /\ row.role = "none"
      /\ handler.k = 1
      /\ handler.bubbles >= 1 /\ handler.proof \in Proofs
  BY DEF StoreProvenance, LedgerInv, HandlerOK, TalkTypeOK, HandlerRow
<1>2. UNCHANGED wire
  BY DEF StoreProvenance
<1>3. Follows(row, SuppressReply(row)) /\ Follows(row, Proven(row)) /\ Proven(row).role = "none"
  BY <1>1, OutcomesFollow DEF Proven
<1>4. CASE Close(m, SuppressReply(row))
  BY <1>1, <1>2, <1>3, <1>4, CloseIsGood
<1>5. CASE Note(Proven(row)) /\ Step("draft")
  <2>1. handler' \in HandlerRow /\ handler'.pc = "draft" /\ handler'.m = m
        /\ handler'.bubbles >= 1 /\ handler'.k = 1
    BY <1>1, <1>5 DEF HandlerRow, Step
  <2>2. ledger' = [ledger EXCEPT ![m] = Proven(row)]
    BY <1>5 DEF Note
  <2> QED BY <1>1, <1>2, <1>3, <2>1, <2>2, ThinkingIsGood
<1> QED BY <1>4, <1>5 DEF StoreProvenance

\* A draft that exists already is the reply.
LEMMA PrepareReplyIsGood ==
    ASSUME TalkTypeOK, LedgerInv, PrepareReply
    PROVE  HandlerGood
<1> DEFINE m == handler.m
           old == ledger[m]
           row == Prepared(old)
           new == Proven(row)
<1>1. m \in Messages /\ old \in LedgerRow /\ handler \in HandlerRow
      /\ old.role \in {"none", "pending"} /\ handler.bubbles >= 1
      /\ handler.proof \in Proofs /\ handler.k = 1
  BY DEF PrepareReply, LedgerInv, HandlerOK, TalkTypeOK, HandlerRow
<1>2. RowIsTrue(old, wire.auto[m])
  BY <1>1, RowsAreTrue
<1>3. row \in LedgerRow /\ row.role = "pending" /\ RowIsTrue(row, wire.auto[m])
  <2>1. CASE old.role = "none"
    <3>1. row = [old EXCEPT !.role = "pending", !.text = handler.text,
                            !.bubbles = handler.bubbles]
      BY <2>1 DEF Prepared
    <3>2. row \in LedgerRow /\ row.role = "pending" /\ row.bubbles >= 1
      BY <1>1, <3>1 DEF LedgerRow, HandlerRow
    <3>3. wire.auto[m] = {}
      BY <1>2, <2>1 DEF RowIsTrue
    <3> HIDE DEF row
    <3> QED BY <3>2, <3>3 DEF RowIsTrue
  <2>2. CASE old.role = "pending"
    BY <1>1, <1>2, <2>2 DEF Prepared
  <2> QED BY <1>1, <2>1, <2>2
<1>4. new \in LedgerRow /\ new.role = "pending" /\ new.text = row.text
      /\ new.bubbles = row.bubbles /\ RowIsTrue(new, wire.auto[m])
  <2>1. Follows(row, new) /\ new.role = row.role
    BY <1>1, <1>3, OutcomesFollow DEF Proven
  <2> QED BY <1>3, <2>1, FollowersAreTrue DEF Follows
<1>5. /\ ledger' = [ledger EXCEPT ![m] = new] /\ UNCHANGED wire
      /\ handler' = [handler EXCEPT !.pc = "attempt", !.text = row.text,
                                    !.bubbles = row.bubbles]
  BY DEF PrepareReply, Note
<1>6. handler' \in HandlerRow /\ handler'.pc = "attempt" /\ handler'.m = m
      /\ handler'.text = row.text /\ handler'.bubbles = row.bubbles
      /\ handler'.k = handler.k
  <2>1. row.text \in Nat /\ row.bubbles \in Nat
    BY <1>3 DEF LedgerRow
  <2> QED BY <1>1, <1>5, <2>1 DEF HandlerRow
<1> HIDE DEF new, row
<1>7. /\ Messages' = Messages /\ ledger' \in [Messages -> LedgerRow] /\ ledger'[m] = new
      /\ \A n \in Messages : RowIsTrue(ledger'[n], wire'.auto[n])
  BY <1>1, <1>4, <1>5, RowIsReplaced
<1>8. OnDraft(ledger[handler.m])'
  <2>1. handler'.k = 1 /\ new.bubbles >= 1
    BY <1>1, <1>4, <1>6 DEF RowIsTrue
  <2>2. handler'.k <= new.bubbles /\ 1..handler'.k - 1 = {}
    BY <1>4, <2>1 DEF LedgerRow
  <2> QED BY <1>4, <1>6, <1>7, <2>2 DEF OnDraft
<1>9. HandlerOK'
  BY <1>1, <1>6, <1>7, <1>8 DEF HandlerOK
<1> QED BY <1>6, <1>7, <1>9 DEF HandlerGood

\* What every point of an attempt knows of the draft.
LEMMA AttemptKnows ==
    ASSUME TalkTypeOK, LedgerInv, handler.pc \in Attempting
    PROVE  /\ handler.m \in Messages /\ ledger[handler.m] \in LedgerRow
           /\ handler \in HandlerRow
           /\ OnDraft(ledger[handler.m])
           /\ RowIsTrue(ledger[handler.m], wire.auto[handler.m])
BY RowsAreTrue DEF LedgerInv, HandlerOK, TalkTypeOK, Attempting

\* An answer that was overtaken is withdrawn before it is sent.
LEMMA WithdrawIsGood ==
    ASSUME TalkTypeOK, LedgerInv, handler.pc \in Attempting, Withdraw, UNCHANGED wire
    PROVE  HandlerGood
<1>1. handler.m \in Messages /\ ledger[handler.m] \in LedgerRow
  BY AttemptKnows
<1>2. Follows(ledger[handler.m], Cancelled(ledger[handler.m]))
  BY <1>1, OutcomesFollow
<1> QED BY <1>1, <1>2, CloseIsGood DEF Withdraw

\* An attempt goes on without touching the ledger.
LEMMA GoesOn ==
    ASSUME TalkTypeOK, LedgerInv, handler.pc \in Attempting,
           NEW pc \in {"attempt", "verify", "ready", "send"}, Step(pc),
           UNCHANGED <<ledger, wire>>
    PROVE  HandlerGood
<1>1. handler \in HandlerRow
  BY AttemptKnows
<1>2. handler' \in HandlerRow /\ handler'.pc = pc
      /\ \A f \in {"m", "text", "bubbles", "k"} : handler'[f] = handler[f]
  BY <1>1 DEF Step, HandlerRow
<1> QED BY <1>2, AttemptIsGood DEF Attempting

\* The checks between the claim of an answer and its sending.
LEMMA ChecksAreGood ==
    ASSUME TalkTypeOK, LedgerInv, BeginAttempt \/ VerifyAttempt \/ ReadyAnswer
    PROVE  HandlerGood
<1>1. handler.pc \in Attempting /\ UNCHANGED wire
  BY DEF BeginAttempt, VerifyAttempt, ReadyAnswer, Attempting
<1>2. CASE Withdraw
  BY <1>1, <1>2, WithdrawIsGood
<1>3. CASE \E pc \in {"verify", "ready", "send"} : Step(pc) /\ UNCHANGED ledger
  BY <1>1, <1>3, GoesOn
<1> QED BY <1>2, <1>3 DEF BeginAttempt, VerifyAttempt, ReadyAnswer

\* The bubble that leaves is the next one of the stored draft.
LEMMA SendBubbleIsGood ==
    ASSUME TalkTypeOK, LedgerInv, SendBubble
    PROVE  HandlerGood /\ wire'.auto \in [Messages -> SUBSET (Nat \X Nat)]
                       /\ wire'.manual = wire.manual
<1> DEFINE m == handler.m
           row == ledger[m]
           bubble == <<handler.k, handler.text>>
<1>1. m \in Messages /\ row \in LedgerRow /\ handler \in HandlerRow
      /\ OnDraft(row) /\ RowIsTrue(row, wire.auto[m])
  BY AttemptKnows DEF SendBubble, Attempting
<1>2. /\ wire.auto \in [Messages -> SUBSET (Nat \X Nat)]
      /\ wire' = [wire EXCEPT !.auto = [wire.auto EXCEPT ![m] = @ \cup {bubble}]]
  BY DEF TalkTypeOK, WireRow, SendBubble
<1>3. wire'.auto = [wire.auto EXCEPT ![m] = @ \cup {bubble}] /\ wire'.manual = wire.manual
  BY <1>2 DEF TalkTypeOK, WireRow
<1>4. bubble \in Nat \X Nat /\ handler.k \in Nat \ {0} /\ row.bubbles \in Nat
  BY <1>1 DEF HandlerRow, LedgerRow
<1>5. UNCHANGED ledger /\ handler' = [handler EXCEPT !.pc = "ack"]
  BY DEF SendBubble, Step
<1>6. handler' \in HandlerRow /\ handler'.pc = "ack"
      /\ \A f \in {"m", "text", "bubbles", "k"} : handler'[f] = handler[f]
  BY <1>1, <1>5 DEF HandlerRow
<1> HIDE DEF bubble
<1>7. wire'.auto \in [Messages -> SUBSET (Nat \X Nat)]
      /\ wire'.auto[m] = wire.auto[m] \cup {bubble}
      /\ \A n \in Messages \ {m} : wire'.auto[n] = wire.auto[n]
  BY <1>1, <1>2, <1>3, <1>4
<1>8. RowIsTrue(row, wire.auto[m] \cup {bubble})
  <2>1. handler.k \in 1..row.bubbles
    BY <1>1, <1>4 DEF OnDraft
  <2>2. bubble \in {<<k, row.text>> : k \in 1..row.bubbles}
    BY <1>1, <2>1 DEF OnDraft, bubble
  <2> QED BY <1>1, <2>2 DEF RowIsTrue, OnDraft
<1>9. OnDraft(ledger[handler.m])'
  BY <1>1, <1>5, <1>6, <1>7 DEF OnDraft, bubble
<1>10. HandlerOK' /\ Messages' = Messages
  BY <1>1, <1>5, <1>6, <1>9 DEF HandlerOK, Messages
<1>11. ASSUME NEW n \in Messages PROVE RowIsTrue(ledger'[n], wire'.auto[n])
  BY <1>5, <1>7, <1>8, RowsAreTrue
<1> QED BY <1>3, <1>5, <1>6, <1>7, <1>10, <1>11 DEF HandlerGood, TalkTypeOK

\* An acknowledged bubble counts, and the last one makes the row an answer; a failed one is
\* tried again or leaves the draft where it is.
LEMMA BubbleAnswerIsGood ==
    ASSUME TalkTypeOK, LedgerInv, BubbleAnswer
    PROVE  HandlerGood
<1> DEFINE m == handler.m
           row == ledger[m]
<1>1. m \in Messages /\ row \in LedgerRow /\ handler \in HandlerRow
      /\ OnDraft(row) /\ RowIsTrue(row, wire.auto[m]) /\ handler.pc = "ack"
  BY AttemptKnows DEF BubbleAnswer, Attempting
<1>2. UNCHANGED wire
  BY DEF BubbleAnswer
<1>3. handler.k \in Nat \ {0} /\ row.bubbles \in Nat
      /\ \A j \in 1..handler.k : <<j, row.text>> \in wire.auto[m]
  <2>1. handler.k \in Nat \ {0} /\ row.bubbles \in Nat
    BY <1>1 DEF HandlerRow, LedgerRow
  <2>2. \A j \in 1..handler.k : j = handler.k \/ j \in 1..handler.k - 1
    BY <2>1
  <2> QED BY <1>1, <2>1, <2>2 DEF OnDraft
<1>4. CASE /\ handler.k < handler.bubbles
           /\ handler' = NextBubble
           /\ UNCHANGED ledger
  <2>1. handler' \in HandlerRow /\ handler'.pc = "attempt" /\ handler'.k = handler.k + 1
        /\ \A f \in {"m", "text", "bubbles"} : handler'[f] = handler[f]
    <3>1. handler.k + 1 \in Nat \ {0}
      BY <1>3
    <3> QED BY <1>1, <1>4, <3>1 DEF NextBubble, HandlerRow
  <2>2. handler'.k - 1 = handler.k /\ handler'.k <= handler.bubbles
    BY <1>1, <1>3, <1>4, <2>1 DEF OnDraft
  <2>3. OnDraft(ledger[handler.m])'
    BY <1>1, <1>2, <1>3, <1>4, <2>1, <2>2 DEF OnDraft
  <2>4. HandlerOK' /\ Messages' = Messages
    BY <1>1, <1>4, <2>1, <2>3 DEF HandlerOK, Messages
  <2> QED BY <1>2, <1>4, <2>1, <2>4, RowsAreTrue DEF HandlerGood, TalkTypeOK
<1>5. CASE handler.k = handler.bubbles /\ Note(Completed(row)) /\ Step("settle")
  <2>1. Completed(row) \in LedgerRow /\ Completed(row).role = "assistant"
        /\ Completed(row).text = row.text /\ Completed(row).bubbles = row.bubbles
    BY <1>1 DEF Completed, LedgerRow
  <2>2. RowIsTrue(Completed(row), wire.auto[m])
    BY <1>1, <1>3, <1>5, <2>1 DEF RowIsTrue, OnDraft
  <2>3. ledger' = [ledger EXCEPT ![m] = Completed(row)]
    BY <1>5 DEF Note
  <2>4. handler' \in HandlerRow /\ handler'.pc = "settle" /\ handler'.m = m
    BY <1>1, <1>5 DEF Step, HandlerRow
  <2>5. HandlerOK'
    BY <1>1, <2>3, <2>4 DEF HandlerOK, Attempting, Messages, TalkTypeOK
  <2> QED BY <1>1, <1>2, <2>1, <2>2, <2>3, <2>4, <2>5, RowIsReplaced DEF HandlerGood
<1>6. CASE handler' = [handler EXCEPT !.pc = "attempt", !.attempt = 2] /\ UNCHANGED ledger
  <2>1. handler' \in HandlerRow /\ handler'.pc = "attempt"
        /\ \A f \in {"m", "text", "bubbles", "k"} : handler'[f] = handler[f]
    BY <1>1, <1>6 DEF HandlerRow
  <2> QED BY <1>1, <1>2, <1>6, <2>1, AttemptIsGood DEF Attempting
<1>7. CASE handler' = Resting /\ UNCHANGED ledger
  <2>1. handler' \in HandlerRow /\ handler'.pc = "idle"
    BY <1>7 DEF Resting, HandlerRow, NoProof, Proofs
  <2>2. HandlerOK' /\ Messages' = Messages
    BY <1>7, <2>1 DEF HandlerOK, Attempting, Messages
  <2> QED BY <1>2, <1>7, <2>1, <2>2, RowsAreTrue DEF HandlerGood, TalkTypeOK
<1> QED BY <1>4, <1>5, <1>6, <1>7 DEF BubbleAnswer

\* The provenance is deleted after the last bubble.
LEMMA SettleIsGood ==
    ASSUME TalkTypeOK, LedgerInv, Settle
    PROVE  HandlerGood
<1> DEFINE m == handler.m
<1>1. m \in Messages /\ ledger[m] \in LedgerRow /\ UNCHANGED wire
  BY DEF Settle, LedgerInv, HandlerOK, TalkTypeOK
<1>2. Follows(ledger[m], [ledger[m] EXCEPT !.proof = NoProof])
  BY <1>1, OutcomesFollow
<1> QED BY <1>1, <1>2, CloseIsGood DEF Settle

\* Every step of the handler keeps the ledger true.
LEMMA HandlerStepIsGood ==
    ASSUME TalkTypeOK, LedgerInv, HandlerStep
    PROVE  HandlerGood
<1>1. ASSUME NEW m \in Messages, Receive(m) PROVE HandlerGood
  BY <1>1, ReceiveIsGood
<1> QED BY <1>1, BuyerChatIsGood, GenerateAnswerIsGood, StoreProvenanceIsGood,
           PrepareReplyIsGood, ChecksAreGood, SendBubbleIsGood, BubbleAnswerIsGood,
           SettleIsGood DEF HandlerStep

-------------------------------------------------------------------------------
(* The conversations: everybody's steps.                                   *)

\* The other tasks leave the ledger, the handler and the automatic replies alone.
LEMMA LedgerRests ==
    ASSUME TalkTypeOK, LedgerInv, UNCHANGED <<ledger, handler>>, wire'.auto = wire.auto
    PROVE  HandlerGood
<1>1. Messages' = Messages /\ HandlerOK'
  BY DEF LedgerInv, HandlerOK, OnDraft, Messages, Attempting
<1> QED BY <1>1, RowsAreTrue DEF HandlerGood, TalkTypeOK

\* A worker that stops leaves the ledger as it is recorded.
LEMMA StopIsGood ==
    ASSUME TalkTypeOK, LedgerInv, WorkerStops
    PROVE  HandlerGood
<1>1. handler' = Resting /\ UNCHANGED <<ledger, wire>>
  BY DEF WorkerStops
<1>2. handler' \in HandlerRow /\ handler'.pc = "idle"
  BY <1>1 DEF Resting, HandlerRow, NoProof, Proofs
<1>3. HandlerOK' /\ Messages' = Messages
  BY <1>1, <1>2 DEF HandlerOK, Attempting, Messages
<1> QED BY <1>1, <1>2, <1>3, RowsAreTrue DEF HandlerGood, TalkTypeOK

\* On a start the rows lose provenance only.
LEMMA StartIsGood ==
    ASSUME TalkTypeOK, LedgerInv, WorkerStarts
    PROVE  HandlerGood
<1>1. UNCHANGED <<handler, wire>> /\ Messages' = Messages
  BY DEF WorkerStarts, Messages
<1>2. ASSUME NEW m \in Messages
      PROVE  Follows(ledger[m], ledger'[m]) /\ ledger'[m].role = ledger[m].role
  <2>1. ledger[m] \in LedgerRow /\ NoProof \in Proofs
    BY DEF TalkTypeOK, NoProof, Proofs
  <2>2. ledger'[m] = ledger[m] \/ ledger'[m] = [ledger[m] EXCEPT !.proof = NoProof]
    BY DEF WorkerStarts
  <2> QED BY <2>1, <2>2, OutcomesFollow
<1>3. \A m \in Messages : RowIsTrue(ledger'[m], wire'.auto[m])
  BY <1>1, <1>2, RowsAreTrue, FollowersAreTrue
<1>4. ledger' \in [Messages -> LedgerRow]
  <2>1. DOMAIN ledger' = Messages /\ ledger' = [m \in Messages |-> ledger'[m]]
    BY DEF WorkerStarts
  <2> QED BY <1>2, <2>1 DEF Follows
<1>5. HandlerOK'
  BY <1>1, <1>2 DEF Follows, LedgerInv, HandlerOK, OnDraft, Attempting
<1> QED BY <1>1, <1>3, <1>4, <1>5 DEF HandlerGood, TalkTypeOK

\* Every step of the conversations keeps the ledger true.
LEMMA EveryStepIsTrue ==
    ASSUME TalkTypeOK, LedgerInv, [TalkNext]_talkVars
    PROVE  HandlerGood
<1>1. CASE HandlerStep
  BY <1>1, HandlerStepIsGood
<1>2. CASE CourierStep
  <2>1. CASE SendPart
    <3>1. wire'.auto = wire.auto
      BY <2>1 DEF SendPart, TalkTypeOK, WireRow
    <3> QED BY <2>1, <3>1, LedgerRests DEF SendPart
  <2>2. CASE CleanupCompleted \/ Claim \/ VerifyTakeover \/ UploadAnswer \/ PartAnswer
             \/ HeartbeatLost
    BY <2>2, LedgerRests
       DEF CleanupCompleted, Claim, VerifyTakeover, UploadAnswer, PartAnswer, HeartbeatLost
  <2> QED BY <1>2, <2>1, <2>2 DEF CourierStep
<1>3. CASE ConsoleStep
  BY <1>3, LedgerRests
     DEF ConsoleStep, SetTakeover, SettingsChange, Upload, DeleteImage, Enqueue
<1>4. CASE SellerToggles \/ ModeExpires \/ \E q \in DOMAIN outbox : LeaseExpires(q)
  BY <1>4, LedgerRests DEF SellerToggles, ModeExpires, LeaseExpires
<1>5. CASE UNCHANGED talkVars
  BY <1>5, LedgerRests DEF talkVars
<1> QED BY <1>1, <1>2, <1>3, <1>4, <1>5, StopIsGood, StartIsGood DEF TalkNext

\* A change of hands keeps the conversation's type.
LEMMA TurnIsTyped ==
    ASSUME TalkTypeOK, NEW on \in BOOLEAN, Turn(on)
    PROVE  talk' \in TalkRow
<1>1. PICK allowed \in {talk.allowed, talk.allowed /\ on} :
          talk' = [talk EXCEPT !.mode = on, !.allowed = allowed, !.strays = 0]
  BY DEF Turn
<1>2. talk \in TalkRow /\ talk.allowed \in BOOLEAN
  BY DEF TalkTypeOK, TalkRow
<1>3. allowed \in BOOLEAN
  BY <1>2
<1> HIDE DEF TalkRow
<1> QED BY <1>1, <1>2, <1>3 DEF TalkRow

\* Every step keeps the conversation's type.
LEMMA TalkIsTyped ==
    ASSUME TalkTypeOK, [TalkNext]_talkVars
    PROVE  talk' \in TalkRow
<1>1. talk \in TalkRow /\ talk.mode \in BOOLEAN
  BY DEF TalkTypeOK, TalkRow
<1>2. CASE UNCHANGED talk
  BY <1>1, <1>2
<1>3. CASE talk' = [talk EXCEPT !.calls = @ + 1]
  BY <1>1, <1>3 DEF TalkRow
<1>4. CASE talk' = [talk EXCEPT !.human = TRUE]
  BY <1>1, <1>4 DEF TalkRow
<1>5. ASSUME NEW allowed \in BOOLEAN, talk' = [talk EXCEPT !.human = FALSE, !.allowed = allowed]
      PROVE  talk' \in TalkRow
  BY <1>1, <1>5 DEF TalkRow
<1>6. CASE HandlerStep
  <2>1. CASE BuyerChat
    BY <1>2, <1>3, <2>1 DEF BuyerChat, Compose
  <2>2. CASE GenerateAnswer
    BY <1>2, <1>3, <1>4, <2>2 DEF GenerateAnswer
  <2>3. CASE SendBubble
    BY <1>1, <2>3 DEF SendBubble, TalkRow
  <2>4. CASE Settle
    <3>1. talk.allowed \in BOOLEAN
      BY <1>1 DEF TalkRow
    <3> QED BY <1>5, <2>4, <3>1 DEF Settle
  <2> QED BY <1>2, <1>6, <2>1, <2>2, <2>3, <2>4
          DEF HandlerStep, Receive, StoreProvenance, PrepareReply, BeginAttempt,
              VerifyAttempt, ReadyAnswer, BubbleAnswer
<1>7. CASE CourierStep
  <2>1. CASE SendPart
    BY <1>1, <2>1 DEF SendPart, TalkRow
  <2>2. CASE PartAnswer
    <3>1. UNCHANGED talk \/ \E human \in BOOLEAN : talk' = [talk EXCEPT !.human = human]
      BY <1>1, <2>2 DEF PartAnswer, TalkRow
    <3> QED BY <1>1, <1>2, <3>1 DEF TalkRow
  <2> QED BY <1>2, <1>7, <2>1, <2>2
          DEF CourierStep, CleanupCompleted, Claim, VerifyTakeover, UploadAnswer, HeartbeatLost
<1>8. CASE SetTakeover
  BY <1>1, <1>8, TurnIsTyped DEF SetTakeover
<1>9. CASE SettingsChange
  <2>1. ASSUME NEW edited \in {0, 1}, NEW allowed \in BOOLEAN,
               talk' = [talk EXCEPT !.revision = @ + edited, !.allowed = allowed]
        PROVE  talk' \in TalkRow
    <3>1. talk.revision + edited \in Nat
      BY <1>1, <2>1 DEF TalkRow
    <3> QED BY <1>1, <2>1, <3>1 DEF TalkRow
  <2>2. CASE talk' = [talk EXCEPT !.ai = @ + 1]
    BY <1>1, <2>2 DEF TalkRow
  <2> QED BY <1>9, <2>1, <2>2 DEF SettingsChange
<1>10. CASE SellerToggles
  BY <1>1, <1>10, TurnIsTyped DEF SellerToggles, ToggleOnce
<1>11. CASE ModeExpires
  BY <1>1, <1>11, TurnIsTyped DEF ModeExpires
<1>12. CASE WorkerStops \/ WorkerStarts
  BY <1>1, <1>12 DEF WorkerStops, WorkerStarts, TalkRow
<1> QED BY <1>2, <1>6, <1>7, <1>8, <1>9, <1>10, <1>11, <1>12
        DEF TalkNext, ConsoleStep, Upload, DeleteImage, Enqueue, LeaseExpires, talkVars

-------------------------------------------------------------------------------
(* The conversations: whose turn it is.                                    *)

\* Without a change of hands the last checks are only passed by the side whose turn it
\* is.
LEMMA NoTurn ==
    ASSUME TurnInv, talk'.mode = talk.mode, talk'.strays = talk.strays,
           handler'.pc \in {"ready", "send"} => handler.pc \in {"ready", "send"} \/ ~talk.mode,
           courier'.pc \in {"upload", "send"} => courier.pc \in {"upload", "send"} \/ talk.mode
    PROVE  TurnInv'
BY DEF TurnInv

\* A new turn begins with no message of the other side.
LEMMA NewTurn ==
    ASSUME TalkTypeOK, TurnInv, NEW on \in BOOLEAN, Turn(on)
    PROVE  TurnInv'
<1>1. talk'.strays = 0
  BY DEF Turn, TalkTypeOK, TalkRow
<1> QED BY <1>1 DEF TurnInv

\* Closing a message frees the handler.
LEMMA CloseRests ==
    ASSUME NEW m, NEW row, Close(m, row)
    PROVE  handler'.pc = "idle"
BY DEF Close, Resting

\* Composing leaves the handler idle, waiting or generating.
LEMMA ComposeThinks ==
    ASSUME handler \in HandlerRow, NEW row, Compose(row)
    PROVE  handler'.pc \in {"idle", "delay", "generate"}
<1> DEFINE made == [row EXCEPT !.tries = @ + 1]
           proof(origin) == [origin |-> origin, revision |-> talk.revision, ai |-> 0]
<1>1. CASE Close(handler.m, Recorded(row, "no_reply"))
  BY <1>1, CloseRests
<1>2. CASE handler' = [handler EXCEPT !.pc = "delay", !.text = made.tries,
                          !.bubbles = 1, !.proof = proof("rule")]
  BY <1>2 DEF HandlerRow
<1>3. CASE handler' = [handler EXCEPT !.pc = "generate", !.text = made.tries,
                          !.proof = proof("ai")]
  BY <1>3 DEF HandlerRow
<1> QED BY <1>1, <1>2, <1>3 DEF Compose

\* A failed reply frees the courier.
LEMMA FailRests ==
    ASSUME NEW terminal, Fail(terminal)
    PROVE  courier'.pc = "idle"
BY DEF Fail, Parked

\* An attempt that was lost is waited for or given up.
LEMMA LostAttemptWaits ==
    ASSUME courier \in CourierRow, AttemptLost
    PROVE  courier'.pc \in {"idle", "wait"}
BY FailRests DEF AttemptLost, CourierRow

\* Every step keeps the turns: a take-over or a settings change sends the side back to its
\* check.
LEMMA TurnInvIsKept ==
    ASSUME TalkTypeOK, TurnInv, [TalkNext]_talkVars
    PROVE  TurnInv'
<1>1. talk \in TalkRow /\ handler \in HandlerRow /\ courier \in CourierRow
      /\ talk.mode \in BOOLEAN /\ Resting \in HandlerRow
  BY DEF TalkTypeOK, TalkRow, Resting, HandlerRow, NoProof, Proofs
<1>2. CASE HandlerStep
  <2>1. CASE SendBubble
    <3>1. /\ talk'.mode = talk.mode
          /\ talk'.strays = IF talk.mode THEN talk.strays + 1 ELSE talk.strays
      BY <1>1, <2>1 DEF SendBubble, TalkRow
    <3>2. handler.pc = "send" /\ handler'.pc = "ack" /\ UNCHANGED courier
      BY <1>1, <2>1 DEF SendBubble, Step, HandlerRow
    <3>3. talk.strays \in Nat
      BY <1>1 DEF TalkRow
    <3> QED BY <3>1, <3>2, <3>3 DEF TurnInv
  <2>2. CASE VerifyAttempt
    <3>1. UNCHANGED <<talk, courier>>
      BY <2>2 DEF VerifyAttempt
    <3>2. handler'.pc \in {"ready", "send"} => ~talk.mode
      BY <1>1, <2>2
         DEF VerifyAttempt, Withdraw, Close, Resting, Allowed, Suppressed
    <3> QED BY <3>1, <3>2, NoTurn
  <2>3. CASE ReadyAnswer
    BY <2>3, NoTurn DEF ReadyAnswer
  <2>4. ASSUME HandlerStep, ~SendBubble, ~VerifyAttempt, ~ReadyAnswer
        PROVE  /\ handler'.pc \notin {"ready", "send"} /\ UNCHANGED courier
               /\ talk'.mode = talk.mode /\ talk'.strays = talk.strays
    <3>1. ASSUME NEW m \in Messages, Receive(m)
          PROVE  handler'.pc \notin {"ready", "send"} /\ UNCHANGED <<courier, talk>>
      <4>1. [Resting EXCEPT !.pc = "buyer", !.m = m].pc = "buyer"
        BY <1>1 DEF HandlerRow
      <4> QED BY <3>1, <4>1, CloseRests DEF Receive
    <3>2. CASE BuyerChat
      <4>1. UNCHANGED talk \/ talk' = [talk EXCEPT !.calls = @ + 1]
        BY <3>2 DEF BuyerChat, Compose
      <4>2. handler'.pc \notin {"ready", "send"}
        <5>1. CASE \E m, row : Close(m, row)
          BY <5>1, CloseRests
        <5>2. CASE handler' = [handler EXCEPT !.pc = "draft",
                                  !.text = ledger[handler.m].text,
                                  !.bubbles = ledger[handler.m].bubbles,
                                  !.proof = ledger[handler.m].proof]
          BY <1>1, <5>2 DEF HandlerRow
        <5>3. CASE Compose(Kept(ledger[handler.m]))
          BY <1>1, <5>3, ComposeThinks
        <5> QED BY <3>2, <5>1, <5>2, <5>3 DEF BuyerChat
      <4> QED BY <1>1, <3>2, <4>1, <4>2 DEF BuyerChat, TalkRow
    <3>3. CASE GenerateAnswer
      <4>1. UNCHANGED talk \/ talk' = [talk EXCEPT !.calls = @ + 1]
            \/ talk' = [talk EXCEPT !.human = TRUE]
        BY <3>3 DEF GenerateAnswer
      <4>2. handler'.pc \notin {"ready", "send"}
        <5>1. /\ [handler EXCEPT !.again = TRUE].pc = handler.pc
              /\ \A n \in {1, 2} : Generated(n).pc = "delay"
          BY <1>1 DEF Generated, HandlerRow
        <5> QED BY <3>3, <5>1, CloseRests DEF GenerateAnswer
      <4> QED BY <1>1, <3>3, <4>1, <4>2 DEF GenerateAnswer, TalkRow
    <3>4. CASE StoreProvenance \/ PrepareReply \/ BeginAttempt \/ BubbleAnswer
      <4>1. UNCHANGED <<talk, courier>>
        BY <3>4 DEF StoreProvenance, PrepareReply, BeginAttempt, BubbleAnswer
      <4>2. \A pc \in {"draft", "verify", "settle"} : Step(pc) => handler'.pc = pc
        BY <1>1 DEF Step, HandlerRow
      <4>3. CASE StoreProvenance
        BY <4>2, <4>3, CloseRests DEF StoreProvenance
      <4>4. CASE PrepareReply
        BY <1>1, <4>4 DEF PrepareReply, HandlerRow
      <4>5. CASE BeginAttempt
        BY <4>2, <4>5, CloseRests DEF BeginAttempt, Withdraw
      <4>6. CASE BubbleAnswer
        <5>1. NextBubble.pc = "attempt" /\ Resting.pc = "idle"
              /\ [handler EXCEPT !.pc = "attempt", !.attempt = 2].pc = "attempt"
          BY <1>1 DEF NextBubble, Resting, HandlerRow
        <5> QED BY <4>2, <4>6, <5>1 DEF BubbleAnswer
      <4> QED BY <3>4, <4>1, <4>3, <4>4, <4>5, <4>6
    <3>5. CASE Settle
      BY <1>1, <3>5 DEF Settle, Close, Resting, TalkRow
    <3> QED BY <2>4, <3>1, <3>2, <3>3, <3>4, <3>5 DEF HandlerStep
  <2> QED BY <1>2, <2>1, <2>2, <2>3, <2>4, NoTurn
<1>3. CASE CourierStep
  <2>1. CASE SendPart
    <3>1. /\ talk'.mode = talk.mode
          /\ talk'.strays = IF talk.mode THEN talk.strays ELSE talk.strays + 1
      BY <1>1, <2>1 DEF SendPart, TalkRow
    <3>2. courier.pc = "send" /\ courier'.pc = "ack" /\ UNCHANGED handler
      BY <1>1, <2>1 DEF SendPart, CourierRow
    <3>3. talk.strays \in Nat
      BY <1>1 DEF TalkRow
    <3> QED BY <3>1, <3>2, <3>3 DEF TurnInv
  <2>2. CASE VerifyTakeover
    <3>1. UNCHANGED <<talk, handler>>
      BY <2>2 DEF VerifyTakeover
    <3>2. courier'.pc \in {"upload", "send"} => courier.pc \in {"upload", "send"} \/ talk.mode
      <4>1. Parked.pc = "idle" /\ [courier EXCEPT !.attempt = 2].pc = courier.pc
        BY <1>1 DEF Parked, CourierRow
      <4>2. CASE talk.mode
        BY <4>2
      <4>3. CASE ~talk.mode
        BY <2>2, <4>1, <4>3, FailRests DEF VerifyTakeover
      <4> QED BY <4>2, <4>3
    <3> QED BY <3>1, <3>2, NoTurn
  <2>3. CASE UploadAnswer
    BY <2>3, NoTurn DEF UploadAnswer
  <2>4. CASE PartAnswer
    <3>1. talk' = talk \/ \E human \in BOOLEAN : talk' = [talk EXCEPT !.human = human]
      BY <1>1, <2>4 DEF PartAnswer, TalkRow
    <3>2. talk'.mode = talk.mode /\ talk'.strays = talk.strays
      BY <1>1, <3>1 DEF TalkRow
    <3>3. courier'.pc \notin {"upload", "send"} /\ UNCHANGED handler
      <4>1. Parked.pc = "idle"
            /\ [courier EXCEPT !.pc = "wait", !.part = @ + 1, !.attempt = 1].pc = "wait"
        BY <1>1 DEF Parked, CourierRow
      <4> QED BY <1>1, <2>4, <4>1, LostAttemptWaits DEF PartAnswer
    <3> QED BY <3>2, <3>3, NoTurn
  <2>5. CASE CleanupCompleted \/ Claim \/ HeartbeatLost
    <3>1. CASE Claim
      <4> DEFINE swept == [q \in DOMAIN outbox |-> Swept(q)]
      <4>1. ASSUME NEW q \in DOMAIN outbox,
                   courier' = [Parked EXCEPT !.pc = "wait", !.q = q,
                                             !.part = swept[q].acked + 1]
            PROVE  courier'.pc = "wait"
        BY <4>1 DEF Parked
      <4>2. courier' = courier \/ courier'.pc = "wait"
        BY <3>1, <4>1 DEF Claim
      <4> QED BY <3>1, <4>2, NoTurn DEF Claim
    <3>2. CASE CleanupCompleted
      BY <3>2, NoTurn DEF CleanupCompleted
    <3>3. CASE HeartbeatLost
      BY <3>3, NoTurn DEF HeartbeatLost, Parked
    <3> QED BY <2>5, <3>1, <3>2, <3>3
  <2> QED BY <1>3, <2>1, <2>2, <2>3, <2>4, <2>5 DEF CourierStep
<1>4. CASE SetTakeover \/ SellerToggles \/ ModeExpires
  BY <1>1, <1>4, NewTurn DEF SetTakeover, SellerToggles, ToggleOnce, ModeExpires
<1>5. CASE SettingsChange
  <2>1. talk'.mode = talk.mode /\ talk'.strays = talk.strays /\ UNCHANGED <<handler, courier>>
    BY <1>1, <1>5 DEF SettingsChange, TalkRow
  <2> QED BY <2>1, NoTurn
<1>6. CASE WorkerStops \/ WorkerStarts
  <2>1. /\ talk'.mode = talk.mode /\ talk'.strays = talk.strays
        /\ handler' = handler \/ handler'.pc = "idle"
        /\ courier' = courier \/ courier'.pc = "idle"
    BY <1>1, <1>6 DEF WorkerStops, WorkerStarts, Resting, Parked, TalkRow
  <2> QED BY <2>1, NoTurn
<1>7. CASE \/ \E i \in DOMAIN images : Upload(i) \/ DeleteImage(i)
           \/ \E q \in DOMAIN outbox : Enqueue(q) \/ LeaseExpires(q)
           \/ UNCHANGED talkVars
  BY <1>7, NoTurn DEF Upload, DeleteImage, Enqueue, LeaseExpires, talkVars
<1> QED BY <1>2, <1>3, <1>4, <1>5, <1>6, <1>7 DEF TalkNext, ConsoleStep

-------------------------------------------------------------------------------
(* The conversations: the manual replies.                                  *)

(* The rows record no other parts, end no reply and open none.             *)
Keeps(rows) ==
    /\ rows \in [DOMAIN outbox -> OutboxRow]
    /\ \A q \in DOMAIN outbox :
          /\ rows[q].acked = outbox[q].acked
          /\ rows[q].status = "acknowledged" <=> outbox[q].status = "acknowledged"
          /\ rows[q].status \in Open => outbox[q].status \in Open

(* What the open replies among the rows still have to send is on disk.     *)
OnDisk(rows, disk) ==
    \A q \in DOMAIN rows : rows[q].status \in Open =>
        \A j \in DOMAIN MediaOf[q] :
            j > rows[q].acked => disk[MediaOf[q][j]] = "there"

\* The property read as a relation of the outbox and the files.
LEMMA NeededIsKept == ImagesAreKept <=> OnDisk(outbox, images)
BY DEF ImagesAreKept, OnDisk

PartsGood ==
    /\ DOMAIN outbox' = DOMAIN outbox
    /\ outbox' \in [DOMAIN outbox -> OutboxRow]
    /\ courier' \in CourierRow
    /\ wire'.manual \in [DOMAIN outbox -> SUBSET Nat]
    /\ PartsInv'

ImagesGood ==
    /\ images' \in [DOMAIN images -> {"none", "there", "gone"}]
    /\ DOMAIN images' = DOMAIN images
    /\ ImagesInv'

\* A reply has its text and one part for each image.
LEMMA PartsAreCounted ==
    ASSUME NEW q \in Replies
    PROVE  /\ DOMAIN MediaOf[q] = 1..Len(MediaOf[q]) /\ Len(MediaOf[q]) \in Nat
           /\ Parts(q) \in Nat \ {0}
BY ConversationAssumption DEF Parts

\* An outbox that stays as it is keeps its acknowledgements.
LEMMA SameRows ==
    ASSUME TalkTypeOK, UNCHANGED outbox
    PROVE  Keeps(outbox')
BY DEF TalkTypeOK, Keeps

\* A row that is written keeps what was acknowledged.
LEMMA OneRowKeeps ==
    ASSUME TalkTypeOK, NEW q \in DOMAIN outbox, NEW row \in OutboxRow,
           row.acked = outbox[q].acked,
           row.status = "acknowledged" <=> outbox[q].status = "acknowledged",
           row.status \in Open => outbox[q].status \in Open
    PROVE  Keeps([outbox EXCEPT ![q] = row])
BY DEF TalkTypeOK, Keeps

\* As long as the rows keep what they record, the courier may wait, rest or go on.
LEMMA KeptParts ==
    ASSUME TalkTypeOK, PartsInv, Keeps(outbox'), wire'.manual = wire.manual,
           courier' \in CourierRow,
           \/ courier'.pc = "idle"
           \/ courier' = courier
           \/ /\ courier.pc # "idle" /\ courier'.pc # "ack"
              /\ courier'.q = courier.q /\ courier'.part = courier.part
    PROVE  PartsGood
<1>1. DOMAIN outbox' = DOMAIN outbox
  BY DEF Keeps
<1>2. \A q \in DOMAIN outbox' :
          /\ wire'.manual[q] \subseteq 1..outbox'[q].acked + 1
          /\ 1..outbox'[q].acked \subseteq wire'.manual[q]
          /\ outbox'[q].acked <= Parts(q)
          /\ outbox'[q].status = "acknowledged" <=> outbox'[q].acked = Parts(q)
  BY <1>1 DEF PartsInv, Keeps
<1>3. CourierOK'
  BY <1>1 DEF PartsInv, Keeps, CourierOK
<1> QED BY <1>1, <1>2, <1>3 DEF PartsGood, PartsInv, Keeps, TalkTypeOK, WireRow, Parts

\* Files that stay are enough for the rows that are still open.
LEMMA KeptImages ==
    ASSUME TalkTypeOK, ImagesInv, Keeps(outbox'), UNCHANGED images
    PROVE  ImagesGood
<1>1. DOMAIN outbox' = DOMAIN outbox
  BY DEF Keeps
<1> QED BY <1>1 DEF ImagesGood, ImagesInv, ImagesAreKept, Keeps, TalkTypeOK

\* cleanup_manual_reply_image deletes no image that the rows still need.
LEMMA CleanedImages ==
    ASSUME TalkTypeOK, ImagesInv, NEW S, NEW rows \in [DOMAIN outbox -> OutboxRow],
           OnDisk(rows, images), outbox' = rows, images' = Cleaned(S, rows)
    PROVE  ImagesGood
<1>1. \A i \in DOMAIN images :
          images'[i] = IF i \in S /\ images[i] = "there" /\ ~HasActiveReference(i, rows)
                       THEN "gone" ELSE images[i]
  BY DEF Cleaned
<1>2. images' \in [DOMAIN images -> {"none", "there", "gone"}]
  BY DEF Cleaned, TalkTypeOK
<1>3. DOMAIN images' = DOMAIN images /\ DOMAIN outbox' = DOMAIN outbox
  BY DEF Cleaned
<1>4. ASSUME NEW q \in DOMAIN outbox, rows[q].status \in Open, NEW j \in DOMAIN MediaOf[q],
             j > rows[q].acked
      PROVE  images'[MediaOf[q][j]] = "there"
  <2>1. MediaOf[q][j] \in DOMAIN images /\ images[MediaOf[q][j]] = "there"
    BY <1>4 DEF OnDisk, ImagesInv
  <2>2. HasActiveReference(MediaOf[q][j], rows)
    BY <1>4 DEF HasActiveReference
  <2> QED BY <1>1, <2>1, <2>2
<1>5. OnDisk(outbox, images)'
  BY <1>3, <1>4 DEF OnDisk
<1> QED BY <1>2, <1>3, <1>5, NeededIsKept DEF ImagesGood, ImagesInv, OnDisk, ImagesAreKept

\* A reply may need fewer of the images.
LEMMA KeptNeeds ==
    ASSUME TalkTypeOK, ImagesInv, NEW rows, Keeps(rows)
    PROVE  OnDisk(rows, images)
<1>1. DOMAIN rows = DOMAIN outbox
  BY DEF Keeps
<1> QED BY <1>1 DEF ImagesInv, ImagesAreKept, Keeps, OnDisk

\* The sweep of expired claims keeps what was acknowledged.
LEMMA SweptKeeps ==
    ASSUME TalkTypeOK, NEW q \in DOMAIN outbox
    PROVE  /\ Swept(q) \in OutboxRow
           /\ Swept(q).acked = outbox[q].acked
           /\ Swept(q).status = "acknowledged" <=> outbox[q].status = "acknowledged"
           /\ Swept(q).status \in Open => outbox[q].status \in Open
<1> DEFINE row == outbox[q]
           freed == [row EXCEPT !.lease = "none", !.mine = FALSE]
<1>1. row \in OutboxRow /\ freed \in OutboxRow
  BY DEF TalkTypeOK, OutboxRow
<1>2. freed.acked = row.acked
  BY <1>1 DEF OutboxRow
<1>3. \A status \in {"retry", "manual_review"} :
          /\ [freed EXCEPT !.status = status] \in OutboxRow
          /\ [freed EXCEPT !.status = status].acked = row.acked
          /\ [freed EXCEPT !.status = status].status = status
  BY <1>1, <1>2 DEF OutboxRow
<1> HIDE DEF freed, row
<1>4. CASE row.status = "sending" /\ row.lease = "expired"
  <2>1. Swept(q) = [freed EXCEPT !.status = IF row.tries >= MaxTries THEN "manual_review"
                                                                   ELSE "retry"]
    BY <1>4 DEF Swept, row, freed
  <2>2. \E status \in {"retry", "manual_review"} : Swept(q) = [freed EXCEPT !.status = status]
    BY <2>1
  <2> QED BY <1>3, <1>4, <2>2 DEF Open, Waiting, row
<1>5. CASE /\ ~(row.status = "sending" /\ row.lease = "expired")
           /\ row.status \in Waiting /\ row.tries >= MaxTries
  <2>1. Swept(q) = [freed EXCEPT !.status = "manual_review"]
    BY <1>5 DEF Swept, row, freed, Waiting
  <2> QED BY <1>3, <1>5, <2>1 DEF Open, Waiting, row
<1>6. CASE /\ ~(row.status = "sending" /\ row.lease = "expired")
           /\ ~(row.status \in Waiting /\ row.tries >= MaxTries)
  <2>1. Swept(q) = row
    BY <1>6 DEF Swept, row
  <2> QED BY <1>1, <2>1 DEF row
<1> QED BY <1>4, <1>5, <1>6

\* fail_manual_reply leaves the reply open and its parts as they were.
LEMMA FailIsGood ==
    ASSUME TalkTypeOK, PartsInv, courier.pc # "idle", NEW terminal \in BOOLEAN, Fail(terminal)
    PROVE  Keeps(outbox') /\ courier' \in CourierRow /\ courier'.pc = "idle"
<1> DEFINE q == courier.q
           row == outbox[q]
<1>1. q \in DOMAIN outbox /\ row \in OutboxRow
  BY DEF PartsInv, CourierOK, TalkTypeOK
<1>2. courier' \in CourierRow /\ courier'.pc = "idle"
  BY DEF Fail, Parked, CourierRow
<1>3. CASE Owned(q) /\ outbox' = Failed(q, terminal)
  <2> DEFINE status == IF terminal \/ outbox[q].tries >= MaxTries THEN "manual_review"
                                                                  ELSE "retry"
             new == [row EXCEPT !.lease = "none", !.mine = FALSE, !.status = status]
  <2>1. status \in {"retry", "manual_review"} /\ row.status = "sending"
    BY <1>3 DEF Owned
  <2>2. outbox' = [outbox EXCEPT ![q] = new]
    BY <1>1, <1>3 DEF Failed, TalkTypeOK
  <2> HIDE DEF status
  <2>3. new \in OutboxRow /\ new.acked = row.acked /\ new.status = status
    BY <1>1, <2>1 DEF OutboxRow
  <2> HIDE DEF new
  <2> QED BY <1>1, <1>2, <2>1, <2>2, <2>3, OneRowKeeps DEF Open, Waiting
<1>4. CASE UNCHANGED outbox
  BY <1>2, <1>4, SameRows
<1> QED BY <1>3, <1>4 DEF Fail

\* An attempt that was lost keeps the parts already sent.
LEMMA LostAttemptIsGood ==
    ASSUME TalkTypeOK, PartsInv, courier.pc # "idle", AttemptLost
    PROVE  /\ Keeps(outbox') /\ courier' \in CourierRow
           /\ \/ courier'.pc = "idle"
              \/ courier'.pc = "wait" /\ courier'.q = courier.q /\ courier'.part = courier.part
<1>1. CASE courier' = [courier EXCEPT !.pc = "wait", !.attempt = 2] /\ UNCHANGED outbox
  BY <1>1, SameRows DEF TalkTypeOK, CourierRow
<1>2. CASE Fail(FALSE)
  BY <1>2, FailIsGood
<1> QED BY <1>1, <1>2 DEF AttemptLost

\* The courier claims a reply, or continues one.
LEMMA ClaimIsGood ==
    ASSUME TalkTypeOK, PartsInv, ImagesInv, Claim
    PROVE  PartsGood /\ ImagesGood
<1> DEFINE swept == [q \in DOMAIN outbox |-> Swept(q)]
<1>1. Keeps(swept)
  BY SweptKeeps DEF Keeps
<1>2. wire'.manual = wire.manual /\ courier \in CourierRow
  BY DEF Claim, TalkTypeOK
<1>3. ASSUME NEW q \in DOMAIN outbox, swept[q].status \in Waiting,
             outbox' = [swept EXCEPT ![q].status = "sending", ![q].tries = @ + 1,
                                     ![q].lease = "live", ![q].mine = TRUE],
             courier' = [Parked EXCEPT !.pc = "wait", !.q = q, !.part = swept[q].acked + 1],
             images' = Cleaned(Sent(q, outbox), outbox')
      PROVE  PartsGood /\ ImagesGood
  <2> DEFINE row == swept[q]
             new == [row EXCEPT !.status = "sending", !.tries = @ + 1, !.lease = "live",
                                !.mine = TRUE]
  <2>1. row \in OutboxRow /\ row.acked = outbox[q].acked /\ row.acked \in Nat
    BY <1>1 DEF Keeps, OutboxRow
  <2>2. outbox[q].status \in Open /\ outbox[q].status # "acknowledged"
    BY <1>1, <1>3 DEF Keeps, Open, Waiting
  <2>3. new \in OutboxRow /\ new.acked = row.acked /\ new.status = "sending"
    <3>1. row.tries + 1 \in Nat
      BY <2>1 DEF OutboxRow
    <3> HIDE DEF row
    <3> QED BY <2>1, <3>1 DEF OutboxRow
  <2>4. outbox' = [swept EXCEPT ![q] = new]
    BY <1>3
  <2> HIDE DEF swept, new
  <2>5. /\ outbox' \in [DOMAIN outbox -> OutboxRow] /\ outbox'[q] = new
        /\ \A r \in DOMAIN outbox \ {q} : outbox'[r] = swept[r]
    BY <1>1, <2>3, <2>4 DEF Keeps
  <2>6. Keeps(outbox')
    BY <1>1, <2>1, <2>2, <2>3, <2>5 DEF Keeps
  <2>7. courier' \in CourierRow /\ courier'.pc = "wait" /\ courier'.q = q
        /\ courier'.part = outbox'[q].acked + 1
    <3>1. q \in Replies /\ row.acked + 1 \in Nat
      BY <2>1 DEF TalkTypeOK
    <3> QED BY <1>3, <2>1, <2>3, <2>5, <3>1 DEF Parked, CourierRow
  <2>8. DOMAIN outbox' = DOMAIN outbox
    BY <2>5
  <2>9. PartsGood
    <3>1. CourierOK'
      BY <2>3, <2>5, <2>7, <2>8 DEF CourierOK
    <3>2. \A r \in DOMAIN outbox' :
              /\ wire'.manual[r] \subseteq 1..outbox'[r].acked + 1
              /\ 1..outbox'[r].acked \subseteq wire'.manual[r]
              /\ outbox'[r].acked <= Parts(r)
              /\ outbox'[r].status = "acknowledged" <=> outbox'[r].acked = Parts(r)
      BY <1>2, <2>6, <2>8 DEF PartsInv, Keeps
    <3> QED BY <1>2, <2>5, <2>7, <2>8, <3>1, <3>2
            DEF PartsGood, PartsInv, TalkTypeOK, WireRow, Parts
  <2>10. ImagesGood
    BY <1>3, <2>5, <2>6, KeptNeeds, CleanedImages
  <2> QED BY <2>9, <2>10
<1>4. CASE outbox' = swept /\ UNCHANGED <<courier, images>>
  <2> HIDE DEF swept
  <2> QED BY <1>1, <1>2, <1>4, KeptParts, KeptImages
<1> QED BY <1>3, <1>4 DEF Claim

\* The lease and the mode are looked at before each part.
LEMMA TakeoverIsGood ==
    ASSUME TalkTypeOK, PartsInv, ImagesInv, VerifyTakeover
    PROVE  PartsGood /\ ImagesGood
<1>1. courier.pc = "wait" /\ courier \in CourierRow /\ UNCHANGED <<images, wire>>
  BY DEF VerifyTakeover, TalkTypeOK
<1>2. CASE Fail(TRUE)
  BY <1>1, <1>2, FailIsGood, KeptParts, KeptImages
<1>3. CASE UNCHANGED outbox
  <2>1. courier' \in CourierRow
        /\ \/ courier'.pc = "idle"
           \/ courier'.pc \in {"wait", "upload", "send"} /\ courier'.q = courier.q
              /\ courier'.part = courier.part
    <3>1. CASE courier' = Parked
      BY <3>1 DEF Parked, CourierRow
    <3>2. CASE courier' = [courier EXCEPT !.attempt = 2]
      BY <1>1, <3>2 DEF CourierRow
    <3>3. CASE \E pc \in {"upload", "send"} : courier' = [courier EXCEPT !.pc = pc]
      BY <1>1, <3>3 DEF CourierRow
    <3>4. CASE Fail(TRUE)
      BY <1>1, <3>4, FailIsGood
    <3> QED BY <3>1, <3>2, <3>3, <3>4 DEF VerifyTakeover
  <2> QED BY <1>1, <1>3, <2>1, SameRows, KeptParts, KeptImages
<1> QED BY <1>2, <1>3 DEF VerifyTakeover

\* The image is read and uploaded, or the attempt is lost.
LEMMA UploadAnswerIsGood ==
    ASSUME TalkTypeOK, PartsInv, ImagesInv, UploadAnswer
    PROVE  PartsGood /\ ImagesGood
<1>1. courier.pc = "upload" /\ courier \in CourierRow /\ UNCHANGED <<images, wire>>
  BY DEF UploadAnswer, TalkTypeOK
<1>2. CASE AttemptLost
  BY <1>1, <1>2, LostAttemptIsGood, KeptParts, KeptImages
<1>3. CASE courier' = [courier EXCEPT !.pc = "send"] /\ UNCHANGED outbox
  <2>1. courier' \in CourierRow /\ courier'.pc = "send" /\ courier'.q = courier.q
        /\ courier'.part = courier.part
    BY <1>1, <1>3 DEF CourierRow
  <2> QED BY <1>1, <1>3, <2>1, SameRows, KeptParts, KeptImages
<1> QED BY <1>2, <1>3 DEF UploadAnswer

\* The part that the courier is at is sent.
LEMMA SendPartIsGood ==
    ASSUME TalkTypeOK, PartsInv, ImagesInv, SendPart
    PROVE  PartsGood /\ ImagesGood /\ wire'.auto = wire.auto
<1> DEFINE q == courier.q
           p == courier.part
<1>1. q \in DOMAIN outbox /\ courier \in CourierRow /\ outbox[q].status # "acknowledged"
      /\ p = outbox[q].acked + 1 /\ p \in Nat /\ outbox[q].acked \in Nat
  BY DEF SendPart, PartsInv, CourierOK, TalkTypeOK, CourierRow, OutboxRow
<1>2. UNCHANGED <<outbox, images>> /\ courier' = [courier EXCEPT !.pc = "ack"]
  BY DEF SendPart
<1>3. wire.manual \in [DOMAIN outbox -> SUBSET Nat]
  BY DEF TalkTypeOK, WireRow
<1>4. wire'.manual = [wire.manual EXCEPT ![q] = @ \cup {p}] /\ wire'.auto = wire.auto
  BY DEF SendPart, TalkTypeOK, WireRow
<1>5. wire'.manual \in [DOMAIN outbox -> SUBSET Nat]
      /\ wire'.manual[q] = wire.manual[q] \cup {p}
      /\ \A r \in DOMAIN outbox \ {q} : wire'.manual[r] = wire.manual[r]
  BY <1>1, <1>3, <1>4
<1>6. courier' \in CourierRow /\ courier'.pc = "ack" /\ courier'.q = q /\ courier'.part = p
  BY <1>1, <1>2 DEF CourierRow
<1>7. CourierOK'
  BY <1>1, <1>2, <1>5, <1>6 DEF CourierOK
<1>8. p \in 1..outbox[q].acked + 1
  BY <1>1
<1> HIDE DEF p, q
<1>9. \A r \in DOMAIN outbox :
          /\ wire'.manual[r] \subseteq 1..outbox[r].acked + 1
          /\ 1..outbox[r].acked \subseteq wire'.manual[r]
  BY <1>5, <1>8 DEF PartsInv
<1>10. PartsGood
  BY <1>2, <1>5, <1>6, <1>7, <1>9 DEF PartsGood, PartsInv, TalkTypeOK, Parts
<1>11. ImagesGood
  BY <1>2, SameRows, KeptImages
<1> QED BY <1>4, <1>10, <1>11

\* An acknowledged part is recorded, and only the last one ends the reply.
LEMMA PartAnswerIsGood ==
    ASSUME TalkTypeOK, PartsInv, ImagesInv, PartAnswer
    PROVE  PartsGood /\ ImagesGood
<1> DEFINE q == courier.q
           p == courier.part
           row == outbox[q]
           last == p = Parts(q)
           new == IF last THEN [row EXCEPT !.acked = p, !.status = "acknowledged",
                                           !.lease = "none", !.mine = FALSE]
                          ELSE [row EXCEPT !.acked = p]
           rows == [outbox EXCEPT ![q] = new]
<1>1. /\ q \in DOMAIN outbox /\ q \in Replies /\ row \in OutboxRow
      /\ row.status # "acknowledged" /\ p = row.acked + 1 /\ p \in wire.manual[q]
  BY DEF PartAnswer, PartsInv, CourierOK, TalkTypeOK
<1>2. courier.pc = "ack" /\ courier \in CourierRow /\ UNCHANGED wire
  BY DEF PartAnswer, TalkTypeOK
<1>3. CASE courier' = Parked /\ UNCHANGED <<outbox, images>>
  <2>1. courier' \in CourierRow /\ courier'.pc = "idle"
    BY <1>3 DEF Parked, CourierRow
  <2> QED BY <1>2, <1>3, <2>1, SameRows, KeptParts, KeptImages
<1>4. CASE AttemptLost /\ UNCHANGED images
  BY <1>2, <1>4, LostAttemptIsGood, KeptParts, KeptImages
<1>5. CASE /\ Owned(q) /\ outbox' = rows /\ images' = Cleaned(Sent(q, rows), rows)
           /\ courier' = IF last THEN Parked
                         ELSE [courier EXCEPT !.pc = "wait", !.part = @ + 1, !.attempt = 1]
  <2>1. /\ row.acked \in Nat /\ p \in Nat \ {0} /\ Parts(q) \in Nat \ {0}
        /\ row.acked < Parts(q) /\ row.status = "sending"
    <3>1. row.acked \in Nat /\ Parts(q) \in Nat \ {0} /\ row.acked <= Parts(q)
          /\ row.acked # Parts(q)
      BY <1>1, PartsAreCounted DEF PartsInv, OutboxRow
    <3> QED BY <1>1, <1>5, <3>1 DEF Owned
  <2>2. new \in OutboxRow /\ new.acked = p
        /\ new.status = IF last THEN "acknowledged" ELSE "sending"
    BY <1>1, <2>1 DEF OutboxRow
  <2> HIDE DEF new
  <2>3. /\ rows \in [DOMAIN outbox -> OutboxRow] /\ rows[q] = new
        /\ \A r \in DOMAIN outbox \ {q} : rows[r] = outbox[r]
    BY <1>1, <2>2 DEF TalkTypeOK
  <2> HIDE DEF rows
  <2>4. DOMAIN outbox' = DOMAIN outbox
    BY <1>5, <2>3
  <2>5. \A r \in DOMAIN outbox :
            /\ wire.manual[r] \subseteq 1..rows[r].acked + 1
            /\ 1..rows[r].acked \subseteq wire.manual[r]
            /\ rows[r].acked <= Parts(r)
            /\ rows[r].status = "acknowledged" <=> rows[r].acked = Parts(r)
    <3>1. /\ wire.manual[q] \subseteq 1..p + 1
          /\ 1..p \subseteq wire.manual[q]
          /\ p <= Parts(q)
          /\ new.status = "acknowledged" <=> p = Parts(q)
      <4>1. wire.manual[q] \subseteq 1..p /\ 1..row.acked \subseteq wire.manual[q]
        BY <1>1 DEF PartsInv
      <4>2. 1..p \subseteq 1..p + 1 /\ \A k \in 1..p : k = p \/ k \in 1..row.acked
        BY <1>1, <2>1
      <4>3. p <= Parts(q)
        BY <1>1, <2>1
      <4> QED BY <1>1, <2>2, <4>1, <4>2, <4>3
    <3> QED BY <2>2, <2>3, <3>1 DEF PartsInv
  <2>6. courier' \in CourierRow /\ CourierOK'
    <3>1. CASE last
      BY <1>5, <3>1 DEF Parked, CourierRow, CourierOK
    <3>2. CASE ~last
      <4>1. courier' \in CourierRow /\ courier'.pc = "wait" /\ courier'.q = q
            /\ courier'.part = p + 1
        <5>1. p + 1 \in Nat
          BY <2>1
        <5> QED BY <1>2, <1>5, <3>2, <5>1 DEF CourierRow
      <4> QED BY <1>1, <1>5, <2>2, <2>3, <2>4, <3>2, <4>1 DEF CourierOK
    <3> QED BY <3>1, <3>2
  <2>7. PartsGood
    BY <1>2, <1>5, <2>3, <2>4, <2>5, <2>6 DEF PartsGood, PartsInv, TalkTypeOK, WireRow, Parts
  <2>8. OnDisk(rows, images)
    <3>1. ASSUME NEW r \in DOMAIN rows, rows[r].status \in Open, NEW j \in DOMAIN MediaOf[r],
                 j > rows[r].acked
          PROVE  outbox[r].status \in Open /\ j > outbox[r].acked
      <4>1. CASE r # q
        BY <2>3, <3>1, <4>1
      <4>2. CASE r = q
        <5>1. j \in Nat
          BY <1>1, <4>2, PartsAreCounted
        <5> QED BY <1>1, <2>1, <2>2, <2>3, <3>1, <4>2, <5>1 DEF Open
      <4> QED BY <4>1, <4>2
    <3>2. DOMAIN rows = DOMAIN outbox
      BY <2>3
    <3> QED BY <3>1, <3>2 DEF OnDisk, ImagesInv, ImagesAreKept
  <2>9. ImagesGood
    BY <1>5, <2>3, <2>8, CleanedImages
  <2> QED BY <2>7, <2>9
<1> QED BY <1>3, <1>4, <1>5 DEF PartAnswer

\* A reply is queued with all its images on disk.
LEMMA EnqueueIsGood ==
    ASSUME TalkTypeOK, PartsInv, ImagesInv, NEW q \in DOMAIN outbox, Enqueue(q)
    PROVE  PartsGood /\ ImagesGood
<1> DEFINE new == [outbox[q] EXCEPT !.status = "queued"]
<1>1. new \in OutboxRow /\ new.acked = outbox[q].acked /\ new.status = "queued"
  BY DEF TalkTypeOK, OutboxRow
<1>2. UNCHANGED <<courier, images, wire>> /\ outbox' = [outbox EXCEPT ![q] = new]
      /\ outbox[q].status = "none"
  BY DEF Enqueue, TalkTypeOK
<1> HIDE DEF new
<1>3. /\ outbox' \in [DOMAIN outbox -> OutboxRow] /\ DOMAIN outbox' = DOMAIN outbox
      /\ outbox'[q] = new
      /\ \A r \in DOMAIN outbox \ {q} : outbox'[r] = outbox[r]
  BY <1>1, <1>2 DEF TalkTypeOK
<1>4. \A r \in DOMAIN outbox :
          /\ wire.manual[r] \subseteq 1..outbox'[r].acked + 1
          /\ 1..outbox'[r].acked \subseteq wire.manual[r]
          /\ outbox'[r].acked <= Parts(r)
          /\ outbox'[r].status = "acknowledged" <=> outbox'[r].acked = Parts(r)
  BY <1>1, <1>2, <1>3 DEF PartsInv
<1>5. CourierOK'
  BY <1>1, <1>2, <1>3 DEF CourierOK, PartsInv
<1>6. PartsGood
  BY <1>2, <1>3, <1>4, <1>5 DEF PartsGood, PartsInv, TalkTypeOK, WireRow, Parts
<1>7. \A j \in DOMAIN MediaOf[q] : images[MediaOf[q][j]] = "there"
  BY DEF Enqueue
<1>8. ImagesGood
  BY <1>2, <1>3, <1>7 DEF ImagesGood, ImagesInv, ImagesAreKept, TalkTypeOK
<1> QED BY <1>6, <1>8

\* A new image only takes the place of files that no open reply waits for.
LEMMA UploadIsGood ==
    ASSUME TalkTypeOK, PartsInv, ImagesInv, NEW i \in DOMAIN images, Upload(i) \/ DeleteImage(i)
    PROVE  PartsGood /\ ImagesGood
<1>1. UNCHANGED <<outbox, courier, wire>>
  BY DEF Upload, DeleteImage
<1>2. PartsGood
  <2>1. wire'.manual = wire.manual /\ courier' \in CourierRow
    BY <1>1 DEF TalkTypeOK
  <2> QED BY <1>1, <2>1, SameRows, KeptParts
<1>3. /\ images' \in [DOMAIN images -> {"none", "there", "gone"}]
      /\ DOMAIN images' = DOMAIN images
      /\ \A j \in DOMAIN images :
            images[j] = "there" /\ ManualImageIsActive(j) => images'[j] = "there"
  <2>1. CASE Upload(i)
    <3>1. PICK stale \in StaleImages : SaveImage(i, stale)
      BY <2>1 DEF Upload
    <3>2. \A j \in stale : ~ManualImageIsActive(j)
      BY <3>1 DEF StaleImages
    <3> QED BY <3>1, <3>2 DEF SaveImage, TalkTypeOK
  <2>2. CASE DeleteImage(i)
    BY <2>2 DEF DeleteImage, TalkTypeOK
  <2> QED BY <2>1, <2>2
<1>4. ASSUME NEW q \in DOMAIN outbox, outbox[q].status \in Open, NEW j \in DOMAIN MediaOf[q],
             j > outbox[q].acked
      PROVE  images'[MediaOf[q][j]] = "there"
  <2>1. MediaOf[q][j] \in DOMAIN images /\ images[MediaOf[q][j]] = "there"
    BY <1>4 DEF ImagesInv, ImagesAreKept
  <2>2. ManualImageIsActive(MediaOf[q][j])
    BY <1>4 DEF ManualImageIsActive, HasActiveReference
  <2> QED BY <1>3, <2>1, <2>2
<1>5. ImagesGood
  BY <1>1, <1>3, <1>4 DEF ImagesGood, ImagesInv, ImagesAreKept
<1> QED BY <1>2, <1>5

\* Every step keeps the parts of the manual replies in order and their images on disk.
LEMMA EveryStepIsOrderly ==
    ASSUME TalkTypeOK, PartsInv, ImagesInv, [TalkNext]_talkVars
    PROVE  PartsGood /\ ImagesGood
<1>1. CASE UNCHANGED <<outbox, courier, images>> /\ wire'.manual = wire.manual
  <2>1. courier' \in CourierRow
    BY <1>1 DEF TalkTypeOK
  <2> QED BY <1>1, <2>1, SameRows, KeptParts, KeptImages
<1>2. CASE HandlerStep
  <2>1. CASE SendBubble
    <3>1. wire'.manual = wire.manual
      BY <2>1 DEF SendBubble, TalkTypeOK, WireRow
    <3> QED BY <1>1, <2>1, <3>1 DEF SendBubble
  <2> QED BY <1>1, <1>2, <2>1
          DEF HandlerStep, Receive, BuyerChat, GenerateAnswer, StoreProvenance, PrepareReply,
              BeginAttempt, VerifyAttempt, ReadyAnswer, BubbleAnswer, Settle
<1>3. CASE CourierStep
  <2>1. CASE CleanupCompleted
    <3>1. PICK S : images' = Cleaned(S, outbox)
      BY <2>1 DEF CleanupCompleted
    <3>2. outbox \in [DOMAIN outbox -> OutboxRow] /\ courier' \in CourierRow
          /\ UNCHANGED <<outbox, courier>> /\ wire'.manual = wire.manual
      BY <2>1 DEF CleanupCompleted, TalkTypeOK
    <3>3. OnDisk(outbox, images)
      BY NeededIsKept DEF ImagesInv
    <3> QED BY <3>1, <3>2, <3>3, SameRows, KeptParts, CleanedImages
  <2>2. CASE HeartbeatLost
    <3>1. courier' \in CourierRow /\ courier'.pc = "idle" /\ UNCHANGED <<outbox, images, wire>>
      BY <2>2 DEF HeartbeatLost, Parked, CourierRow
    <3> QED BY <3>1, SameRows, KeptParts, KeptImages
  <2> QED BY <1>3, <2>1, <2>2, ClaimIsGood, TakeoverIsGood, UploadAnswerIsGood,
             SendPartIsGood, PartAnswerIsGood DEF CourierStep
<1>4. CASE ConsoleStep
  <2>1. CASE SetTakeover \/ SettingsChange
    BY <1>1, <2>1 DEF SetTakeover, SettingsChange
  <2> QED BY <1>4, <2>1, EnqueueIsGood, UploadIsGood DEF ConsoleStep
<1>5. CASE SellerToggles \/ ModeExpires \/ WorkerStarts
  BY <1>1, <1>5 DEF SellerToggles, ModeExpires, WorkerStarts
<1>6. ASSUME NEW q \in DOMAIN outbox, LeaseExpires(q) PROVE PartsGood /\ ImagesGood
  <2> DEFINE new == [outbox[q] EXCEPT !.lease = "expired"]
  <2>1. new \in OutboxRow /\ new.acked = outbox[q].acked /\ new.status = outbox[q].status
    BY DEF TalkTypeOK, OutboxRow
  <2>2. outbox' = [outbox EXCEPT ![q] = new] /\ UNCHANGED <<courier, images, wire>>
    BY <1>6 DEF LeaseExpires, TalkTypeOK
  <2> HIDE DEF new
  <2>3. Keeps(outbox') /\ courier' \in CourierRow
    BY <2>1, <2>2, OneRowKeeps DEF TalkTypeOK
  <2> QED BY <2>2, <2>3, KeptParts, KeptImages
<1>7. CASE WorkerStops
  <2>1. ASSUME NEW q \in DOMAIN outbox
        PROVE  LET new == [outbox[q] EXCEPT !.mine = FALSE]
               IN  new \in OutboxRow /\ new.acked = outbox[q].acked
                   /\ new.status = outbox[q].status
    BY DEF TalkTypeOK, OutboxRow
  <2>2. Keeps(outbox')
    BY <1>7, <2>1 DEF WorkerStops, Keeps
  <2>3. courier' \in CourierRow /\ courier'.pc = "idle" /\ UNCHANGED <<images, wire>>
    BY <1>7 DEF WorkerStops, Parked, CourierRow
  <2> QED BY <2>2, <2>3, KeptParts, KeptImages
<1>8. CASE UNCHANGED talkVars
  BY <1>1, <1>8 DEF talkVars
<1> QED BY <1>2, <1>3, <1>4, <1>5, <1>6, <1>7, <1>8 DEF TalkNext

\* Which step changes the wire, and where.
LEMMA WireIsTyped ==
    ASSUME TalkTypeOK, LedgerInv, [TalkNext]_talkVars
    PROVE  /\ wire'.auto \in [Messages -> SUBSET (Nat \X Nat)]
           /\ wire' = [auto |-> wire'.auto, manual |-> wire'.manual]
<1>1. wire \in WireRow
  BY DEF TalkTypeOK
<1>2. CASE UNCHANGED wire
  BY <1>1, <1>2 DEF WireRow
<1>3. CASE SendBubble
  <2>1. wire'.auto \in [Messages -> SUBSET (Nat \X Nat)]
    BY <1>3, SendBubbleIsGood
  <2>2. wire' = [auto |-> wire'.auto, manual |-> wire'.manual]
    BY <1>1, <1>3 DEF SendBubble, WireRow
  <2> QED BY <2>1, <2>2
<1>4. CASE SendPart
  BY <1>1, <1>4 DEF SendPart, WireRow
<1> QED BY <1>2, <1>3, <1>4
        DEF TalkNext, HandlerStep, Receive, BuyerChat, GenerateAnswer, StoreProvenance,
            PrepareReply, BeginAttempt, VerifyAttempt, ReadyAnswer, BubbleAnswer, Settle,
            CourierStep, CleanupCompleted, Claim, VerifyTakeover, UploadAnswer, PartAnswer,
            HeartbeatLost, ConsoleStep, SetTakeover, SettingsChange, Upload, DeleteImage,
            Enqueue, SellerToggles, ToggleOnce, ModeExpires, LeaseExpires, WorkerStops,
            WorkerStarts, talkVars

\* The invariant is inductive.
LEMMA TalkInvIsKept ==
    ASSUME TalkInv, [TalkNext]_talkVars
    PROVE  TalkInv'
<1>1. HandlerGood /\ PartsGood /\ ImagesGood /\ TurnInv' /\ talk' \in TalkRow
  BY EveryStepIsTrue, EveryStepIsOrderly, TurnInvIsKept, TalkIsTyped DEF TalkInv
<1>2. wire' \in WireRow'
  BY <1>1, WireIsTyped DEF TalkInv, HandlerGood, PartsGood, WireRow
<1>3. TalkTypeOK'
  BY <1>1, <1>2
     DEF HandlerGood, PartsGood, ImagesGood, TalkTypeOK, TalkInv, CourierRow, HandlerRow,
         TalkRow, OutboxRow, LedgerRow, Proofs
<1>4. LedgerInv'
  <2>1. HandlerOK' /\ \A m \in Messages' : RowIsTrue(ledger[m], wire.auto[m])'
    BY <1>1 DEF HandlerGood, RowIsTrue
  <2> QED BY <2>1 DEF LedgerInv, LedgerIsTrue, DraftsHaveText, RowIsTrue
<1> QED BY <1>1, <1>3, <1>4 DEF TalkInv, PartsGood, ImagesGood

\* A conversation begins in order.
LEMMA TalkInitIsGood ==
    ASSUME NEW ms \in SUBSET Nat, NEW qs \in SUBSET Replies, TalkInit(ms, qs)
    PROVE  TalkInv
<1>1. Unanswered \in LedgerRow /\ NotQueued \in OutboxRow /\ NoProof \in Proofs
  BY DEF Unanswered, NotQueued, NoProof, LedgerRow, OutboxRow, Proofs
<1>2. handler \in HandlerRow /\ handler.pc = "idle" /\ courier \in CourierRow
      /\ courier.pc = "idle"
  BY <1>1 DEF TalkInit, Resting, Parked, HandlerRow, CourierRow
<1>3. talk \in TalkRow /\ talk.strays = 0
  BY DEF TalkInit, TalkRow
<1>4. /\ ledger \in [ms -> LedgerRow] /\ Messages = ms
      /\ outbox \in [qs -> OutboxRow] /\ DOMAIN outbox = qs
      /\ \A m \in ms : ledger[m] = Unanswered
      /\ \A q \in qs : outbox[q] = NotQueued
  BY <1>1 DEF TalkInit, Messages
<1>5. /\ wire.auto = [m \in ms |-> {}] /\ wire.manual = [q \in qs |-> {}]
      /\ wire = [auto |-> wire.auto, manual |-> wire.manual]
  BY DEF TalkInit
<1>6. wire \in WireRow
  <2>1. wire.auto \in [Messages -> SUBSET (Nat \X Nat)]
        /\ wire.manual \in [DOMAIN outbox -> SUBSET Nat]
    BY <1>4, <1>5
  <2> QED BY <1>5, <2>1 DEF WireRow
<1>7. images = [i \in UNION {Range(MediaOf[q]) : q \in qs} |-> "none"]
  BY DEF TalkInit
<1>8. TalkTypeOK
  BY <1>2, <1>3, <1>4, <1>6, <1>7 DEF TalkTypeOK
<1>9. LedgerInv
  <2>1. HandlerOK
    BY <1>2 DEF HandlerOK, Attempting
  <2>2. \A m \in Messages : RowIsTrue(ledger[m], wire.auto[m])
    BY <1>4, <1>5 DEF RowIsTrue, Unanswered
  <2> QED BY <2>1, <2>2, RowsAreTrue
<1>10. TurnInv
  BY <1>3 DEF TurnInv
<1>11. PartsInv
  <2>1. ASSUME NEW q \in DOMAIN outbox
        PROVE  /\ wire.manual[q] \subseteq 1..outbox[q].acked + 1
               /\ 1..outbox[q].acked \subseteq wire.manual[q]
               /\ outbox[q].acked <= Parts(q)
               /\ outbox[q].status = "acknowledged" <=> outbox[q].acked = Parts(q)
    <3>1. Parts(q) \in Nat \ {0}
      BY <1>4, PartsAreCounted
    <3>2. outbox[q].acked = 0 /\ outbox[q].status = "none" /\ wire.manual[q] = {}
      BY <1>4, <1>5 DEF NotQueued
    <3> QED BY <3>1, <3>2
  <2> QED BY <1>2, <2>1 DEF PartsInv, CourierOK
<1>12. ImagesInv
  <2>1. ASSUME NEW q \in DOMAIN outbox, NEW j \in DOMAIN MediaOf[q]
        PROVE  MediaOf[q][j] \in DOMAIN images
    BY <1>4, <1>7 DEF Range
  <2>2. ImagesAreKept
    BY <1>4 DEF ImagesAreKept, NotQueued, Open, Waiting
  <2> QED BY <2>1, <2>2 DEF ImagesInv
<1> QED BY <1>8, <1>9, <1>10, <1>11, <1>12 DEF TalkInv

-------------------------------------------------------------------------------
(* The theorems.                                                           *)

\* A worker process starts like each of its parts, and a step of it is a step or a
\* stutter of each part.
LEMMA PartsOfTheWorker ==
    /\ WorkerInit => Init /\ SessionInit
                     /\ \E ms \in SUBSET Nat, qs \in SUBSET Replies : TalkInit(ms, qs)
    /\ [WorkerNext]_workerProcessVars =>
           [Next]_vars /\ [TalkNext]_talkVars /\ [SessionNext]_sessionVars
<1>1. ASSUME WorkerInit
      PROVE  \E ms \in SUBSET Nat, qs \in SUBSET Replies : TalkInit(ms, qs)
  <2>1. /\ {} \in SUBSET Nat /\ {1} \in SUBSET Nat /\ 1..LastMessage \in SUBSET Nat
        /\ {} \in SUBSET Replies
        /\ \A r \in Replies : {r} \in SUBSET Replies
        /\ {q \in Replies : MediaOf[q] # <<>>} \in SUBSET Replies
    OBVIOUS
  <2>2. CASE TalkInit({}, {})
    BY <2>1, <2>2
  <2>3. CASE Conversing
    BY <2>1, <2>3 DEF Conversing
  <2> QED BY <1>1, <2>2, <2>3 DEF WorkerInit
<1>2. ASSUME [WorkerNext]_workerProcessVars
      PROVE  [Next]_vars /\ [TalkNext]_talkVars /\ [SessionNext]_sessionVars
  BY <1>2 DEF WorkerNext, workerProcessVars
<1> QED BY <1>1, <1>2 DEF WorkerInit

\* Beside its conversations and its session, a worker process fulfils orders as
\* Fulfillment says.
THEOREM WorkerFulfilsOrders == WorkerSpec => Spec
<1>1. WorkerInit => Init
  BY PartsOfTheWorker
<1>2. [WorkerNext]_workerProcessVars => [Next]_vars
  BY PartsOfTheWorker
<1> QED BY <1>1, <1>2, PTL DEF WorkerSpec, Spec

\* So an order it delivers has all its codes, and no code leaves it that had been revoked when
\* the platform's answer for the attempt arrived.
THEOREM WorkerDeliversInFull == WorkerSpec => []DeliveredInFull /\ RevokedCodesAreNotSent
BY WorkerFulfilsOrders, DeliveriesAreComplete, RevokedCodesStay, PTL

\* The inductive invariant of the conversations: the ledger row of every message, whose
\* turn it is, the parts of the manual replies and their images.
THEOREM ConversationIsSafe == WorkerSpec => []TalkInv
<1>1. WorkerInit => TalkInv
  BY PartsOfTheWorker, TalkInitIsGood
<1>2. TalkInv /\ [WorkerNext]_workerProcessVars => TalkInv'
  BY PartsOfTheWorker, TalkInvIsKept
<1> QED BY <1>1, <1>2, PTL DEF WorkerSpec

\* The outcome stored for a message is what the buyer got: bubbles of the stored draft
\* only, all of them for an answer, none for a row without a draft.
THEOREM OutcomesAreTrue == WorkerSpec => []LedgerIsTrue
<1>1. TalkInv => LedgerIsTrue
  BY DEF TalkInv, LedgerInv
<1> QED BY <1>1, ConversationIsSafe, PTL

\* After the seller has taken a chat over, or handed it back, at most the one bubble or
\* part that had already passed its check still leaves.
THEOREM TurnsAreRespected == WorkerSpec => []HandsAreKept
<1>1. TalkInv => HandsAreKept
  BY DEF TalkInv, TurnInv, HandsAreKept
<1> QED BY <1>1, ConversationIsSafe, PTL

\* The parts of a manual reply leave in order and none is skipped; the reply is
\* acknowledged exactly when all of them were.
THEOREM RepliesArriveInOrder == WorkerSpec => []PartsInOrder
<1>1. ASSUME TalkInv, courier.pc # "idle" PROVE courier.part > outbox[courier.q].acked
  <2>1. outbox[courier.q].acked \in Nat /\ courier.part = outbox[courier.q].acked + 1
    BY <1>1 DEF TalkInv, TalkTypeOK, PartsInv, CourierOK, OutboxRow
  <2> QED BY <2>1
<1>2. TalkInv => PartsInOrder
  BY <1>1 DEF TalkInv, PartsInv, PartsInOrder
<1> QED BY <1>2, ConversationIsSafe, PTL

\* No clean-up, deletion or new upload removes an image that an open manual reply has yet
\* to send.
THEOREM ImagesStayOnDisk == WorkerSpec => []ImagesAreKept
<1>1. TalkInv => ImagesAreKept
  BY DEF TalkInv, ImagesInv
<1> QED BY <1>1, ConversationIsSafe, PTL

\* Once the platform has asked for a person, the hold that was filed stands, no connection
\* is used and no token requested, over reconnects, crashes and restarts; only a token
\* request that was under way at that moment still writes its answer over it.
THEOREM HoldsStand == WorkerSpec => []HoldIsKept
<1>1. SessionInit => SessionInv
  <2>1. ASSUME SessionInit PROVE SessionTypeOK
    BY <2>1 DEF SessionInit, SessionTypeOK, Down, Nobody, Unmarked, AuthRow, Phases, LiveRow,
               AskingRow, MarkRow
  <2>2. ASSUME SessionInit PROVE ~mark.held /\ ~mark.asked
    BY <2>2 DEF SessionInit, Unmarked
  <2> QED BY <2>1, <2>2 DEF SessionInv, HoldOK, HoldStands
<1>2. WorkerInit => SessionInv
  BY <1>1, PartsOfTheWorker
<1>3. SessionInv /\ [WorkerNext]_workerProcessVars => SessionInv'
  BY PartsOfTheWorker, SessionInvIsKept
<1>4. SessionInv => HoldIsKept
  BY DEF SessionInv, HoldOK, HoldStands, Frozen, HoldIsKept
<1> QED BY <1>2, <1>3, <1>4, PTL DEF WorkerSpec
===============================================================================
