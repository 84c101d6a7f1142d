--------------------------- MODULE ApplyRollback ----------------------------
(***************************************************************************)
(* Applying staged changes with rollback protection.  Four parties:        *)
(*   the page (ui.js "changes"), which applies, asks for confirmation      *)
(*     again and again until a deadline and then waits for the rollback;   *)
(*   the controller (admin/uci.uc), which hands out a token and keeps it   *)
(*     in a session object together with the time it expires;              *)
(*   rpcd, which applies the changes and rolls them back unless confirmed; *)
(*   the network between them, which the changes may have broken.          *)
(* rpcd is external: it is modelled as the controller uses it.  Time is in *)
(* units of a second, as the controller sees it.                           *)
(***************************************************************************)
EXTENDS Integers

CONSTANTS
  Rollback,    \* option rollback of the configuration
  MinRollback, \* 90
  ReplyDelay,  \* bound on the time the reply to a checked apply takes
  MaxLosses,   \* bound on the requests and replies lost or late
  LoseApply,   \* may those of the apply request be lost?
  StoreMayFail, \* may the call that stores the token fail?
  MaxApplies,  \* bound on the number of apply requests
  MaxTime,     \* bound on the clock
  ApplyBy      \* bound on the time the last apply request is handled

Longer(a, b) == IF a < b THEN b ELSE a

ASSUME ApplyAssumption ==
  /\ {Rollback, MinRollback} \subseteq Nat \ {0}
  /\ {ReplyDelay, MaxLosses, MaxApplies, MaxTime, ApplyBy} \subseteq Nat
  /\ {LoseApply, StoreMayFail} \subseteq BOOLEAN
  /\ ApplyBy + ReplyDelay + Longer(Rollback, MinRollback) + 2 <= MaxTime

VARIABLES
  now,       \* the clock
  staged,    \* are there changes staged in rpcd?
  conf,      \* the settings in force: "old", "new" (unconfirmed) or "kept"
  timer,     \* when rpcd rolls back, or NoTimer
  pending,   \* the apply request for which no token is stored yet, or 0
  session,   \* session data: the token (number of the apply) and its expiry
  ui,        \* what the page does or shows
  checked,   \* is it a checked apply?
  deadline,  \* until when confirm() tries
  auth,      \* changes.confirm_auth: the token the page has, or 0
  msg,       \* the request of the page under way, and its HTTP status
  stale,     \* tokens of confirm requests the page gave up, not yet handled
  losses, applies

server == <<staged, conf, timer, pending, session>>
page == <<ui, checked, deadline, auth>>
vars == <<now, server, page, msg, stale, losses, applies>>

NoTimer == -1
NoToken == [id |-> 0, expires |-> -1]
NoMsg == [kind |-> "none", id |-> 0, status |-> 0]
Failed == -1      \* the status of a request that timed out or was cut off

RollbackTime == Longer(Rollback, MinRollback)  \* of rpcd and env.apply_rollback

Init ==
  /\ now = 0 /\ staged \in BOOLEAN /\ conf = "old" /\ timer = NoTimer
  /\ pending = 0 /\ session = NoToken
  /\ ui = "idle" /\ checked = FALSE /\ deadline = 0 /\ auth = 0
  /\ msg = NoMsg /\ stale = {} /\ losses = 0 /\ applies = 0

-----------------------------------------------------------------------------
(* The page *)

\* the user saves further edits, which stages them in rpcd; what was in force
\* is the old settings from then on
Stage ==
  /\ ui \in {"idle", "applied"} /\ msg = NoMsg /\ pending = 0
  /\ ~staged /\ timer = NoTimer /\ applies < MaxApplies /\ now <= ApplyBy
  /\ staged' = TRUE /\ conf' = "old"
  /\ ui' = "idle"
  /\ UNCHANGED <<now, timer, pending, session, checked, deadline, auth, msg,
                 stale, losses, applies>>

\* changes.apply(c), from the dialog or from the one that shows a rollback
Apply(c) ==
  /\ ui \in {"idle", "rolledback"} /\ msg = NoMsg
  /\ applies < MaxApplies /\ now <= ApplyBy
  /\ ui' = "starting" /\ checked' = c
  /\ applies' = applies + 1
  /\ msg' = [kind |-> "apply", id |-> applies', status |-> 0]
  /\ UNCHANGED <<now, server, deadline, auth, stale, losses>>

\* the reply to it
ApplyReply ==
  /\ ui = "starting" /\ msg.status # 0
  /\ LET ok == msg.status = (IF checked THEN 200 ELSE 204)
     IN  /\ ui' = IF ok THEN "holdoff"
                  ELSE IF checked /\ msg.status = 204 THEN "nothing"
                  ELSE "refused"
         /\ deadline' = IF ok THEN now + RollbackTime ELSE deadline
         /\ auth' = IF ok /\ checked THEN msg.id ELSE auth
  /\ msg' = NoMsg
  /\ UNCHANGED <<now, server, checked, stale, losses, applies>>

\* changes.rollback(checked)
GaveUp == IF checked THEN "waiting" ELSE "unreachable"

\* confirm() calls call() for the first time after apply_holdoff
FirstCall ==
  /\ ui = "holdoff"
  /\ ui' = IF now >= deadline THEN GaveUp ELSE "confirming"
  /\ UNCHANGED <<now, server, checked, deadline, auth, msg, stale, losses,
                 applies>>

\* call() requests a confirmation; rollback() does so with the page's own
\* token, which is never the one of the apply
Send ==
  /\ ui \in {"confirming", "waiting"} /\ msg = NoMsg
  /\ msg' = [kind |-> "confirm", status |-> 0,
             id |-> IF ui = "confirming" THEN auth ELSE 0]
  /\ UNCHANGED <<now, server, page, stale, losses, applies>>

\* Mutant of ConfirmReply: the status first, then the deadline
ConfirmReplyStatusFirst ==
  /\ ui = "confirming" /\ msg.status # 0
  /\ ui' = IF msg.status \in {200, 204} THEN "applied"
           ELSE IF now >= deadline THEN GaveUp ELSE ui
  /\ msg' = NoMsg
  /\ UNCHANGED <<now, server, checked, deadline, auth, stale, losses, applies>>

\* call() of confirm(): the deadline first, then the status
ConfirmReply ==
  /\ ui = "confirming" /\ msg.status # 0
  /\ ui' = IF now >= deadline THEN GaveUp
           ELSE IF msg.status \in {200, 204} THEN "applied" ELSE ui
  /\ msg' = NoMsg
  /\ UNCHANGED <<now, server, checked, deadline, auth, stale, losses, applies>>

\* Mutant of RollbackReply: it waits for 200
RollbackReplyOk ==
  /\ ui = "waiting" /\ msg.status # 0
  /\ ui' = IF msg.status = 200 THEN "rolledback" ELSE ui
  /\ msg' = NoMsg
  /\ UNCHANGED <<now, server, checked, deadline, auth, stale, losses, applies>>

\* call() of rollback()
RollbackReply ==
  /\ ui = "waiting" /\ msg.status # 0
  /\ ui' = IF msg.status = 204 THEN "rolledback" ELSE ui
  /\ msg' = NoMsg
  /\ UNCHANGED <<now, server, checked, deadline, auth, stale, losses, applies>>

\* The page is loaded anew.  The footer resumes confirm() if a rollback is
\* pending (rollback_pending()).  A confirm request under way may still arrive.
Reload ==
  /\ msg.kind = "apply" => msg.status # 0
  /\ IF session # NoToken /\ session.expires > now
     THEN /\ ui' = "holdoff" /\ checked' = TRUE
          /\ deadline' = session.expires /\ auth' = session.id
     ELSE /\ ui' = "idle" /\ checked' = FALSE /\ deadline' = 0 /\ auth' = 0
  /\ msg' = NoMsg
  /\ stale' \in {stale} \cup
       (IF msg.kind = "confirm" /\ msg.status = 0 THEN {stale \cup {msg.id}}
                                                  ELSE {})
  /\ UNCHANGED <<now, server, losses, applies>>

-----------------------------------------------------------------------------
(* The controller and rpcd *)

Answer(st) == msg' = [msg EXCEPT !.status = st]

\* uci_apply(false), and either form when there is nothing staged
ApplyNow ==
  /\ msg.kind = "apply" /\ msg.status = 0 /\ pending = 0
  /\ ~staged \/ ~checked
  /\ conf' = IF staged THEN "kept" ELSE conf
  /\ staged' = FALSE
  /\ Answer(204)
  /\ UNCHANGED <<now, timer, pending, session, page, stale, losses, applies>>

\* Mutant of ApplyChecked: rollback: true is missing
ApplyCheckedNoTimer ==
  /\ msg.kind = "apply" /\ msg.status = 0 /\ pending = 0
  /\ staged /\ checked
  /\ conf' = "new" /\ staged' = FALSE
  /\ pending' = msg.id
  /\ UNCHANGED <<now, timer, session, page, msg, stale, losses, applies>>

\* uci_apply(true): rpcd applies and starts its timer ...
ApplyChecked ==
  /\ msg.kind = "apply" /\ msg.status = 0 /\ pending = 0
  /\ staged /\ checked
  /\ conf' = "new" /\ staged' = FALSE
  /\ timer' = now + RollbackTime
  /\ pending' = msg.id
  /\ UNCHANGED <<now, session, page, msg, stale, losses, applies>>

\* ... then the token is stored, which nobody verifies, and sent to the page
StoreToken ==
  /\ pending # 0
  /\ \/ session' = [id |-> pending, expires |-> now + Rollback]
     \/ StoreMayFail /\ UNCHANGED session
  /\ pending' = 0
  /\ IF msg.kind = "apply" /\ msg.status = 0 THEN Answer(200) ELSE UNCHANGED msg
  /\ UNCHANGED <<now, staged, conf, timer, page, stale, losses, applies>>

\* a ubus call fails and nothing changes
RefuseApply ==
  /\ msg.kind = "apply" /\ msg.status = 0 /\ pending = 0
  /\ Answer(500)
  /\ UNCHANGED <<now, server, page, stale, losses, applies>>

\* uci_confirm(token) and the status it ends with
Valid == session # NoToken /\ session.expires >= now
Confirmed(id) == Valid /\ id = session.id /\ timer # NoTimer

\* Mutant of ConfirmStatus: the ubus status, not mapped to HTTP
ConfirmStatusOfUbus(id) == IF ~Valid THEN 5
                           ELSE IF id # session.id THEN 6 ELSE 0

ConfirmStatus(id) == IF ~Valid THEN 204
                     ELSE IF id # session.id THEN 403
                     ELSE IF timer = NoTimer THEN 204 ELSE 200

\* Mutant of Confirm: the timer goes on
ConfirmKeepsTimer(id) ==
  /\ conf' = IF Confirmed(id) THEN "kept" ELSE conf
  /\ session' = IF Confirmed(id) THEN NoToken ELSE session
  /\ UNCHANGED <<staged, timer, pending>>

Confirm(id) ==
  /\ conf' = IF Confirmed(id) THEN "kept" ELSE conf
  /\ timer' = IF Confirmed(id) THEN NoTimer ELSE timer
  /\ session' = IF Confirmed(id) THEN NoToken ELSE session
  /\ UNCHANGED <<staged, pending>>

HandleConfirm ==
  /\ msg.kind = "confirm" /\ msg.status = 0
  /\ Confirm(msg.id)
  /\ Answer(ConfirmStatus(msg.id))
  /\ UNCHANGED <<now, page, stale, losses, applies>>

HandleStale ==
  \E id \in stale : /\ Confirm(id)
                    /\ stale' = stale \ {id}
                    /\ UNCHANGED <<now, page, msg, losses, applies>>

\* rpcd's timer runs out: the old settings again, the changes staged again
RollBack ==
  /\ timer # NoTimer /\ now >= timer
  /\ conf' = "old" /\ staged' = TRUE /\ timer' = NoTimer
  /\ UNCHANGED <<now, pending, session, page, msg, stale, losses, applies>>

-----------------------------------------------------------------------------
(* The network and the clock *)

\* a confirm request or its reply is lost, or takes longer than apply_timeout
LoseConfirm ==
  /\ losses < MaxLosses /\ msg.kind = "confirm" /\ msg.status # Failed
  /\ losses' = losses + 1
  /\ Answer(Failed)
  /\ stale' \in {stale} \cup
       (IF msg.status = 0 THEN {stale \cup {msg.id}} ELSE {})
  /\ UNCHANGED <<now, server, page, applies>>

\* so is the apply request or its reply: nobody handles the rejected promise
LoseApplyReply ==
  /\ LoseApply /\ losses < MaxLosses /\ msg.kind = "apply" /\ pending = 0
  /\ losses' = losses + 1
  /\ msg' = NoMsg /\ ui' = "hung"
  /\ UNCHANGED <<now, server, checked, deadline, auth, stale, applies>>

\* (the reply to an apply request takes no longer than ReplyDelay)
Tick ==
  /\ now < MaxTime
  /\ timer = NoTimer \/ now < timer
  /\ msg.kind = "apply" /\ msg.status = 0 /\ pending = 0 => now < ApplyBy
  /\ pending # 0 \/ (msg.kind = "apply" /\ msg.status # 0) =>
       /\ now < ApplyBy + ReplyDelay
       /\ timer # NoTimer => now < timer - RollbackTime + ReplyDelay
  /\ now' = now + 1
  /\ UNCHANGED <<server, page, msg, stale, losses, applies>>

Next ==
  \/ Stage
  \/ \E c \in BOOLEAN : Apply(c)
  \/ ApplyReply \/ FirstCall \/ Send \/ ConfirmReply \/ RollbackReply \/ Reload
  \/ ApplyNow \/ ApplyChecked \/ StoreToken \/ RefuseApply
  \/ HandleConfirm \/ HandleStale \/ RollBack
  \/ LoseConfirm \/ LoseApplyReply \/ Tick

Spec == Init /\ [][Next]_vars

\* the page's timers and callbacks run, the server answers, time passes
FairSpec ==
  /\ Spec
  /\ WF_vars(ApplyReply) /\ WF_vars(FirstCall) /\ WF_vars(Send)
  /\ WF_vars(ConfirmReply) /\ WF_vars(RollbackReply)
  /\ WF_vars(ApplyNow \/ ApplyChecked) /\ WF_vars(StoreToken)
  /\ WF_vars(HandleConfirm) /\ WF_vars(RollBack) /\ WF_vars(Tick)

-----------------------------------------------------------------------------
Shown == {"applied", "rolledback", "nothing", "refused", "unreachable"}

TypeOK ==
  /\ now \in 0..MaxTime /\ staged \in BOOLEAN
  /\ conf \in {"old", "new", "kept"}
  /\ timer \in Nat \cup {NoTimer} /\ pending \in Nat
  /\ session \in [id : Nat, expires : Int]
  /\ ui \in Shown \cup {"idle", "starting", "holdoff", "confirming",
                        "waiting", "hung"}
  /\ checked \in BOOLEAN /\ deadline \in Nat /\ auth \in Nat
  /\ msg \in [kind : {"none", "apply", "confirm"}, id : Nat,
              status : {0, 200, 204, 403, 500, Failed}]
  /\ stale \subseteq Nat /\ losses \in Nat /\ applies \in Nat

\* rpcd's timer runs exactly while unconfirmed settings are in force: they
\* are confirmed or rolled back, however many confirm requests come late or
\* twice.
TimerGuardsNew == conf = "new" <=> timer # NoTimer

\* The settings that a confirmation (or an unchecked apply) kept are never
\* rolled back, nor put at risk again before further changes are staged, by
\* whatever requests for an earlier apply come late (uci.uc uci_confirm).
KeptStays == [][~Stage /\ conf = "kept" => conf' = "kept"]_vars

\* "Configuration changes applied." (ui.js:4616): when the page comes to say
\* so, no rollback is due and none has put the changes back.  Changes may be
\* staged only while the token has not expired: then they are later ones, and
\* the page has confirmed, after a reload, what was confirmed before.
AppliedIsFinal ==
  [][ui # "applied" /\ ui' = "applied" /\ checked
       => timer = NoTimer /\ (staged => now < session.expires)]_vars

\* Unconfirmed settings do not stay: they are rolled back if the page is gone.
NewIsDecided == conf = "new" ~> conf # "new"

\* Every apply whose request is answered ends with a message, however many
\* confirm requests are lost or late and whatever the server made of the token
\* ("the current view reloaded once the apply process is complete",
\* ui.js:4662).  An apply request that is not answered leaves the dialog open.
ApplyEnds == ui = "starting" ~> ui \in Shown \cup {"idle", "hung"}
=============================================================================
