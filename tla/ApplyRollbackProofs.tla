------------------------ MODULE ApplyRollbackProofs -------------------------
(***************************************************************************)
(* Proofs about ApplyRollback: rpcd's timer guards exactly the unconfirmed *)
(* settings, confirmed settings stay, and the page says "applied" only of  *)
(* what stays, whatever the timeouts, however many requests are lost or    *)
(* late and however often the page is reloaded.                            *)
(***************************************************************************)
EXTENDS ApplyRollback, TLAPS

\* Changes are staged only while the old settings are in force: nothing is
\* staged that a further apply could make unconfirmed over kept settings, or
\* keep while the timer runs.
KeptInv == staged => conf = "old"

ApplyInv == TypeOK /\ TimerGuardsNew /\ KeptInv

LEMMA RollbackTimeNat == RollbackTime \in Nat
  BY ApplyAssumption DEF RollbackTime, Longer

LEMMA InitInv == Init => ApplyInv
<1> SUFFICES ASSUME Init PROVE ApplyInv
  OBVIOUS
<1>1. MaxTime \in Nat /\ 0 \in 0..MaxTime
  BY ApplyAssumption
<1>2. TypeOK
  <2>1. checked \in BOOLEAN
    BY Zenon DEF Init
  <2>2. msg \in [kind : {"none", "apply", "confirm"}, id : Nat,
                 status : {0, 200, 204, 403, 500, Failed}]
    BY DEF Init, NoMsg
  <2>3. session \in [id : Nat, expires : Int] /\ timer \in Nat \cup {NoTimer}
    BY DEF Init, NoToken
  <2> QED
    BY <1>1, <2>1, <2>2, <2>3 DEF Init, TypeOK, Shown
<1>3. TimerGuardsNew /\ KeptInv
  BY DEF Init, TimerGuardsNew, KeptInv
<1> QED
  BY <1>2, <1>3 DEF ApplyInv

LEMMA ConfirmInv ==
  ASSUME ApplyInv, NEW id, Confirm(id)
  PROVE  /\ staged' \in BOOLEAN /\ conf' \in {"old", "new", "kept"}
         /\ timer' \in Nat \cup {NoTimer} /\ pending' \in Nat
         /\ session' \in [id : Nat, expires : Int]
         /\ TimerGuardsNew' /\ KeptInv'
         /\ conf = "kept" => conf' = "kept"
<1>a. TypeOK /\ TimerGuardsNew /\ KeptInv
  BY DEF ApplyInv
<1>1. CASE Confirmed(id)
  <2>1. /\ conf = "new" /\ ~staged
        /\ conf' = "kept" /\ timer' = NoTimer /\ session' = NoToken
        /\ staged' = staged /\ pending' = pending
    <3>1. conf = "new"
      BY <1>a, <1>1 DEF Confirmed, TimerGuardsNew
    <3>2. ~staged
      BY <1>a, <3>1 DEF KeptInv
    <3> QED
      BY <1>1, <3>1, <3>2 DEF Confirm
  <2> QED
    BY <1>a, <2>1 DEF TypeOK, TimerGuardsNew, KeptInv, NoToken
<1>2. CASE ~Confirmed(id)
  <2>1. UNCHANGED server
    BY <1>2 DEF Confirm, server
  <2> QED
    BY <1>a, <2>1 DEF TypeOK, TimerGuardsNew, KeptInv, server
<1> QED
  BY <1>1, <1>2

LEMMA NextInv == ApplyInv /\ [Next]_vars => ApplyInv'
<1> SUFFICES ASSUME ApplyInv, [Next]_vars
             PROVE  ApplyInv'
  OBVIOUS
<1> USE ApplyAssumption, RollbackTimeNat
<1>a. TypeOK /\ TimerGuardsNew /\ KeptInv
  BY DEF ApplyInv
<1>1. ASSUME NEW c \in BOOLEAN, Apply(c) PROVE ApplyInv'
  BY <1>a, <1>1 DEF ApplyInv, TypeOK, TimerGuardsNew, KeptInv, Apply, server,
                    Shown
<1>2. CASE ApplyReply
  BY <1>a, <1>2 DEF ApplyInv, TypeOK, TimerGuardsNew, KeptInv, ApplyReply,
                    server, Shown, NoMsg
<1>3. CASE FirstCall
  BY <1>a, <1>3 DEF ApplyInv, TypeOK, TimerGuardsNew, KeptInv, FirstCall,
                    server, Shown, GaveUp
<1>4. CASE Send
  BY <1>a, <1>4 DEF ApplyInv, TypeOK, TimerGuardsNew, KeptInv, Send, server,
                    page
<1>5. CASE ConfirmReply
  BY <1>a, <1>5 DEF ApplyInv, TypeOK, TimerGuardsNew, KeptInv, ConfirmReply,
                    server, Shown, NoMsg, GaveUp
<1>6. CASE RollbackReply
  BY <1>a, <1>6 DEF ApplyInv, TypeOK, TimerGuardsNew, KeptInv, RollbackReply,
                    server, Shown, NoMsg
<1>7. CASE Reload
  <2>0. checked' \in BOOLEAN
    BY <1>7, Zenon DEF Reload
  <2>1. ui' \in {"holdoff", "idle"} /\ auth' \in Nat /\ deadline' \in Nat
    BY <1>a, <1>7 DEF TypeOK, Reload
  <2>2. stale' \subseteq Nat
    BY <1>a, <1>7 DEF TypeOK, Reload
  <2> QED
    BY <1>a, <1>7, <2>0, <2>1, <2>2 DEF ApplyInv, TypeOK, TimerGuardsNew, KeptInv,
                                  Reload, server, NoMsg
<1>8. CASE ApplyNow
  <2>1. staged' = FALSE /\ staged' \in BOOLEAN /\ UNCHANGED page
    BY <1>8, Zenon DEF ApplyNow
  <2>2. conf' = conf \/ (conf = "old" /\ conf' = "kept")
    <3>1. CASE staged
      BY <1>a, <1>8, <3>1 DEF ApplyNow, KeptInv
    <3>2. CASE ~staged
      BY <1>8, <3>2 DEF ApplyNow
    <3> QED
      BY <3>1, <3>2
  <2>3. msg' \in [kind : {"none", "apply", "confirm"}, id : Nat,
                  status : {0, 200, 204, 403, 500, Failed}]
    BY <1>a, <1>8 DEF TypeOK, ApplyNow, Answer
  <2>4. UNCHANGED <<now, timer, pending, session, stale, losses, applies>>
    BY <1>8 DEF ApplyNow
  <2> QED
    BY <1>a, <2>1, <2>2, <2>3, <2>4 DEF ApplyInv, TypeOK, TimerGuardsNew,
                                        KeptInv, page
<1>9. CASE ApplyChecked
  <2>1. staged' = FALSE /\ staged' \in BOOLEAN /\ UNCHANGED page
    BY <1>9, Zenon DEF ApplyChecked
  <2>2. /\ conf' = "new" /\ timer' \in Nat /\ pending' \in Nat
        /\ UNCHANGED <<now, session, msg, stale, losses, applies>>
    BY <1>a, <1>9 DEF TypeOK, ApplyChecked
  <2> QED
    BY <1>a, <2>1, <2>2 DEF ApplyInv, TypeOK, TimerGuardsNew, KeptInv, page,
                            NoTimer
<1>10. CASE StoreToken
  <2>1. session' \in [id : Nat, expires : Int]
    BY <1>a, <1>10 DEF TypeOK, StoreToken
  <2>2. msg' \in [kind : {"none", "apply", "confirm"}, id : Nat,
                  status : {0, 200, 204, 403, 500, Failed}]
    BY <1>a, <1>10 DEF TypeOK, StoreToken, Answer
  <2> QED
    BY <1>a, <1>10, <2>1, <2>2 DEF ApplyInv, TypeOK, TimerGuardsNew, KeptInv,
                                   StoreToken, page
<1>11. CASE RefuseApply
  BY <1>a, <1>11 DEF ApplyInv, TypeOK, TimerGuardsNew, KeptInv, RefuseApply,
                     page, server, Answer
<1>12. CASE HandleConfirm
  <2>1. ConfirmStatus(msg.id) \in {0, 200, 204, 403, 500, Failed}
    BY DEF ConfirmStatus
  <2> QED
    BY <1>a, <1>12, <2>1, ConfirmInv DEF ApplyInv, TypeOK, HandleConfirm, page,
                                         Answer
<1>13. CASE HandleStale
  <2>1. PICK id \in stale : /\ Confirm(id)
                            /\ stale' = stale \ {id}
                            /\ UNCHANGED <<now, page, msg, losses, applies>>
    BY <1>13 DEF HandleStale
  <2> QED
    BY <1>a, <2>1, ConfirmInv DEF ApplyInv, TypeOK, page
<1>14. CASE RollBack
  BY <1>a, <1>14 DEF ApplyInv, TypeOK, TimerGuardsNew, KeptInv, RollBack, page
<1>15. CASE LoseConfirm
  <2>1. stale' \subseteq Nat
    BY <1>a, <1>15 DEF TypeOK, LoseConfirm
  <2> QED
    BY <1>a, <1>15, <2>1 DEF ApplyInv, TypeOK, TimerGuardsNew, KeptInv,
                             LoseConfirm, page, server, Answer
<1>16. CASE LoseApplyReply
  BY <1>a, <1>16 DEF ApplyInv, TypeOK, TimerGuardsNew, KeptInv, LoseApplyReply,
                     server, NoMsg
<1>17. CASE Tick
  BY <1>a, <1>17 DEF ApplyInv, TypeOK, TimerGuardsNew, KeptInv, Tick, page,
                     server
<1>18. CASE Stage
  <2>1. staged' = TRUE /\ staged' \in BOOLEAN /\ checked' = checked
    BY <1>18, Zenon DEF Stage
  <2>2. /\ conf' = "old" /\ ui' = "idle" /\ timer = NoTimer
        /\ UNCHANGED <<now, timer, pending, session, deadline, auth, msg,
                       stale, losses, applies>>
    BY <1>18 DEF Stage
  <2> QED
    BY <1>a, <2>1, <2>2 DEF ApplyInv, TypeOK, TimerGuardsNew, KeptInv
<1>19. CASE UNCHANGED vars
  BY <1>a, <1>19 DEF ApplyInv, TypeOK, TimerGuardsNew, KeptInv, vars, page,
                     server
<1> QED
  BY <1>1, <1>2, <1>3, <1>4, <1>5, <1>6, <1>7, <1>8, <1>9, <1>10, <1>11,
     <1>12, <1>13, <1>14, <1>15, <1>16, <1>17, <1>18,
     <1>19 DEF Next

LEMMA Invariance == Spec => []ApplyInv
  BY InitInv, NextInv, PTL DEF Spec

-----------------------------------------------------------------------------
\* Every variable keeps its type, in particular the HTTP status to one that
\* the page distinguishes.
THEOREM TypeCorrect == Spec => []TypeOK
<1>1. ApplyInv => TypeOK
  BY DEF ApplyInv
<1> QED
  BY <1>1, Invariance, PTL

\* rpcd's timer runs exactly while settings are in force that nobody confirmed
\* (uci.uc uci_apply, uci_confirm; rpcd's timer).
THEOREM TimerGuardsUnconfirmed == Spec => []TimerGuardsNew
<1>1. ApplyInv => TimerGuardsNew
  BY DEF ApplyInv
<1> QED
  BY <1>1, Invariance, PTL

\* Confirmed settings are never rolled back: no request that comes late or
\* twice, and no later apply without newly staged changes, starts another
\* countdown over them.
THEOREM ConfirmedStays == Spec => KeptStays
<1>1. ASSUME ApplyInv, [Next]_vars
      PROVE  [~Stage /\ conf = "kept" => conf' = "kept"]_vars
  <2> SUFFICES ASSUME ~Stage, conf = "kept" PROVE conf' = "kept"
    BY DEF vars
  <2>a. ~staged /\ timer = NoTimer
    BY <1>1 DEF ApplyInv, KeptInv, TimerGuardsNew
  <2>1. ASSUME NEW id, Confirm(id) PROVE conf' = "kept"
    BY <1>1, <2>1, ConfirmInv
  <2> QED
    BY <1>1, <2>a, <2>1
       DEF Next, vars, server, page, Apply, ApplyReply, FirstCall, Send,
           ConfirmReply, RollbackReply, Reload, ApplyNow, ApplyChecked,
           StoreToken, RefuseApply, HandleConfirm, HandleStale, RollBack,
           LoseConfirm, LoseApplyReply, Tick
<1> QED
  BY <1>1, Invariance, PTL DEF Spec, KeptStays

-----------------------------------------------------------------------------
(* What "applied" means, if the token lives as long as the timer *)

\* The rollback option is not below the minimum, and the apply request is
\* answered at once, with the token stored.
Prompt == MinRollback <= Rollback /\ ReplyDelay = 0 /\ ~StoreMayFail

\* The requests of the page: an apply request while it is starting, a
\* confirmation of its own token while it is confirming.
OwnMsg ==
  /\ msg.kind = "apply" <=> ui = "starting"
  /\ msg.kind = "apply" => msg.id # 0
  /\ msg.kind = "none" => msg.status = 0
  /\ ui = "holdoff" => msg.kind = "none"
  /\ ui = "confirming" /\ msg.kind = "confirm" => msg.id = auth

\* Between rpcd's apply and the storing of the token no time passes.
Storing ==
  pending # 0 => /\ msg.kind = "apply" /\ msg.status = 0 /\ msg.id = pending
                 /\ checked /\ ~staged
                 /\ timer # NoTimer => timer = now + RollbackTime

\* The timer is not overdue, and the token stored expires with it.
TokenIsTimer ==
  timer # NoTimer => /\ now <= timer
                     /\ pending = 0 => /\ session # NoToken
                                       /\ session.expires = timer

\* A checked apply was just answered with its token.
JustApplied ==
  msg.kind = "apply" /\ msg.status = 200 =>
    /\ checked /\ ~staged
    /\ timer # NoTimer => session.id = msg.id /\ timer = now + RollbackTime

\* While the page may still be told of success, a timer that runs is that of
\* its token, and changes are staged only if the token is out of use already.
OwnTimer ==
  ui \in {"holdoff", "confirming"} /\ checked /\ now < deadline =>
    /\ timer # NoTimer => auth = session.id /\ timer = deadline
    /\ staged => session.expires = deadline

\* Success is answered only if no rollback is due.
SuccessIsTrue ==
  ui = "confirming" /\ checked /\ now < deadline /\ msg.status \in {200, 204}
    => timer = NoTimer

FinalInv ==
  /\ ApplyInv /\ OwnMsg /\ Storing /\ TokenIsTimer /\ JustApplied /\ OwnTimer
  /\ SuccessIsTrue

LEMMA InitFinal == Init => FinalInv
BY InitInv DEF Init, FinalInv, OwnMsg, Storing, TokenIsTimer, JustApplied,
   OwnTimer, SuccessIsTrue, NoMsg

\* The types the proofs about FinalInv use.
Types ==
  /\ now \in Nat /\ timer \in Nat \cup {NoTimer} /\ deadline \in Nat
  /\ session.expires \in Int /\ session.id \in Nat
  /\ pending \in Nat /\ auth \in Nat /\ msg.id \in Nat /\ applies \in Nat

LEMMA TypesHold == ApplyInv => Types
BY ApplyAssumption DEF ApplyInv, TypeOK, Types

\* A confirmation of whatever token leaves what the timer and the token say,
\* and one of the page's own token stops the timer before the deadline.
LEMMA ConfirmFinal ==
  ASSUME FinalInv, Types, NEW id, Confirm(id), UNCHANGED <<now, page>>
  PROVE  /\ pending' = pending /\ staged' = staged
         /\ \/ UNCHANGED <<timer, session>>
            \/ timer' = NoTimer /\ ~staged
         /\ TokenIsTimer' /\ OwnTimer'
         /\ ui = "confirming" /\ checked /\ now < deadline /\ id = auth
              => timer' = NoTimer
<1>a. TypeOK /\ TimerGuardsNew /\ KeptInv /\ TokenIsTimer /\ OwnTimer
  BY DEF FinalInv, ApplyInv
<1>1. pending' = pending /\ staged' = staged
  BY DEF Confirm
<1>2. CASE Confirmed(id)
  <2>1. timer' = NoTimer /\ session' = NoToken
    BY <1>2 DEF Confirm
  <2>2. ~staged
    BY <1>a, <1>2 DEF Confirmed, TimerGuardsNew, KeptInv
  <2> QED
    BY <1>1, <2>1, <2>2 DEF TokenIsTimer, OwnTimer, page
<1>3. CASE ~Confirmed(id)
  <2>1. UNCHANGED <<timer, session>>
    BY <1>3 DEF Confirm
  <2>2. ASSUME ui = "confirming", checked, now < deadline, id = auth,
               timer # NoTimer
        PROVE  FALSE
    <3>1. auth = session.id /\ timer = deadline
      BY <1>a, <2>2 DEF OwnTimer
    <3>2. pending = 0
      BY <2>2 DEF FinalInv, Storing, OwnMsg
    <3>3. session # NoToken /\ session.expires = timer
      BY <1>a, <2>2, <3>2 DEF TokenIsTimer
    <3> QED
      BY <1>3, <2>2, <3>1, <3>3 DEF Confirmed, Valid, Types
  <2>3. TokenIsTimer'
    BY <1>a, <1>1, <2>1 DEF TokenIsTimer
  <2>4. OwnTimer'
    BY <1>a, <1>1, <2>1 DEF OwnTimer, page
  <2>5. ui = "confirming" /\ checked /\ now < deadline /\ id = auth
          => timer' = NoTimer
    BY <2>1, <2>2, Zenon
  <2> QED
    BY <1>1, <2>1, <2>3, <2>4, <2>5, Zenon
<1> QED
  BY <1>2, <1>3

LEMMA NextFinal == FinalInv /\ Prompt /\ [Next]_vars => FinalInv'
<1> SUFFICES ASSUME FinalInv, Prompt, [Next]_vars PROVE FinalInv'
  OBVIOUS
<1> USE ApplyAssumption
<1>a. /\ OwnMsg /\ Storing /\ TokenIsTimer /\ JustApplied /\ OwnTimer
      /\ SuccessIsTrue /\ TypeOK /\ TimerGuardsNew /\ KeptInv
  BY DEF FinalInv, ApplyInv
<1>b. Types /\ ApplyInv' /\ Types'
  <2>1. Types /\ ApplyInv'
    BY NextInv, TypesHold DEF FinalInv
  <2>2. Types'
    BY <2>1 DEF ApplyInv, TypeOK, Types
  <2> QED
    BY <2>1, <2>2
<1>c. RollbackTime = Rollback /\ RollbackTime \in Nat \ {0} /\ ReplyDelay = 0
  BY DEF Prompt, RollbackTime, Longer
<1> DEFINE Final ==
      /\ OwnMsg /\ Storing /\ TokenIsTimer /\ JustApplied /\ OwnTimer
      /\ SuccessIsTrue
<1> SUFFICES Final'
  BY <1>b DEF FinalInv
<1>1. CASE Stage
  BY <1>a, <1>b, <1>c, <1>1 DEF Stage, NoMsg, Types, server, page,
     OwnMsg, Storing, TokenIsTimer, JustApplied, OwnTimer, SuccessIsTrue
<1>2. ASSUME NEW c \in BOOLEAN, Apply(c) PROVE Final'
  BY <1>a, <1>b, <1>c, <1>2 DEF Apply, NoMsg, Types, server, page,
     OwnMsg, Storing, TokenIsTimer, JustApplied, OwnTimer, SuccessIsTrue
<1>3. CASE ApplyReply
  BY <1>a, <1>b, <1>c, <1>3 DEF ApplyReply, NoMsg, Types, server, page,
     OwnMsg, Storing, TokenIsTimer, JustApplied, OwnTimer, SuccessIsTrue
<1>4. CASE FirstCall
  BY <1>a, <1>b, <1>c, <1>4 DEF FirstCall, GaveUp, Types, server, page,
     OwnMsg, Storing, TokenIsTimer, JustApplied, OwnTimer, SuccessIsTrue
<1>5. CASE Send
  BY <1>a, <1>b, <1>c, <1>5 DEF Send, NoMsg, Types, server, page,
     OwnMsg, Storing, TokenIsTimer, JustApplied, OwnTimer, SuccessIsTrue
<1>6. CASE ConfirmReply
  BY <1>a, <1>b, <1>c, <1>6 DEF ConfirmReply, GaveUp, NoMsg, Types, server, page,
     OwnMsg, Storing, TokenIsTimer, JustApplied, OwnTimer, SuccessIsTrue
<1>7. CASE RollbackReply
  BY <1>a, <1>b, <1>c, <1>7 DEF RollbackReply, NoMsg, Types, server, page,
     OwnMsg, Storing, TokenIsTimer, JustApplied, OwnTimer, SuccessIsTrue
<1>8. CASE Reload
  BY <1>a, <1>b, <1>c, <1>8 DEF Reload, NoMsg, Types, server, page,
     OwnMsg, Storing, TokenIsTimer, JustApplied, OwnTimer, SuccessIsTrue
<1>9. CASE ApplyNow
  BY <1>a, <1>b, <1>c, <1>9 DEF ApplyNow, Answer, Types, server, page,
     OwnMsg, Storing, TokenIsTimer, JustApplied, OwnTimer, SuccessIsTrue
<1>10. CASE ApplyChecked
  <2>1. /\ ui = "starting" /\ checked /\ ~staged' /\ timer' = now + RollbackTime
        /\ pending' = msg.id /\ msg.kind = "apply" /\ msg.status = 0
        /\ msg.id # 0
        /\ UNCHANGED <<now, session, page, msg>>
    BY <1>a, <1>10 DEF ApplyChecked, OwnMsg
  <2>2. OwnMsg' /\ JustApplied' /\ OwnTimer' /\ SuccessIsTrue'
    BY <1>a, <2>1 DEF OwnMsg, JustApplied, OwnTimer, SuccessIsTrue, page
  <2>3. Storing' /\ TokenIsTimer'
    BY <1>a, <1>b, <1>c, <2>1 DEF Storing, TokenIsTimer, Types, page
  <2> QED
    BY <2>2, <2>3
<1>11. CASE StoreToken
  <2>1. /\ msg.kind = "apply" /\ msg.status = 0 /\ msg.id = pending
        /\ pending # 0 /\ checked /\ ~staged /\ ui = "starting"
        /\ timer # NoTimer => timer = now + RollbackTime
    BY <1>a, <1>11 DEF StoreToken, Storing, OwnMsg
  <2>2. /\ session' = [id |-> pending, expires |-> now + Rollback]
        /\ pending' = 0 /\ msg' = [msg EXCEPT !.status = 200]
        /\ UNCHANGED <<now, staged, conf, timer, page>>
    BY <1>11, <2>1 DEF StoreToken, Answer, Prompt
  <2>3. /\ session' # NoToken /\ session'.id = pending
        /\ session'.expires = now + Rollback
    BY <1>11, <2>2 DEF StoreToken, NoToken
  <2>4. msg'.kind = "apply" /\ msg'.status = 200 /\ msg'.id = pending
    BY <1>a, <2>1, <2>2 DEF TypeOK
  <2>5. OwnMsg' /\ Storing' /\ OwnTimer' /\ SuccessIsTrue'
    BY <2>1, <2>2, <2>4 DEF OwnMsg, Storing, OwnTimer, SuccessIsTrue, page
  <2>6. TokenIsTimer' /\ JustApplied'
    BY <1>a, <1>b, <1>c, <2>1, <2>2, <2>3, <2>4
       DEF TokenIsTimer, JustApplied, Types, page
  <2> QED
    BY <2>5, <2>6
<1>12. CASE RefuseApply
  BY <1>a, <1>b, <1>c, <1>12 DEF RefuseApply, Answer, Types, server, page,
     OwnMsg, Storing, TokenIsTimer, JustApplied, OwnTimer, SuccessIsTrue
<1>13. CASE HandleConfirm
  <2>1. /\ msg.kind = "confirm" /\ Confirm(msg.id) /\ UNCHANGED <<now, page>>
        /\ msg' = [msg EXCEPT !.status = ConfirmStatus(msg.id)]
    BY <1>13 DEF HandleConfirm, Answer
  <2>2. msg'.kind = "confirm" /\ msg'.id = msg.id
    BY <1>a, <2>1 DEF TypeOK
  <2>3. pending' = 0
    BY <1>a, <2>1 DEF Storing, Confirm
  <2>4. OwnMsg' /\ Storing' /\ JustApplied'
    BY <1>a, <2>1, <2>2, <2>3 DEF OwnMsg, Storing, JustApplied, page
  <2>5. TokenIsTimer' /\ OwnTimer'
    BY <1>b, <2>1, ConfirmFinal
  <2>6. ui = "confirming" /\ checked /\ now < deadline => timer' = NoTimer
    <3>1. ui = "confirming" => msg.id = auth
      BY <1>a, <2>1 DEF OwnMsg
    <3> QED
      BY <1>b, <2>1, <3>1, ConfirmFinal
  <2>7. SuccessIsTrue'
    BY <2>1, <2>6 DEF SuccessIsTrue, page
  <2> QED
    BY <2>4, <2>5, <2>7
<1>14. CASE HandleStale
  <2>1. PICK id \in stale : Confirm(id) /\ UNCHANGED <<now, page, msg>>
    BY <1>14 DEF HandleStale
  <2>2. /\ pending' = pending /\ staged' = staged
        /\ \/ UNCHANGED <<timer, session>>
           \/ timer' = NoTimer /\ ~staged
        /\ TokenIsTimer' /\ OwnTimer'
    BY <1>b, <2>1, ConfirmFinal
  <2>3. OwnMsg' /\ SuccessIsTrue'
    BY <1>a, <2>1, <2>2 DEF OwnMsg, SuccessIsTrue, page
  <2>4. Storing' /\ JustApplied'
    BY <1>a, <2>1, <2>2 DEF Storing, JustApplied, page
  <2> QED
    BY <2>2, <2>3, <2>4
<1>15. CASE RollBack
  BY <1>a, <1>b, <1>c, <1>15 DEF RollBack, Types, server, page,
     OwnMsg, Storing, TokenIsTimer, JustApplied, OwnTimer, SuccessIsTrue
<1>16. CASE LoseConfirm
  BY <1>a, <1>b, <1>c, <1>16 DEF LoseConfirm, Answer, Failed, Types, server, page,
     OwnMsg, Storing, TokenIsTimer, JustApplied, OwnTimer, SuccessIsTrue
<1>17. CASE LoseApplyReply
  BY <1>a, <1>b, <1>c, <1>17 DEF LoseApplyReply, NoMsg, Types, server, page,
     OwnMsg, Storing, TokenIsTimer, JustApplied, OwnTimer, SuccessIsTrue
<1>18. CASE Tick
  BY <1>a, <1>b, <1>c, <1>18 DEF Tick, Types, server, page,
     OwnMsg, Storing, TokenIsTimer, JustApplied, OwnTimer, SuccessIsTrue
<1>19. CASE UNCHANGED vars
  BY <1>a, <1>b, <1>c, <1>19 DEF vars, Types, server, page,
     OwnMsg, Storing, TokenIsTimer, JustApplied, OwnTimer, SuccessIsTrue
<1> QED
  BY <1>1, <1>2, <1>3, <1>4, <1>5, <1>6, <1>7, <1>8, <1>9, <1>10, <1>11, <1>12, <1>13, <1>14, <1>15, <1>16, <1>17, <1>18, <1>19 DEF Next

\* The page says of a checked apply that it was applied only when no rollback
\* is due and none has put the changes back, whatever confirmations are lost,
\* late or repeated and however often the page is reloaded, provided the token
\* lives as long as the timer (changes.confirm, uci_apply, uci_confirm).
THEOREM SaysAppliedTruly == ASSUME Prompt PROVE Spec => AppliedIsFinal
<1>1. ASSUME FinalInv, [Next]_vars PROVE FinalInv'
  BY <1>1, NextFinal
<1>2. ASSUME FinalInv, [Next]_vars
      PROVE  [ui # "applied" /\ ui' = "applied" /\ checked
                => timer = NoTimer /\ (staged => now < session.expires)]_vars
  <2> SUFFICES ASSUME ui # "applied", ui' = "applied", checked
               PROVE  timer = NoTimer /\ (staged => now < session.expires)
    OBVIOUS
  <2>1. ConfirmReply
    BY <1>2 DEF Next, vars, page, server, Stage, Apply, ApplyReply, FirstCall,
       Send, RollbackReply, Reload, ApplyNow, ApplyChecked, StoreToken,
       RefuseApply, HandleConfirm, HandleStale, RollBack, LoseConfirm,
       LoseApplyReply, Tick, GaveUp
  <2>2. ui = "confirming" /\ now < deadline /\ msg.status \in {200, 204}
    BY <1>2, <2>1, TypesHold DEF FinalInv, Types, ConfirmReply, GaveUp
  <2>3. timer = NoTimer /\ (staged => session.expires = deadline)
    BY <1>2, <2>2 DEF FinalInv, SuccessIsTrue, OwnTimer
  <2> QED
    BY <2>2, <2>3
<1> QED
  BY <1>1, <1>2, InitFinal, PTL DEF Spec, AppliedIsFinal
=============================================================================
