---------------------------- MODULE RequestBatch ----------------------------
(***************************************************************************)
(* RPC calls of a page and the HTTP requests that carry them:              *)
(* LuCI.request() and its queue (luci.js), rpc.js, and the interceptors    *)
(* that notice an expired session (setupDOM() in luci.js).                 *)
(*                                                                         *)
(* Calls made before the next animation frame travel in one batch, whose   *)
(* reply is an array matched to them by position.  A call that is denied   *)
(* holds its answer back until a second call has checked the session.      *)
(***************************************************************************)
EXTENDS Integers, Sequences, FiniteSets

CONSTANT Calls   \* invocations of functions made by rpc.declare()

CallsAssumption == Calls \cap {"idle", "waiting", "error"} = {}

VARIABLES
    result,   \* "idle", "waiting", what the promise of the call was settled with
    queue,    \* requestQueue: the messages that wait for the next frame
    frames,   \* callbacks of requestAnimationFrame() still to run
    sent,     \* the requests on their way
    session,  \* TRUE until the session ends on the router
    dialog    \* TRUE once "Session expired" is shown

vars == <<result, queue, frames, sent, session, dialog>>

(* A message is a call, or the session.access call that checks the session *)
(* for a denied one.                                                       *)
Messages == {"own", "check"} \X Calls
Requests == [msgs : Seq(Messages), batch : BOOLEAN]
NoReply == <<"none", "none">>

Outcomes == Calls \cup {"error"}

Init ==
    /\ result = [c \in Calls |-> "idle"]
    /\ queue = <<>>
    /\ frames = 0
    /\ sent = {}
    /\ session = TRUE
    /\ dialog = FALSE

(* request() queues a POST to the RPC URL and asks for a frame.            *)
Call(c) ==
    /\ result[c] = "idle"
    /\ result' = [result EXCEPT ![c] = "waiting"]
    /\ queue' = Append(queue, <<"own", c>>)
    /\ frames' = frames + 1
    /\ UNCHANGED <<sent, session, dialog>>

(* A call declared with nobatch is a request of its own.                   *)
CallAlone(c) ==
    /\ result[c] = "idle"
    /\ result' = [result EXCEPT ![c] = "waiting"]
    /\ sent' = sent \cup {[msgs |-> <<<<"own", c>>>>, batch |-> FALSE]}
    /\ UNCHANGED <<queue, frames, session, dialog>>

(* flushRequestQueue(): the first frame takes the whole queue, the others  *)
(* find it empty.                                                          *)
Frame ==
    /\ frames > 0
    /\ frames' = frames - 1
    /\ sent' = IF queue = <<>> THEN sent
               ELSE sent \cup {[msgs |-> queue, batch |-> TRUE]}
    /\ queue' = <<>>
    /\ UNCHANGED <<result, session, dialog>>

SessionEnds ==
    /\ session
    /\ session' = FALSE
    /\ UNCHANGED <<result, queue, frames, sent, dialog>>

-----------------------------------------------------------------------------
(* What the router may answer to a message.  A live session is enough for  *)
(* the check; a call may be denied for lack of rights as well.             *)
Codes(m) ==
    IF ~session THEN {"denied"} ELSE IF m[1] = "check" THEN {"ok"} ELSE {"ok", "denied", "error"}

(* The messages are executed in order, and the last may be missing.        *)
Answers(r) ==
    UNION {{[i \in 1..n |-> <<codes[i], r.msgs[i][2]>>] :
              codes \in {f \in [1..n -> {"ok", "denied", "error"}] :
                          \A i \in 1..n : f[i] \in Codes(r.msgs[i])}} :
           n \in 0..Len(r.msgs)}

-----------------------------------------------------------------------------
(* Mutant of Matched: the replies are taken from the end, json.pop().      *)
MatchedFromEnd(r, answer, i) ==
    IF i <= Len(answer) THEN answer[Len(answer) + 1 - i] ELSE NoReply

(* The reply that json.shift() hands to the message in position i.         *)
Matched(r, answer, i) ==
    IF i <= Len(answer) THEN answer[i] ELSE NoReply

(* What a message is answered with; "error" stands for a request that      *)
(* failed as a whole.                                                      *)
MatchOf(r, answer, m) ==
    LET i == CHOOSE i \in 1..Len(r.msgs) : r.msgs[i] = m
    IN  Matched(r, answer, i)

(* Mutant of Settled: no check, a denied call waits for something else.    *)
SettledUnlessMissing(r, answer, c) ==
    LET reply == MatchOf(r, answer, <<"own", c>>)
    IN  CASE reply[1] = "ok" -> reply[2]
          [] reply[1] \in {"denied", "none"} -> "waiting"
          [] OTHER -> "error"

(* Mutant of Settled: the promise gets the code instead of the reply.      *)
SettledWithCode(r, answer, c) ==
    LET reply == MatchOf(r, answer, <<"own", c>>)
    IN  IF reply[1] = "denied" THEN "waiting" ELSE reply[1]

(* parseCallReply() and handleCallReply() for a call of the request: its   *)
(* promise, unless the interceptor waits for the check.                    *)
Settled(r, answer, c) ==
    LET reply == MatchOf(r, answer, <<"own", c>>)
    IN  CASE reply[1] = "ok" -> reply[2]
          [] reply[1] = "denied" -> "waiting"
          [] OTHER -> "error"

Carries(r, m) == \E i \in 1..Len(r.msgs) : r.msgs[i] = m

(* The positions in which a request carries denied calls.                  *)
Denied(r, answer) ==
    {i \in 1..Len(r.msgs) : r.msgs[i][1] = "own" /\ MatchOf(r, answer, r.msgs[i])[1] = "denied"}

(* The orders that list a set of positions upwards: there is one.          *)
Upwards(S) == {f \in [1..Cardinality(S) -> S] : \A i, j \in DOMAIN f : i < j => f[i] < f[j]}

(* The checks of the denied calls, in their order.  A denied call is       *)
(* rejected once its check is answered, either way.  Any failure of the    *)
(* check is taken for the end of the session.                              *)
Deliver(r, answer) ==
    \E order \in Upwards(Denied(r, answer)) :
        LET checks == [i \in DOMAIN order |-> <<"check", r.msgs[order[i]][2]>>]
        IN  /\ result' = [c \in Calls |->
                 IF Carries(r, <<"own", c>>) THEN Settled(r, answer, c)
                 ELSE IF Carries(r, <<"check", c>>) THEN "error"
                 ELSE result[c]]
            /\ queue' = queue \o checks
            /\ frames' = frames + Len(checks)
            /\ dialog' = (dialog \/ \E c \in Calls :
                 Carries(r, <<"check", c>>) /\ MatchOf(r, answer, <<"check", c>>)[1] # "ok")
            /\ sent' = sent \ {r}
            /\ UNCHANGED session

(* The reply of a batch is an array, that of a single request one message. *)
Reply(r) ==
    \E answer \in Answers(r) :
        /\ ~r.batch => Len(answer) = 1
        /\ Deliver(r, answer)

(* A timeout, an aborted request, an HTTP error or a reply that is not an  *)
(* array leaves every message without a reply.                             *)
Fail(r) == Deliver(r, <<>>)

(* The page is told to log in (HTTP 403).  The request interceptor shows   *)
(* the dialog and throws inside the event handler, where nothing catches   *)
(* it: neither function of the promise is called.                          *)
LoginRequired(r) ==
    /\ ~session
    /\ dialog' = TRUE
    /\ sent' = sent \ {r}
    /\ UNCHANGED <<result, queue, frames, session>>

Receive == \E r \in sent : Reply(r) \/ Fail(r) \/ LoginRequired(r)

Next ==
    \/ \E c \in Calls : Call(c) \/ CallAlone(c)
    \/ Frame
    \/ SessionEnds
    \/ Receive

(* Frames come while the page is visible, and every request is answered or *)
(* times out.                                                              *)
Fairness == WF_vars(Frame) /\ WF_vars(Receive)

Spec == Init /\ [][Next]_vars /\ Fairness

-----------------------------------------------------------------------------
TypeOK ==
    /\ result \in [Calls -> {"idle", "waiting"} \cup Outcomes]
    /\ queue \in Seq(Messages)
    /\ frames \in Nat
    /\ sent \subseteq Requests
    /\ session \in BOOLEAN
    /\ dialog \in BOOLEAN

(* Every promise is settled once, with the reply to its own call or with   *)
(* an error, whatever calls share the batch and however much of the reply  *)
(* is missing.                                                             *)
OwnReplyOnce ==
    [][\A c \in Calls : result'[c] # result[c] =>
          \/ result[c] = "idle" /\ result'[c] = "waiting"
          \/ result[c] = "waiting" /\ result'[c] \in {c, "error"}]_result

(* A waiting call has one message on its way: queued, sent or, for a       *)
(* denied call, its check.  The request answered with the login page loses *)
(* its messages, with the dialog up.                                       *)
OnItsWay(c) ==
    \/ \E i \in 1..Len(queue) : queue[i][2] = c
    \/ \E r \in sent : \E i \in 1..Len(r.msgs) : r.msgs[i][2] = c

NobodyForgotten ==
    /\ queue # <<>> => frames > 0
    /\ \A c \in Calls : result[c] = "waiting" => OnItsWay(c) \/ dialog

(* Every call is settled, unless the page has told the user to log in.     *)
CallsSettle ==
    \A c \in Calls : result[c] = "waiting" ~> (result[c] \in Outcomes \/ dialog)
=============================================================================
