------------------------- MODULE RequestBatchProofs -------------------------
(***************************************************************************)
(* Proofs about RequestBatch, for every set of calls, however they are     *)
(* batched.                                                                *)
(***************************************************************************)
EXTENDS RequestBatch, FiniteSetTheorems, SequenceTheorems, TLAPS

\* the calls a sequence of messages is about
Of(s) == {s[i][2] : i \in 1..Len(s)}

Once(s) == \A i, j \in 1..Len(s) : s[i][2] = s[j][2] => i = j

\* a call is in one message of one place, and waits
Apart ==
    /\ Once(queue)
    /\ \A r \in sent : Once(r.msgs) /\ Of(r.msgs) \cap Of(queue) = {}
    /\ \A r, s \in sent : r # s => Of(r.msgs) \cap Of(s.msgs) = {}

Waits ==
    /\ \A c \in Of(queue) : result[c] = "waiting"
    /\ \A r \in sent : \A c \in Of(r.msgs) : result[c] = "waiting"

CallInv == TypeOK /\ Apart /\ Waits /\ NobodyForgotten

LEMMA OnItsWayOf ==
  ASSUME NEW c PROVE OnItsWay(c) <=> c \in Of(queue) \/ \E r \in sent : c \in Of(r.msgs)
BY DEF OnItsWay, Of

LEMMA OfConcat ==
  ASSUME NEW s \in Seq(Messages), NEW t \in Seq(Messages)
  PROVE  /\ s \o t \in Seq(Messages)
         /\ Of(s \o t) = Of(s) \cup Of(t)
         /\ Once(s) /\ Once(t) /\ Of(s) \cap Of(t) = {} => Once(s \o t)
<1>1. /\ s \o t \in Seq(Messages) /\ Len(s \o t) = Len(s) + Len(t)
      /\ Len(s) \in Nat /\ Len(t) \in Nat
      /\ \A i \in 1..Len(s) : (s \o t)[i] = s[i]
      /\ \A i \in 1..Len(t) : (s \o t)[Len(s) + i] = t[i]
  OBVIOUS
<1>2. \A k \in 1..Len(s) + Len(t) : k \in 1..Len(s) \/ \E i \in 1..Len(t) : k = Len(s) + i
  <2>1. \A k \in 1..Len(s) + Len(t) :
          k \in 1..Len(s) \/ (k - Len(s) \in 1..Len(t) /\ k = Len(s) + (k - Len(s)))
    BY <1>1
  <2> QED BY <2>1
<1> HIDE DEF Messages
<1>3. Of(s \o t) = Of(s) \cup Of(t)
  <2>1. ASSUME NEW c \in Of(s \o t) PROVE c \in Of(s) \cup Of(t)
    <3>1. PICK k \in 1..Len(s) + Len(t) : c = (s \o t)[k][2]
      BY <1>1 DEF Of
    <3>2. CASE k \in 1..Len(s)
      BY <1>1, <3>1, <3>2 DEF Of
    <3>3. ASSUME NEW i \in 1..Len(t), k = Len(s) + i PROVE c \in Of(t)
      BY <1>1, <3>1, <3>3 DEF Of
    <3> QED BY <1>2, <3>2, <3>3
  <2>2. ASSUME NEW c \in Of(s) PROVE c \in Of(s \o t)
    BY <1>1 DEF Of
  <2>3. ASSUME NEW c \in Of(t) PROVE c \in Of(s \o t)
    <3>1. PICK i \in 1..Len(t) : c = t[i][2]
      BY DEF Of
    <3>2. Len(s) + i \in 1..Len(s \o t) /\ c = (s \o t)[Len(s) + i][2]
      BY <1>1, <3>1
    <3> QED BY <3>2 DEF Of
  <2> QED BY <2>1, <2>2, <2>3
<1>4. ASSUME Once(s), Once(t), Of(s) \cap Of(t) = {},
             NEW i \in 1..Len(s \o t), NEW j \in 1..Len(s \o t), (s \o t)[i][2] = (s \o t)[j][2]
      PROVE  i = j
  <2>1. \A a \in 1..Len(s), b \in 1..Len(t) : s[a][2] # t[b][2]
    BY <1>4 DEF Of
  <2>2. i \in 1..Len(s) \/ \E a \in 1..Len(t) : i = Len(s) + a
    BY <1>1, <1>2
  <2>3. j \in 1..Len(s) \/ \E b \in 1..Len(t) : j = Len(s) + b
    BY <1>1, <1>2
  <2> QED BY <1>1, <1>4, <2>1, <2>2, <2>3 DEF Once
<1> QED BY <1>1, <1>3, <1>4 DEF Once

\* what an answer says in a position is about the call of that position
LEMMA AnswerShape ==
  ASSUME NEW r \in Requests, NEW answer \in Answers(r) \cup {<<>>}
  PROVE  Len(answer) \in Nat /\ \A i \in 1..Len(answer) : answer[i][2] = r.msgs[i][2]
<1>1. CASE answer = <<>>
  BY <1>1
<1>2. CASE answer \in Answers(r)
  <2>1. PICK n \in 0..Len(r.msgs) : \E f \in [1..n -> {"ok", "denied", "error"}] :
               answer = [i \in 1..n |-> <<f[i], r.msgs[i][2]>>]
    BY <1>2 DEF Answers
  <2>2. Len(r.msgs) \in Nat
    BY DEF Requests
  <2> QED BY <2>1, <2>2
<1> QED BY <1>1, <1>2

\* the message in a position is answered with what the reply has there
LEMMA MatchAt ==
  ASSUME NEW r \in Requests, Once(r.msgs), NEW answer \in Answers(r) \cup {<<>>}, NEW i \in 1..Len(r.msgs)
  PROVE  \/ MatchOf(r, answer, r.msgs[i]) = NoReply
         \/ MatchOf(r, answer, r.msgs[i])[2] = r.msgs[i][2]
<1>1. (CHOOSE j \in 1..Len(r.msgs) : r.msgs[j] = r.msgs[i]) = i
  BY DEF Once
<1>2. MatchOf(r, answer, r.msgs[i]) = Matched(r, answer, i)
  BY <1>1 DEF MatchOf
<1>3. i \in Nat /\ i >= 1
  BY DEF Requests
<1> QED BY <1>2, <1>3, AnswerShape DEF Matched

\* the orders of the denied positions list each of them once
LEMMA OrderLists ==
  ASSUME NEW S, IsFiniteSet(S), S \subseteq Nat, NEW order \in Upwards(S)
  PROVE  /\ \A i, j \in DOMAIN order : order[i] = order[j] => i = j
         /\ \A p \in S : \E i \in DOMAIN order : order[i] = p
<1> DEFINE n == Cardinality(S)
<1>1. n \in Nat /\ order \in [1..n -> S] /\ DOMAIN order = 1..n
  BY FS_CardinalityType DEF Upwards
<1>2. \A i, j \in 1..n : i < j => order[i] < order[j]
  BY <1>1 DEF Upwards
<1>3. \A i, j \in 1..n : order[i] = order[j] => i = j
  <2>1. \A i \in 1..n : order[i] \in Nat
    BY <1>1
  <2>2. \A i, j \in 1..n : i < j \/ j < i \/ i = j
    BY <1>1
  <2> QED BY <1>2, <2>1, <2>2
<1>4. order \in Injection(1..n, S)
  BY <1>1, <1>3 DEF Injection, IsInjective
<1>5. IsFiniteSet(1..n) /\ Cardinality(1..n) = n
  BY <1>1, FS_Interval
<1>6. order \in Surjection(1..n, S)
  BY <1>4, <1>5, FS_Injection
<1> QED BY <1>1, <1>3, <1>6 DEF Surjection

-----------------------------------------------------------------------------
LEMMA DeliverKeeps ==
  ASSUME CallsAssumption, CallInv, NEW r \in sent, NEW answer \in Answers(r) \cup {<<>>}, Deliver(r, answer)
  PROVE  /\ CallInv'
         /\ \A c \in Calls : result'[c] # result[c] => result[c] = "waiting" /\ result'[c] \in {c, "error"}
<1> USE DEF CallInv, CallsAssumption
<1> DEFINE S == Denied(r, answer)
<1>1. PICK order \in Upwards(S) :
        LET checks == [i \in DOMAIN order |-> <<"check", r.msgs[order[i]][2]>>]
        IN  /\ result' = [c \in Calls |->
                 IF Carries(r, <<"own", c>>) THEN Settled(r, answer, c)
                 ELSE IF Carries(r, <<"check", c>>) THEN "error"
                 ELSE result[c]]
            /\ queue' = queue \o checks
            /\ frames' = frames + Len(checks)
            /\ dialog' \in BOOLEAN /\ (dialog => dialog')
            /\ sent' = sent \ {r}
            /\ UNCHANGED session
  BY DEF Deliver, TypeOK
<1> DEFINE n == Cardinality(S)
           checks == [i \in DOMAIN order |-> <<"check", r.msgs[order[i]][2]>>]
<1>2. /\ r \in Requests /\ Len(r.msgs) \in Nat /\ Once(r.msgs)
      /\ \A i \in 1..Len(r.msgs) : r.msgs[i] \in Messages
  BY DEF TypeOK, Requests, Apart
<1>3. IsFiniteSet(S) /\ S \subseteq 1..Len(r.msgs) /\ S \subseteq Nat
  <2>1. S \subseteq 1..Len(r.msgs)
    BY DEF Denied
  <2>2. IsFiniteSet(1..Len(r.msgs))
    BY <1>2, FS_Interval
  <2> QED BY <2>1, <2>2, FS_Subset
<1>4. n \in Nat /\ DOMAIN order = 1..n /\ order \in [1..n -> S]
  BY <1>3, FS_CardinalityType DEF Upwards
<1>5. /\ \A i, j \in 1..n : order[i] = order[j] => i = j
      /\ \A p \in S : \E i \in 1..n : order[i] = p
  BY <1>3, <1>4, OrderLists
<1> HIDE DEF S
<1>6. checks \in Seq(Messages) /\ Len(checks) = n /\ \A i \in 1..n : checks[i][2] = r.msgs[order[i]][2]
  <2>1. \A i \in 1..n : r.msgs[order[i]] \in Messages
    BY <1>2, <1>3, <1>4
  <2>2. \A i \in 1..n : <<"check", r.msgs[order[i]][2]>> \in Messages
    BY <2>1 DEF Messages
  <2> QED BY <1>4, <2>2
<1>7. Once(checks)
  <2>1. ASSUME NEW i \in 1..n, NEW j \in 1..n, checks[i][2] = checks[j][2] PROVE i = j
    <3>1. order[i] \in 1..Len(r.msgs) /\ order[j] \in 1..Len(r.msgs)
      BY <1>3, <1>4
    <3>2. r.msgs[order[i]][2] = r.msgs[order[j]][2]
      BY <1>6, <2>1
    <3>3. order[i] = order[j]
      BY <1>2, <3>1, <3>2 DEF Once
    <3> QED BY <1>5, <3>3
  <2>2. Len(checks) = n
    BY <1>6
  <2> HIDE DEF checks
  <2> QED BY <2>1, <2>2 DEF Once
<1>8. Of(checks) = {r.msgs[p][2] : p \in S}
  BY SMTT(30), <1>4, <1>5, <1>6 DEF Of
<1>9. result' = [c \in Calls |->
                 IF Carries(r, <<"own", c>>) THEN Settled(r, answer, c)
                 ELSE IF Carries(r, <<"check", c>>) THEN "error"
                 ELSE result[c]]
      /\ queue' = queue \o checks /\ frames' = frames + n /\ dialog' \in BOOLEAN /\ (dialog => dialog')
      /\ sent' = sent \ {r} /\ session' = session
  BY <1>1, <1>6
<1> HIDE DEF checks
<1>10. \A c \in Calls : c \notin Of(r.msgs) => result'[c] = result[c]
  BY <1>9 DEF Carries, Of
<1>11. ASSUME NEW c \in Calls, c \in Of(r.msgs)
       PROVE  /\ result'[c] \in {c, "error", "waiting"}
              /\ result'[c] = "waiting" <=> c \in Of(checks)
  <2>1. PICK i \in 1..Len(r.msgs) : r.msgs[i][2] = c
    BY <1>11 DEF Of
  <2>2. r.msgs[i] = <<"own", c>> \/ r.msgs[i] = <<"check", c>>
    BY <1>2, <2>1 DEF Messages
  <2>3. \A p \in 1..Len(r.msgs) : r.msgs[p][2] = c => p = i
    BY <1>2, <2>1 DEF Once
  <2>4. c \in Of(checks) <=> i \in S
    BY <1>3, <1>8, <2>1, <2>3
  <2>5. CASE r.msgs[i] = <<"own", c>>
    <3>1. result'[c] = Settled(r, answer, c)
      BY <1>9, <2>5 DEF Carries
    <3> DEFINE m == MatchOf(r, answer, <<"own", c>>)
    <3>2. m = NoReply \/ m[2] = c
      <4>1. \/ MatchOf(r, answer, r.msgs[i]) = NoReply
            \/ MatchOf(r, answer, r.msgs[i])[2] = r.msgs[i][2]
        BY <1>2, MatchAt
      <4> QED BY <2>1, <2>5, <4>1
    <3>3. i \in S <=> m[1] = "denied"
      BY <2>5 DEF S, Denied
    <3> HIDE DEF m
    <3>4. Settled(r, answer, c) = CASE m[1] = "ok" -> m[2] [] m[1] = "denied" -> "waiting" [] OTHER -> "error"
      BY DEF Settled, m
    <3>5. c # "waiting"
      OBVIOUS
    <3>6. CASE m[1] = "ok"
      BY <2>4, <3>1, <3>2, <3>3, <3>4, <3>5, <3>6 DEF NoReply
    <3>7. CASE m[1] = "denied"
      BY <2>4, <3>1, <3>3, <3>4, <3>7
    <3>8. CASE m[1] \notin {"ok", "denied"}
      BY <2>4, <3>1, <3>3, <3>4, <3>8
    <3> QED BY <3>6, <3>7, <3>8
  <2>6. CASE r.msgs[i] = <<"check", c>>
    <3>1. ~Carries(r, <<"own", c>>) /\ Carries(r, <<"check", c>>)
      BY <2>3, <2>6 DEF Carries
    <3>2. i \notin S
      BY <2>6 DEF S, Denied
    <3> QED BY <1>9, <2>4, <3>1, <3>2
  <2> QED BY <2>2, <2>5, <2>6
<1>12. Of(r.msgs) \subseteq Calls /\ Of(checks) \subseteq Of(r.msgs)
  BY <1>2, <1>3, <1>8 DEF Of, Messages
<1>13. \A c \in Calls : result'[c] # result[c] => result[c] = "waiting" /\ result'[c] \in {c, "error"}
  BY <1>10, <1>11 DEF Waits
<1>14. queue \in Seq(Messages) /\ Of(r.msgs) \cap Of(queue) = {} /\ Once(queue)
       /\ \A s \in sent \ {r} : Of(r.msgs) \cap Of(s.msgs) = {} /\ Of(s.msgs) \cap Of(queue) = {}
  BY DEF TypeOK, Apart
<1>15. queue' \in Seq(Messages) /\ Of(queue') = Of(queue) \cup Of(checks) /\ Once(queue')
  BY <1>6, <1>7, <1>9, <1>12, <1>14, OfConcat
<1>16. TypeOK'
  <2>1. result' \in [Calls -> {"idle", "waiting"} \cup Outcomes]
    BY <1>9, <1>10, <1>11 DEF TypeOK, Outcomes
  <2> QED BY <1>4, <1>9, <1>15, <2>1 DEF TypeOK
<1>17. Apart'
  <2>1. Once(queue)'
    BY <1>15 DEF Once
  <2>2. ASSUME NEW s \in sent' PROVE Once(s.msgs) /\ Of(s.msgs) \cap Of(queue') = {}
    BY <1>9, <1>12, <1>14, <1>15, <2>2 DEF Apart
  <2>3. \A s, u \in sent' : s # u => Of(s.msgs) \cap Of(u.msgs) = {}
    BY <1>9 DEF Apart
  <2>4. Of(queue)' = Of(queue')
    BY DEF Of
  <2> QED BY <2>1, <2>2, <2>3, <2>4 DEF Apart, Of, Once
<1>18. Waits'
  <2>1. ASSUME NEW c \in Of(queue') PROVE result'[c] = "waiting"
    <3>1. CASE c \in Of(checks)
      BY <1>11, <1>12, <3>1
    <3>2. CASE c \in Of(queue)
      <4>1. c \in Calls
        BY <1>14, <3>2 DEF Of, Messages
      <4> QED BY <1>10, <1>14, <3>2, <4>1 DEF Waits
    <3> QED BY <1>15, <3>1, <3>2
  <2>2. ASSUME NEW s \in sent', NEW c \in Of(s.msgs) PROVE result'[c] = "waiting"
    <3>1. s \in sent \ {r} /\ c \in Calls
      BY <1>9, <2>2 DEF TypeOK, Requests, Of, Messages
    <3> QED BY <1>10, <1>14, <3>1 DEF Waits
  <2> QED BY <2>1, <2>2 DEF Waits, Of
<1>19. NobodyForgotten'
  <2>1. queue' # <<>> => frames' > 0
    <3>1. frames \in Nat /\ (queue # <<>> => frames > 0)
      BY DEF TypeOK, NobodyForgotten
    <3>2. CASE n = 0
      <4>1. queue' = queue
        BY <1>6, <1>9, <1>14, <3>2
      <4> QED BY <1>9, <3>1, <3>2, <4>1
    <3> QED BY <1>4, <1>9, <3>1, <3>2
  <2>2. ASSUME NEW c \in Calls, result'[c] = "waiting", ~dialog' PROVE OnItsWay(c)'
    <3>1. CASE c \in Of(r.msgs)
      <4>1. c \in Of(queue')
        BY <1>11, <1>15, <2>2, <3>1
      <4> QED BY <4>1 DEF OnItsWay, Of
    <3>2. CASE c \notin Of(r.msgs)
      <4>1. OnItsWay(c)
        BY <1>9, <1>10, <2>2, <3>2 DEF NobodyForgotten
      <4>2. c \in Of(queue) \/ \E s \in sent : c \in Of(s.msgs)
        BY <4>1, OnItsWayOf
      <4>3. c \in Of(queue') \/ \E s \in sent' : c \in Of(s.msgs)
        BY <1>9, <1>15, <3>2, <4>2
      <4> QED BY <4>3 DEF OnItsWay, Of
    <3> QED BY <3>1, <3>2
  <2> QED BY <2>1, <2>2 DEF NobodyForgotten
<1> QED BY <1>13, <1>16, <1>17, <1>18, <1>19

-----------------------------------------------------------------------------
LEMMA InitCalls == CallsAssumption /\ Init => CallInv
<1> SUFFICES ASSUME CallsAssumption, Init PROVE CallInv
  OBVIOUS
<1>1. TypeOK
  <2>1. <<>> \in Seq(Messages)
    OBVIOUS
  <2> QED BY <2>1 DEF Init, TypeOK
<1>2. Apart /\ Waits
  BY DEF Init, Apart, Waits, Once, Of
<1>3. NobodyForgotten
  BY DEF Init, NobodyForgotten
<1> QED BY <1>1, <1>2, <1>3 DEF CallInv

\* a new call is in no message yet
LEMMA CallKeeps ==
  ASSUME CallsAssumption, CallInv, NEW c \in Calls, result[c] = "idle",
         result' = [result EXCEPT ![c] = "waiting"], UNCHANGED <<session, dialog>>
  PROVE  /\ Call(c) => CallInv'
         /\ CallAlone(c) => CallInv'
<1> USE DEF CallInv
<1> DEFINE m == <<<<"own", c>>>>
<1>1. /\ queue \in Seq(Messages) /\ sent \subseteq Requests
      /\ c \notin Of(queue) /\ \A r \in sent : c \notin Of(r.msgs)
  BY DEF TypeOK, Waits
<1>2. m \in Seq(Messages) /\ Of(m) = {c} /\ Once(m)
  BY DEF Messages, Of, Once
<1>3. \A d \in Calls : result'[d] = IF d = c THEN "waiting" ELSE result[d]
  BY DEF TypeOK
<1>4. result' \in [Calls -> {"idle", "waiting"} \cup Outcomes] /\ session' \in BOOLEAN /\ dialog' \in BOOLEAN
  BY DEF TypeOK
<1>5. ASSUME Call(c) PROVE CallInv'
  <2>1. queue' = queue \o m /\ sent' = sent /\ frames' = frames + 1
    <3>1. <<"own", c>> \in Messages
      BY DEF Messages
    <3> QED BY <1>1, <1>5, <3>1, AppendIsConcat DEF Call
  <2>2. queue' \in Seq(Messages) /\ Of(queue') = Of(queue) \cup {c} /\ Once(queue')
    <3> HIDE DEF m
    <3>1. Of(queue) \cap Of(m) = {}
      BY <1>1, <1>2
    <3> QED BY <1>1, <1>2, <2>1, <3>1, OfConcat DEF Apart
  <2>3. TypeOK'
    BY <1>4, <2>1, <2>2 DEF TypeOK
  <2>4. Apart'
    <3>1. Once(queue)' /\ Of(queue)' = Of(queue')
      BY <2>2 DEF Once, Of
    <3>2. \A r \in sent : Once(r.msgs) /\ Of(r.msgs) \cap Of(queue') = {}
      BY <1>1, <2>2 DEF Apart
    <3> QED BY <2>1, <3>1, <3>2 DEF Apart, Once, Of
  <2>5. Waits'
    <3>1. \A d \in Of(queue') : result'[d] = "waiting"
      <4>1. Of(queue) \subseteq Calls
        BY <1>1 DEF Of, Messages
      <4> QED BY <1>3, <2>2, <4>1 DEF Waits
    <3>2. \A r \in sent : \A d \in Of(r.msgs) : result'[d] = "waiting"
      BY <1>1, <1>3 DEF Waits, Of, Messages, Requests
    <3> QED BY <2>1, <3>1, <3>2 DEF Waits, Of
  <2>6. NobodyForgotten'
    <3>1. ASSUME NEW d \in Calls, result'[d] = "waiting", ~dialog' PROVE OnItsWay(d)'
      <4>1. d \in Of(queue') \/ OnItsWay(d)
        BY <1>3, <2>2, <3>1 DEF NobodyForgotten
      <4>2. d \in Of(queue') \/ \E r \in sent : d \in Of(r.msgs)
        BY <2>2, <4>1, OnItsWayOf
      <4> QED BY <2>1, <4>2 DEF OnItsWay, Of
    <3>2. frames' > 0
      BY <2>1 DEF TypeOK
    <3> QED BY <3>1, <3>2 DEF NobodyForgotten
  <2> QED BY <2>3, <2>4, <2>5, <2>6
<1>6. ASSUME CallAlone(c) PROVE CallInv'
  <2> DEFINE q == [msgs |-> m, batch |-> FALSE]
  <2>1. sent' = sent \cup {q} /\ q \in Requests /\ UNCHANGED <<queue, frames>>
    BY <1>2, <1>6 DEF CallAlone, Requests
  <2>2. Of(q.msgs) = {c} /\ Once(q.msgs)
    BY <1>2
  <2> HIDE DEF q
  <2>3. TypeOK'
    BY <1>4, <2>1 DEF TypeOK
  <2>4. Apart'
    <3>1. \A r \in sent' : Once(r.msgs) /\ Of(r.msgs) \cap Of(queue) = {}
      BY <1>1, <2>1, <2>2 DEF Apart
    <3>2. ASSUME NEW r \in sent', NEW s \in sent', r # s PROVE Of(r.msgs) \cap Of(s.msgs) = {}
      <4>1. (r \in sent \/ r = q) /\ (s \in sent \/ s = q)
        BY <2>1
      <4>2. CASE r = q
        <5>1. s \in sent /\ c \notin Of(s.msgs)
          BY <1>1, <3>2, <4>1, <4>2
        <5> QED BY <2>2, <4>2, <5>1
      <4>3. CASE s = q
        <5>1. r \in sent /\ c \notin Of(r.msgs)
          BY <1>1, <3>2, <4>1, <4>3
        <5> QED BY <2>2, <4>3, <5>1
      <4>4. CASE r \in sent /\ s \in sent
        BY <3>2, <4>4 DEF Apart
      <4> QED BY <4>1, <4>2, <4>3, <4>4
    <3>3. Once(queue)' = Once(queue) /\ Of(queue)' = Of(queue)
      BY <2>1 DEF Once, Of
    <3> QED BY <3>1, <3>2, <3>3 DEF Apart
  <2>5. Waits'
    <3>1. \A d \in Of(queue) : result'[d] = "waiting"
      BY <1>1, <1>3 DEF Waits, Of, Messages
    <3>2. \A r \in sent' : \A d \in Of(r.msgs) : result'[d] = "waiting"
      <4>1. \A r \in sent : \A d \in Of(r.msgs) : result'[d] = "waiting"
        BY <1>1, <1>3 DEF Waits, Of, Messages, Requests
      <4> QED BY <1>3, <2>1, <2>2, <4>1
    <3> QED BY <2>1, <3>1, <3>2 DEF Waits, Of
  <2>6. NobodyForgotten'
    <3>1. ASSUME NEW d \in Calls, result'[d] = "waiting", ~dialog' PROVE OnItsWay(d)'
      <4>1. d \in Of(q.msgs) \/ OnItsWay(d)
        BY <1>3, <2>2, <3>1 DEF NobodyForgotten
      <4>2. d \in Of(queue) \/ \E r \in sent' : d \in Of(r.msgs)
        BY <2>1, <4>1, OnItsWayOf
      <4> QED BY <2>1, <4>2 DEF OnItsWay, Of
    <3> QED BY <2>1, <3>1 DEF NobodyForgotten
  <2> QED BY <2>3, <2>4, <2>5, <2>6
<1> QED BY <1>5, <1>6

LEMMA FrameKeeps == ASSUME CallInv, Frame PROVE CallInv'
<1> USE DEF CallInv
<1>1. /\ queue \in Seq(Messages) /\ sent \subseteq Requests /\ frames \in Nat /\ frames > 0
      /\ queue' = <<>> /\ frames' = frames - 1 /\ UNCHANGED <<result, session, dialog>>
  BY DEF Frame, TypeOK
<1>2. Of(<<>>) = {} /\ Once(<<>>)
  BY DEF Of, Once
<1> DEFINE q == [msgs |-> queue, batch |-> TRUE]
<1>3. q \in Requests /\ q.msgs = queue /\ sent' = IF queue = <<>> THEN sent ELSE sent \cup {q}
  BY <1>1 DEF Frame, Requests
<1> HIDE DEF q
<1>4. \A r \in sent' : r \in sent \/ r = q
  BY <1>3
<1>5. TypeOK'
  BY <1>1, <1>3, <1>4 DEF TypeOK
<1>6. Apart'
  <2>1. \A r \in sent' : Once(r.msgs)
    BY <1>3, <1>4 DEF Apart
  <2>2. \A r, s \in sent' : r # s => Of(r.msgs) \cap Of(s.msgs) = {}
    BY <1>3, <1>4 DEF Apart
  <2>3. Once(queue)' /\ Of(queue)' = {}
    BY <1>1 DEF Once, Of
  <2> QED BY <1>1, <2>1, <2>2, <2>3 DEF Apart
<1>7. Waits'
  <2>1. \A r \in sent' : \A d \in Of(r.msgs) : result[d] = "waiting"
    BY <1>3, <1>4 DEF Waits
  <2> QED BY <1>1, <1>2, <2>1 DEF Waits, Of
<1>8. NobodyForgotten'
  <2>1. ASSUME NEW d \in Calls, result[d] = "waiting", ~dialog PROVE \E r \in sent' : d \in Of(r.msgs)
    <3>1. d \in Of(queue) \/ \E r \in sent : d \in Of(r.msgs)
      BY <2>1, OnItsWayOf DEF NobodyForgotten
    <3>2. d \in Of(queue) => queue # <<>>
      BY <1>2
    <3> QED BY <1>3, <3>1, <3>2
  <2> QED BY <1>1, <2>1 DEF NobodyForgotten, OnItsWay, Of
<1> QED BY <1>5, <1>6, <1>7, <1>8

\* steps that touch the session alone, or lose a request with the dialog up
LEMMA CallsStay ==
  ASSUME CallInv, UNCHANGED <<result, queue, frames>>, sent' \subseteq sent,
         dialog' \in BOOLEAN, session' \in BOOLEAN, dialog \/ sent' # sent => dialog'
  PROVE  CallInv'
<1> USE DEF CallInv
<1>1. Once(queue)' = Once(queue) /\ Of(queue)' = Of(queue)
  BY DEF Once, Of
<1>2. TypeOK'
  BY DEF TypeOK
<1>3. Apart'
  BY <1>1 DEF Apart
<1>4. Waits'
  BY <1>1 DEF Waits
<1>5. NobodyForgotten'
  BY DEF NobodyForgotten, OnItsWay
<1> QED BY <1>2, <1>3, <1>4, <1>5

LEMMA NextCalls ==
  ASSUME CallsAssumption, CallInv, [Next]_vars
  PROVE  /\ CallInv'
         /\ \A c \in Calls : result'[c] # result[c] =>
               \/ result[c] = "idle" /\ result'[c] = "waiting"
               \/ result[c] = "waiting" /\ result'[c] \in {c, "error"}
<1> DEFINE Own == \A c \in Calls : result'[c] # result[c] =>
                     \/ result[c] = "idle" /\ result'[c] = "waiting"
                     \/ result[c] = "waiting" /\ result'[c] \in {c, "error"}
<1>1. ASSUME NEW c \in Calls, Call(c) \/ CallAlone(c) PROVE CallInv' /\ Own
  <2>1. /\ result[c] = "idle" /\ result' = [result EXCEPT ![c] = "waiting"]
        /\ UNCHANGED <<session, dialog>>
    BY <1>1 DEF Call, CallAlone
  <2> QED BY <1>1, <2>1, CallKeeps DEF CallInv, TypeOK
<1>2. CASE Frame
  BY <1>2, FrameKeeps DEF Frame
<1>3. CASE SessionEnds
  BY <1>3, CallsStay DEF SessionEnds, CallInv, TypeOK
<1>4. ASSUME NEW r \in sent, Reply(r) \/ Fail(r) PROVE CallInv' /\ Own
  <2>1. PICK answer \in Answers(r) \cup {<<>>} : Deliver(r, answer)
    BY <1>4 DEF Reply, Fail
  <2> QED BY <2>1, DeliverKeeps
<1>5. ASSUME NEW r \in sent, LoginRequired(r) PROVE CallInv' /\ Own
  BY <1>5, CallsStay DEF LoginRequired, CallInv, TypeOK
<1>6. CASE UNCHANGED vars
  BY <1>6, CallsStay DEF vars, CallInv, TypeOK
<1> QED BY <1>1, <1>2, <1>3, <1>4, <1>5, <1>6 DEF Next, Receive

(* Whatever calls share a request, however much of its reply is missing,   *)
(* and whether they are denied or the session ends: a promise is settled   *)
(* once, with the reply to its own call or with an error (request(),       *)
(* parseCallReply() and the interceptors).                                 *)
THEOREM RepliesAreOwn == ASSUME CallsAssumption PROVE Spec => OwnReplyOnce
<1>1. Init => CallInv
  BY InitCalls
<1>2. CallInv /\ [Next]_vars => CallInv'
  BY NextCalls
<1>3. CallInv /\ [Next]_vars =>
        [\A c \in Calls : result'[c] # result[c] =>
            \/ result[c] = "idle" /\ result'[c] = "waiting"
            \/ result[c] = "waiting" /\ result'[c] \in {c, "error"}]_result
  BY NextCalls
<1> QED BY <1>1, <1>2, <1>3, PTL DEF Spec, OwnReplyOnce

(* A call that waits has a message in the queue or in a request, and the   *)
(* queue has a frame that will send it, unless the page told the user to   *)
(* log in: no call is lost between a frame, a reply and a check.           *)
THEOREM NoneIsForgotten == ASSUME CallsAssumption PROVE Spec => []NobodyForgotten
<1>1. Init => CallInv
  BY InitCalls
<1>2. CallInv /\ [Next]_vars => CallInv'
  BY NextCalls
<1>3. CallInv => NobodyForgotten
  BY DEF CallInv
<1> QED BY <1>1, <1>2, <1>3, PTL DEF Spec
=============================================================================
