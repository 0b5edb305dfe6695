------------------------ MODULE PulsarProducerProofs ------------------------
(***************************************************************************)
(* Proofs about PulsarProducer for any messages, queue and retry counts.    *)
(* What carries them is that of every message at most one copy is under way *)
(* in the client, its callbacks and the I/O thread, and that the retry      *)
(* count of that copy and the rounds of sendAsync()'s loop tell how often   *)
(* the client has taken the message.                                        *)
(***************************************************************************)
EXTENDS PulsarProducer, SequenceLemmas

-----------------------------------------------------------------------------
(* The invariant *)

\* The messages that wait for an acknowledgement, for their callback, or to be
\* sent again by it.
Queued == Tags(queue)
Answered == Tags(answers)
Resending == IF io = <<>> THEN {} ELSE {io[1]}

\* Where the application thread is, and what it has in its hands there.
CallInv ==
    /\ pc \in {"loop", "read"} <=> current # <<>>
    /\ pc \in {"loop", "read", "flush"} => hasClient
    /\ pc = "read" => tries < QueueFullRetries
    /\ closed <=> pc = "done"
    /\ pc = "new" => ~hasClient /\ \A m \in Msgs : verdict[m] = "none"
    /\ \A m \in Msgs : current = <<m>> => verdict[m] = "none"

\* One copy of a message is under way.
CopiesInv ==
    /\ Once(queue) /\ Once(answers)
    /\ Queued \cap Answered = {} /\ Queued \cap Resending = {}
    /\ Answered \cap Resending = {}

\* A message is under way only after produce() began with it, and not while the
\* loop is about to send it.
FlightInv ==
    /\ InFlight # {} => hasClient \/ closed
    /\ \A m \in InFlight : \/ current = <<m>> /\ pc = "read"
                           \/ verdict[m] # "none"

\* What produce() reads: after "full" or "error" nothing is under way any more,
\* and after "timeout" the message timed out.
ResultInv ==
    \A m \in Msgs : current = <<m>> /\ pc = "read" =>
        /\ result[m] \in {"full", "error"} => m \notin InFlight
        /\ result[m] = "timeout" => timeouts[m] > 0

\* The client took every copy that was written, and the one it holds.
LogInv ==
    \A m \in Msgs : /\ log[m] <= sends[m]
                    /\ m \in Queued => log[m] < sends[m]

\* The round of the loop ended without a copy under way, for a full queue.
RoundOver(m) ==
    current = <<m>> /\ (pc = "loop" \/ (pc = "read" /\ result[m] = "full"))

\* Every send but the first of a round answers a timeout, and a round that saw a
\* full queue has as many timeouts as sends.
TimeoutInv ==
    /\ \A m \in Msgs :
          /\ sends[m] <= timeouts[m] + 1
          /\ verdict[m] = "none" /\ current # <<m>> => sends[m] = 0
          /\ m \in Resending \/ RoundOver(m) => sends[m] <= timeouts[m]
          /\ m \in Resending => timeouts[m] > 0
    /\ \A a \in Range(answers) :
          a[3] = "timeout" => timeouts[a[1]] > 0 /\ sends[a[1]] <= timeouts[a[1]]

\* The copies of a message that the rounds before this one may have sent.
Before == tries * TimeoutRetries

\* The retry count of the copy under way tells how many sends are left.
BudgetInv ==
    /\ \A m \in Msgs :
          /\ sends[m] <= MaxTaken
          /\ current = <<m>> /\ pc = "loop" => sends[m] <= Before
          /\ RoundOver(m) => sends[m] <= Before + TimeoutRetries
    /\ \A c \in Range(queue) \cup Range(answers) :
          /\ sends[c[1]] + TimeoutRetries <= MaxTaken + c[2]
          /\ current = <<c[1]>> => sends[c[1]] <= Before + c[2] + 1
    /\ io # <<>> =>
          /\ sends[io[1]] + TimeoutRetries < MaxTaken + io[2]
          /\ current = <<io[1]>> => sends[io[1]] <= Before + io[2]

\* A message that produce() refused, and that did not time out, is not under way.
ProducerInv ==
    TypeOK /\ CallInv /\ CopiesInv /\ FlightInv /\ ResultInv /\ LogInv
           /\ TimeoutInv /\ BudgetInv /\ RefusedIsNotSent
-----------------------------------------------------------------------------
(* Types *)

Copy == Msgs \X Retries
Reply == Msgs \X Retries \X (Results \ {"full"})

LEMMA Numbers ==
    /\ QueueFullRetries \in Nat /\ TimeoutRetries \in Nat
    /\ 0 \in 0 .. QueueFullRetries /\ 0 \in Retries
    /\ \A n \in Retries : n \in Nat /\ n <= TimeoutRetries
                         /\ (MayRetry(n) => n + 1 \in Retries)
    /\ MaxTaken \in Nat
BY ProducerAssumption DEF Retries, MayRetry, MaxTaken

\* The answer to a copy.
LEMMA Replying ==
    ASSUME NEW c \in Copy, NEW r \in Results \ {"full"}
    PROVE  /\ c \o <<r>> \in Reply
           /\ (c \o <<r>>)[1] = c[1] /\ (c \o <<r>>)[2] = c[2] /\ (c \o <<r>>)[3] = r
<1>1. PICK m \in Msgs, n \in Retries : c = <<m, n>>
  BY DEF Copy
<1>2. <<m, n>> \o <<r>> = <<m, n, r>>
  <2> DEFINE A == {m, n, r}
  <2> DEFINE s == <<m, n>>
  <2> DEFINE t == <<r>>
  <2> DEFINE u == <<m, n, r>>
  <2>1. /\ s \in Seq(A) /\ t \in Seq(A) /\ u \in Seq(A)
        /\ Len(s) = 2 /\ Len(t) = 1 /\ Len(u) = 3
        /\ s[1] = m /\ s[2] = n /\ t[1] = r /\ u[1] = m /\ u[2] = n /\ u[3] = r
    OBVIOUS
  <2> HIDE DEF A, s, t, u
  <2>2. /\ s \o t \in Seq(A) /\ Len(s \o t) = 3
        /\ \A i \in 1 .. 3 : (s \o t)[i] = IF i <= 2 THEN s[i] ELSE t[i - 2]
    <3>1. /\ s \o t \in Seq(A) /\ Len(s \o t) = Len(s) + Len(t)
          /\ \A i \in 1 .. Len(s) + Len(t) :
                (s \o t)[i] = IF i <= Len(s) THEN s[i] ELSE t[i - Len(s)]
      BY <2>1, ConcatProperties
    <3>2. Len(s) = 2 /\ Len(s) + Len(t) = 3
      BY <2>1
    <3> QED
      BY <3>1, <3>2
  <2>3. \A i \in 1 .. 3 : (s \o t)[i] = u[i]
    BY <2>1, <2>2
  <2>4. s \o t = u
    BY <2>1, <2>2, <2>3, SeqEqual
  <2> QED
    BY <2>4 DEF s, t, u
<1> QED
  BY <1>1, <1>2 DEF Reply

\* close() answers every copy with an error.
Failures == [i \in DOMAIN queue |-> queue[i] \o <<"error">>]

LEMMA Failing ==
    ASSUME queue \in Seq(Copy)
    PROVE  /\ Failures \in Seq(Reply)
           /\ Tags(Failures) = Tags(queue) /\ (Once(queue) => Once(Failures))
           /\ \A a \in Range(Failures) :
                 a[3] = "error" /\ \E c \in Range(queue) : a[1] = c[1] /\ a[2] = c[2]
<1>1. /\ DOMAIN queue = 1 .. Len(queue) /\ Len(queue) \in Nat
      /\ \A i \in DOMAIN queue : queue[i] \in Copy
  OBVIOUS
<1>2. \A i \in DOMAIN queue : /\ Failures[i] \in Reply /\ Failures[i][1] = queue[i][1]
                             /\ Failures[i][2] = queue[i][2] /\ Failures[i][3] = "error"
  BY <1>1, Replying DEF Failures, Results
<1>3. DOMAIN Failures = DOMAIN queue
  BY DEF Failures
<1>4. Failures \in Seq(Reply)
  BY <1>1, <1>2 DEF Failures
<1> HIDE DEF Failures
<1>5. Tags(Failures) = Tags(queue) /\ (Once(queue) => Once(Failures))
  BY <1>2, <1>3 DEF Tags, Once, Range
<1>6. \A a \in Range(Failures) :
         a[3] = "error" /\ \E c \in Range(queue) : a[1] = c[1] /\ a[2] = c[2]
  BY <1>2, <1>3 DEF Range
<1> QED
  BY <1>4, <1>5, <1>6

\* What the client does with a copy, whoever sends it.
LEMMA ClientSendType ==
    ASSUME TypeOK, NEW m \in Msgs, NEW n \in Retries, NEW taken \in Results,
           NEW refused \in BOOLEAN, ClientSend(m, n, taken, refused)
    PROVE  /\ queue' \in Seq(Copy) /\ sends' \in [Msgs -> Nat]
           /\ result' \in [Msgs -> Results]
<1>1. queue \in Seq(Copy) /\ <<m, n>> \in Copy
  BY DEF TypeOK, Copy
<1>2. Append(queue, <<m, n>>) \in Seq(Copy)
  BY <1>1, OnceAppend
<1>3. /\ queue' = Append(queue, <<m, n>>) \/ queue' = queue
      /\ sends' = [sends EXCEPT ![m] = @ + 1] \/ sends' = sends
      /\ \E r \in Results : result' = [result EXCEPT ![m] = r]
  BY DEF ClientSend, Results
<1>4. sends' \in [Msgs -> Nat]
  <2>1. sends \in [Msgs -> Nat] /\ sends[m] + 1 \in Nat
    BY DEF TypeOK
  <2> QED
    BY <1>3, <2>1
<1>5. result' \in [Msgs -> Results]
  BY <1>3 DEF TypeOK
<1> QED
  BY <1>1, <1>2, <1>3, <1>4, <1>5

\* The message of the call under way.
LEMMA Current ==
    ASSUME TypeOK, current # <<>>
    PROVE  \E m \in Msgs : current = <<m>> /\ current[1] = m
BY DEF TypeOK

LEMMA ReturnType ==
    ASSUME TypeOK, current # <<>>, NEW value \in {"true", "false"}, Return(value)
    PROVE  /\ pc' = "ready" /\ current' = <<>>
           /\ verdict' \in [Msgs -> {"none", "true", "false"}]
BY Current DEF Return, TypeOK

LEMMA StepType ==
    ASSUME TypeOK, CallInv, [Next]_vars
    PROVE  TypeOK'
<1> USE DEF TypeOK
<1>1. CASE Initialise
  BY <1>1 DEF Initialise
<1>2. CASE Uninit
  BY <1>2 DEF Uninit
<1>3. CASE UNCHANGED vars
  BY <1>3 DEF vars
<1>4. ASSUME NEW m \in Msgs, ProduceRefused(m)
      PROVE  TypeOK'
  BY <1>4 DEF ProduceRefused
<1>5. ASSUME NEW m \in Msgs, Produce(m)
      PROVE  TypeOK'
  BY <1>5, Numbers DEF Produce
<1>6. CASE SendAsync
  <2>1. PICK m \in Msgs : current[1] = m
    BY <1>6, Current DEF SendAsync, CallInv
  <2>2. ClientSend(m, 0, "ok", TRUE)
    BY <1>6, <2>1 DEF SendAsync
  <2>3. /\ queue' \in Seq(Copy) /\ sends' \in [Msgs -> Nat]
        /\ result' \in [Msgs -> Results]
    BY <2>2, Numbers, ClientSendType DEF Results
  <2> QED
    BY <1>6, <2>3 DEF SendAsync, Copy
<1>7. CASE ReadResult
  <2>1. pc = "read" /\ current # <<>>
    BY <1>7 DEF ReadResult, CallInv
  <2>2. CASE Return("true") \/ Return("false")
    <3>1. /\ pc' = "ready" /\ current' = <<>>
          /\ verdict' \in [Msgs -> {"none", "true", "false"}]
      BY <2>1, <2>2, ReturnType
    <3>2. UNCHANGED <<hasClient, result, closed, queue, answers, io, log, sends,
                      timeouts, tries>>
      BY <1>7, <2>2 DEF ReadResult, Return
    <3> QED
      BY <3>1, <3>2
  <2> QED
    BY <1>7, <2>2, Numbers DEF ReadResult, CallInv
<1>8. CASE GiveUp
  <2>1. current # <<>> /\ Return("false")
    BY <1>8 DEF GiveUp, CallInv
  <2>2. /\ pc' = "ready" /\ current' = <<>>
        /\ verdict' \in [Msgs -> {"none", "true", "false"}]
    BY <2>1, ReturnType
  <2> QED
    BY <1>8, <2>2 DEF GiveUp
<1>9. CASE Close
  <2>1. queue' \in Seq(Copy) /\ answers' \in Seq(Reply)
    <3>1. Failures \in Seq(Reply) /\ answers \in Seq(Reply)
      BY Failing DEF Copy, Reply
    <3>2. answers \o Failures \in Seq(Reply)
      BY <3>1, OnceConcat
    <3>3. answers' = answers \o Failures /\ queue' = <<>>
      BY <1>9 DEF Close, Failures
    <3> QED
      BY <3>2, <3>3, EmptyHolds
  <2> QED
    BY <1>9, <2>1 DEF Close, Copy, Reply
<1>10. CASE Callback
  <2>1. answers' \in Seq(Reply) /\ Head(answers) \in Reply
    BY <1>10, OnceTail DEF Callback, Reply
  <2>2. PICK m \in Msgs, n \in Retries, r \in Results :
            Head(answers)[1] = m /\ Head(answers)[2] = n /\ Head(answers)[3] = r
    BY <2>1 DEF Reply
  <2>3. /\ result' = [result EXCEPT ![m] = r]
        /\ io' = <<>> \/ (io' = <<m, n + 1>> /\ MayRetry(n))
    BY <1>10, <2>2 DEF Callback
  <2>4. result' \in [Msgs -> Results] /\ io' \in {<<>>} \cup Copy
    BY <2>3, Numbers DEF Copy
  <2> QED
    BY <1>10, <2>1, <2>4 DEF Callback, Copy, Reply
<1>11. CASE CallbackSend
  <2>1. PICK m \in Msgs, n \in Retries : io = <<m, n>>
    BY <1>11 DEF CallbackSend
  <2>2. ClientSend(m, n, result[m], closed) /\ result[m] \in Results
    BY <1>11, <2>1 DEF CallbackSend
  <2>3. /\ queue' \in Seq(Copy) /\ sends' \in [Msgs -> Nat]
        /\ result' \in [Msgs -> Results]
    BY <2>2, ClientSendType
  <2> QED
    BY <1>11, <2>3 DEF CallbackSend, Copy
<1>12. ASSUME NEW i \in DOMAIN queue, NEW r \in {"ok", "timeout", "error"}, Answer(i, r)
       PROVE  TypeOK'
  <2>1. queue[i] \in Copy /\ queue' \in Seq(Copy)
    BY <1>12, OnceRemove DEF Answer, Copy
  <2>2. answers' \in Seq(Reply)
    <3>1. queue[i] \o <<r>> \in Reply
      BY <2>1, Replying DEF Results
    <3>2. answers \in Seq(Reply)
      BY DEF Reply
    <3>3. Append(answers, queue[i] \o <<r>>) \in Seq(Reply)
      BY <3>1, <3>2, OnceAppend
    <3> QED
      BY <1>12, <3>3 DEF Answer
  <2>3. queue[i][1] \in Msgs
    BY <2>1 DEF Copy
  <2>4. log' \in [Msgs -> Nat] /\ timeouts' \in [Msgs -> Nat]
    <3>1. log[queue[i][1]] + 1 \in Nat /\ timeouts[queue[i][1]] + 1 \in Nat
      BY <2>3
    <3> QED
      BY <1>12, <2>3, <3>1 DEF Answer
  <2> QED
    BY <1>12, <2>1, <2>2, <2>4 DEF Answer, Copy, Reply
<1> QED
  BY <1>1, <1>2, <1>3, <1>4, <1>5, <1>6, <1>7, <1>8, <1>9, <1>10, <1>11, <1>12
  DEF Next, Application, InsideCall, IoThread, Broker, Done

LEMMA InitTyped == Init => TypeOK
<1> SUFFICES ASSUME Init PROVE TypeOK
  OBVIOUS
<1>1. queue \in Seq(Copy) /\ answers \in Seq(Reply)
  BY EmptyHolds DEF Init
<1> QED
  BY <1>1, Numbers DEF Init, TypeOK, Copy, Reply, Results

-----------------------------------------------------------------------------
(* What the steps do to the copies under way *)

LEMMA PlacesHold ==
    ASSUME NEW q \in Seq(Copy), NEW a \in Seq(Reply), NEW c \in {<<>>} \cup Copy
    PROVE  /\ Range(Firsts(q) \o Firsts(a) \o (IF c = <<>> THEN <<>> ELSE <<c[1]>>))
                = Tags(q) \cup Tags(a) \cup (IF c = <<>> THEN {} ELSE {c[1]})
           /\ Tags(q) \subseteq Msgs /\ Tags(a) \subseteq Msgs
           /\ (c # <<>> => c[1] \in Msgs /\ c[2] \in Retries)
           /\ Range(q) \subseteq Copy /\ Range(a) \subseteq Reply
           /\ \A x \in Range(q) : x[1] \in Tags(q)
           /\ \A x \in Range(a) : x[1] \in Tags(a)
<1> DEFINE u == Firsts(q)
<1> DEFINE v == Firsts(a)
<1> DEFINE w == IF c = <<>> THEN <<>> ELSE <<c[1]>>
<1>1. /\ \A i \in DOMAIN q : q[i] \in Copy
      /\ \A i \in DOMAIN a : a[i] \in Reply
  OBVIOUS
<1>2. /\ \A x \in Copy : x[1] \in Msgs /\ x[2] \in Retries
      /\ \A x \in Reply : x[1] \in Msgs
  BY DEF Copy, Reply
<1>3. c # <<>> => c[1] \in Msgs /\ c[2] \in Retries
  BY <1>2
<1>4. /\ Range(q) \subseteq Copy /\ Range(a) \subseteq Reply
      /\ \A x \in Range(q) : x[1] \in Tags(q)
      /\ \A x \in Range(a) : x[1] \in Tags(a)
  BY <1>1 DEF Range, Tags
<1>5. Tags(q) \subseteq Msgs /\ Tags(a) \subseteq Msgs
  BY <1>2, <1>4 DEF Tags
<1>6. u \in Seq(Msgs) /\ v \in Seq(Msgs)
  <2>1. /\ DOMAIN q = 1 .. Len(q) /\ Len(q) \in Nat
        /\ DOMAIN a = 1 .. Len(a) /\ Len(a) \in Nat
    OBVIOUS
  <2>2. /\ \A i \in DOMAIN q : q[i][1] \in Msgs
        /\ \A i \in DOMAIN a : a[i][1] \in Msgs
    BY <1>1, <1>2
  <2>3. u \in Seq(Msgs)
    BY <2>1, <2>2 DEF Firsts
  <2>4. v \in Seq(Msgs)
    BY <2>1, <2>2 DEF Firsts
  <2> QED
    BY <2>3, <2>4
<1>7. w \in Seq(Msgs) /\ Range(w) = IF c = <<>> THEN {} ELSE {c[1]}
  <2>1. CASE c = <<>>
    BY <2>1, EmptyHolds
  <2>2. CASE c # <<>>
    <3>1. w = <<c[1]>> /\ c[1] \in Msgs
      BY <1>3, <2>2
    <3>2. <<c[1]>> \in Seq(Msgs) /\ Range(<<c[1]>>) = {c[1]}
      BY <3>1 DEF Range
    <3> QED
      BY <2>2, <3>1, <3>2
  <2> QED
    BY <2>1, <2>2
<1>8. Range(u) = Tags(q) /\ Range(v) = Tags(a)
  BY DEF Range, Tags, Firsts
<1> HIDE DEF u, v, w
<1>9. u \o v \in Seq(Msgs) /\ Range(u \o v) = Range(u) \cup Range(v)
  BY <1>6, OnceConcat
<1>10. Range((u \o v) \o w) = Range(u \o v) \cup Range(w)
  <2> DEFINE x == u \o v
  <2>1. x \in Seq(Msgs)
    BY <1>9
  <2> HIDE DEF x
  <2>2. Range(x \o w) = Range(x) \cup Range(w)
    BY <1>7, <2>1, OnceConcat
  <2> QED
    BY <2>2 DEF x
<1> QED
  BY <1>3, <1>4, <1>5, <1>7, <1>8, <1>9, <1>10 DEF u, v, w

\* What is under way, by place.
LEMMA Places ==
    ASSUME TypeOK
    PROVE  /\ InFlight = Queued \cup Answered \cup Resending
           /\ InFlight \subseteq Msgs
           /\ Range(queue) \subseteq Copy /\ Range(answers) \subseteq Reply
           /\ \A c \in Range(queue) : c[1] \in Queued
           /\ \A a \in Range(answers) : a[1] \in Answered
           /\ io # <<>> => io[1] \in Msgs /\ io[2] \in Retries
<1>1. queue \in Seq(Copy) /\ answers \in Seq(Reply) /\ io \in {<<>>} \cup Copy
  BY DEF TypeOK, Copy, Reply
<1>2. InFlight = Queued \cup Answered \cup Resending
  <2>1. Copies = Firsts(queue) \o Firsts(answers) \o (IF io = <<>> THEN <<>> ELSE <<io[1]>>)
    BY DEF Copies, Firsts
  <2> QED
    BY <1>1, <2>1, PlacesHold DEF InFlight, Queued, Answered, Resending
<1>3. /\ Queued \subseteq Msgs /\ Answered \subseteq Msgs
      /\ Range(queue) \subseteq Copy /\ Range(answers) \subseteq Reply
      /\ \A c \in Range(queue) : c[1] \in Queued
      /\ \A a \in Range(answers) : a[1] \in Answered
      /\ io # <<>> => io[1] \in Msgs /\ io[2] \in Retries
  BY <1>1, PlacesHold DEF Queued, Answered
<1>4. Resending \subseteq Msgs
  BY <1>3 DEF Resending
<1> QED
  BY <1>2, <1>3, <1>4

LEMMA PlacesNext ==
    ASSUME TypeOK'
    PROVE  InFlight' = Queued' \cup Answered' \cup Resending'
<1>1. queue' \in Seq(Copy) /\ answers' \in Seq(Reply) /\ io' \in {<<>>} \cup Copy
  BY DEF TypeOK, Copy, Reply
<1>2. Copies' = Firsts(queue') \o Firsts(answers')
                    \o (IF io' = <<>> THEN <<>> ELSE <<io'[1]>>)
  BY DEF Copies, Firsts
<1> QED
  BY <1>1, <1>2, PlacesHold DEF InFlight, Queued, Answered, Resending

LEMMA StayEffect ==
    ASSUME UNCHANGED <<queue, answers, io>>
    PROVE  /\ Queued' = Queued /\ Answered' = Answered /\ Resending' = Resending
           /\ InFlight' = InFlight /\ (CopiesInv => CopiesInv')
<1>1. Queued' = Queued /\ Answered' = Answered /\ Resending' = Resending
  BY DEF Queued, Answered, Resending
<1>2. InFlight' = InFlight
  BY DEF InFlight, Copies
<1>3. CopiesInv => CopiesInv'
  BY <1>1 DEF CopiesInv
<1> QED
  BY <1>1, <1>2, <1>3

\* The client takes a copy, or the message has the result r.
Takes(m, n, r) ==
    /\ Range(queue') = Range(queue) \cup {<<m, n>>}
    /\ Queued' = Queued \cup {m}
    /\ sends' = [sends EXCEPT ![m] = sends[m] + 1]
    /\ result' = [result EXCEPT ![m] = r]
Refuses(m, r) ==
    /\ Range(queue') = Range(queue) /\ Queued' = Queued
    /\ sends' = sends
    /\ result' = [result EXCEPT ![m] = r]

LEMMA ClientSendEffect ==
    ASSUME TypeOK, NEW m \in Msgs, NEW n \in Retries, NEW taken \in Results,
           NEW refused \in BOOLEAN, ClientSend(m, n, taken, refused)
    PROVE  \/ Takes(m, n, taken) /\ (Once(queue) /\ m \notin Queued => Once(queue'))
           \/ /\ Refuses(m, "full") \/ Refuses(m, "error")
              /\ queue' = queue
<1>1. queue \in Seq(Copy) /\ <<m, n>> \in Copy /\ <<m, n>>[1] = m
  BY DEF TypeOK, Copy
<1> DEFINE t == Append(queue, <<m, n>>)
<1>2. /\ Range(t) = Range(queue) \cup {<<m, n>>} /\ Tags(t) = Tags(queue) \cup {m}
      /\ Once(queue) /\ m \notin Tags(queue) => Once(t)
  BY <1>1, OnceAppend
<1>3. CASE /\ queue' = t /\ sends' = [sends EXCEPT ![m] = @ + 1]
           /\ result' = [result EXCEPT ![m] = taken]
  BY <1>2, <1>3 DEF Takes, Queued
<1>4. CASE UNCHANGED <<queue, sends>> /\ result' = [result EXCEPT ![m] = "full"]
  BY <1>4 DEF Refuses, Queued
<1>5. CASE UNCHANGED <<queue, sends>> /\ result' = [result EXCEPT ![m] = "error"]
  BY <1>5 DEF Refuses, Queued
<1> QED
  BY <1>3, <1>4, <1>5 DEF ClientSend

\* A round of the loop, which finds nothing of its message under way.
LEMMA SendAsyncEffect ==
    ASSUME TypeOK, TypeOK', CallInv, CopiesInv, FlightInv, SendAsync
    PROVE  \E m \in Msgs :
              /\ current = <<m>> /\ m \notin InFlight /\ verdict[m] = "none"
              /\ \/ Takes(m, 0, "ok") /\ InFlight' = InFlight \cup {m}
                 \/ /\ Refuses(m, "full") \/ Refuses(m, "error")
                    /\ InFlight' = InFlight
              /\ Answered' = Answered /\ Resending' = Resending /\ CopiesInv'
<1>0. pc = "loop" /\ current # <<>> /\ answers' = answers /\ io' = io
  BY DEF SendAsync, CallInv
<1>1. PICK m \in Msgs : current = <<m>> /\ current[1] = m
  BY <1>0, Current
<1>2. ClientSend(m, 0, "ok", TRUE)
  BY <1>1 DEF SendAsync
<1>3. verdict[m] = "none" /\ m \notin InFlight
  BY <1>0, <1>1 DEF CallInv, FlightInv
<1>4. m \notin Queued /\ m \notin Answered /\ m \notin Resending
  BY <1>3, Places
<1>5. \/ Takes(m, 0, "ok") /\ (Once(queue) /\ m \notin Queued => Once(queue'))
      \/ /\ Refuses(m, "full") \/ Refuses(m, "error")
         /\ queue' = queue
  BY <1>2, Numbers, ClientSendEffect DEF Results
<1>6. Answered' = Answered /\ Resending' = Resending
  BY <1>0 DEF Answered, Resending
<1>7. CASE Takes(m, 0, "ok") /\ (Once(queue) /\ m \notin Queued => Once(queue'))
  <2>1. Queued' = Queued \cup {m}
    BY <1>7 DEF Takes
  <2>2. InFlight' = InFlight \cup {m}
    BY <1>6, <2>1, Places, PlacesNext
  <2>3. CopiesInv'
    BY <1>0, <1>4, <1>6, <1>7, <2>1 DEF CopiesInv
  <2> QED
    BY <1>1, <1>3, <1>6, <1>7, <2>2, <2>3
<1>8. CASE (Refuses(m, "full") \/ Refuses(m, "error")) /\ queue' = queue
  <2>1. InFlight' = InFlight /\ CopiesInv'
    BY <1>0, <1>8, StayEffect
  <2> QED
    BY <1>1, <1>3, <1>6, <1>8, <2>1
<1> QED
  BY <1>5, <1>7, <1>8

\* A callback sends its message again, or drops it.
LEMMA CallbackSendEffect ==
    ASSUME TypeOK, TypeOK', CopiesInv, CallbackSend
    PROVE  \E m \in Msgs, n \in Retries :
              /\ io = <<m, n>> /\ m \in InFlight /\ m \notin Queued /\ m \notin Answered
              /\ Resending = {m} /\ Resending' = {} /\ io' = <<>>
              /\ \/ Takes(m, n, result[m]) /\ InFlight' = InFlight
                 \/ /\ Refuses(m, "full") \/ Refuses(m, "error")
                    /\ InFlight' = InFlight \ {m}
              /\ Answered' = Answered /\ CopiesInv'
<1>0. io # <<>> /\ io' = <<>> /\ answers' = answers
  BY DEF CallbackSend
<1>1. PICK m \in Msgs, n \in Retries : io = <<m, n>> /\ io[1] = m /\ io[2] = n
  BY <1>0 DEF TypeOK
<1>2. ClientSend(m, n, result[m], closed) /\ result[m] \in Results /\ closed \in BOOLEAN
  BY <1>1 DEF CallbackSend, TypeOK
<1>3. Resending = {m} /\ Resending' = {} /\ Answered' = Answered
  BY <1>0, <1>1 DEF Resending, Answered
<1>4. m \notin Queued /\ m \notin Answered /\ m \in InFlight
  BY <1>3, Places DEF CopiesInv
<1>5. \/ Takes(m, n, result[m]) /\ (Once(queue) /\ m \notin Queued => Once(queue'))
      \/ /\ Refuses(m, "full") \/ Refuses(m, "error")
         /\ queue' = queue
  BY <1>2, ClientSendEffect
<1>7. CASE Takes(m, n, result[m]) /\ (Once(queue) /\ m \notin Queued => Once(queue'))
  <2>1. Queued' = Queued \cup {m}
    BY <1>7 DEF Takes
  <2>2. InFlight' = InFlight
    BY <1>3, <2>1, Places, PlacesNext
  <2>3. CopiesInv'
    BY <1>0, <1>3, <1>4, <1>7, <2>1 DEF CopiesInv
  <2> QED
    BY <1>0, <1>1, <1>3, <1>4, <1>7, <2>2, <2>3
<1>8. CASE (Refuses(m, "full") \/ Refuses(m, "error")) /\ queue' = queue
  <2>1. Queued' = Queued
    BY <1>8 DEF Queued
  <2>2. InFlight' = InFlight \ {m}
    BY <1>3, <1>4, <2>1, Places, PlacesNext
  <2>3. CopiesInv'
    BY <1>0, <1>3, <1>8, <2>1 DEF CopiesInv
  <2> QED
    BY <1>0, <1>1, <1>3, <1>4, <1>8, <2>2, <2>3
<1> QED
  BY <1>5, <1>7, <1>8

\* A callback runs, up to its own send.
LEMMA CallbackEffect ==
    ASSUME TypeOK, TypeOK', CopiesInv, Callback
    PROVE  \E a \in Range(answers), m \in Msgs, n \in Retries :
              /\ a[1] = m /\ a[2] = n /\ m \in InFlight
              /\ result' = [result EXCEPT ![m] = a[3]]
              /\ a[3] \in {"ok", "timeout", "error"}
              /\ \/ /\ a[3] = "timeout" /\ n + 1 \in Retries
                    /\ io' = <<m, n + 1>> /\ io' # <<>> /\ io'[1] = m /\ io'[2] = n + 1
                    /\ Resending' = {m} /\ InFlight' = InFlight
                 \/ io' = <<>> /\ Resending' = {} /\ InFlight' = InFlight \ {m}
              /\ Range(answers') \subseteq Range(answers) /\ CopiesInv'
<1>0. /\ io = <<>> /\ answers # <<>> /\ answers' = Tail(answers) /\ queue' = queue
  BY DEF Callback
<1>1. answers \in Seq(Reply)
  BY DEF TypeOK, Reply
<1> DEFINE a == Head(answers)
<1>2. /\ a \in Reply /\ a \in Range(answers) /\ Range(answers') \subseteq Range(answers)
      /\ Tags(answers) = Tags(answers') \cup {a[1]}
      /\ Once(answers) => Once(answers') /\ a[1] \notin Tags(answers')
  BY <1>0, <1>1, OnceTail
<1>3. PICK m \in Msgs, n \in Retries : a[1] = m /\ a[2] = n
  BY <1>2 DEF Reply
<1>4. a[3] \in {"ok", "timeout", "error"}
  BY <1>2 DEF Reply, Results
<1>5. /\ result' = [result EXCEPT ![m] = a[3]]
      /\ io' = IF a[3] = "timeout" /\ MayRetry(n) THEN <<m, n + 1>> ELSE <<>>
  BY <1>3 DEF Callback
<1> HIDE DEF a
<1>6. /\ Queued' = Queued /\ Resending = {}
      /\ Answered = Answered' \cup {m} /\ m \notin Answered' /\ m \notin Queued
      /\ Once(answers') /\ Once(queue')
  <2>1. Queued' = Queued /\ Resending = {} /\ Once(queue')
    BY <1>0 DEF Queued, Resending, CopiesInv
  <2>2. Answered = Answered' \cup {m} /\ m \notin Answered' /\ Once(answers')
    BY <1>2, <1>3 DEF Answered, CopiesInv
  <2> QED
    BY <2>1, <2>2 DEF CopiesInv
<1>7. m \in InFlight
  BY <1>6, Places
<1>8. CASE a[3] = "timeout" /\ MayRetry(n)
  <2>1. /\ io' = <<m, n + 1>> /\ io' # <<>> /\ io'[1] = m /\ io'[2] = n + 1
        /\ n + 1 \in Retries
    BY <1>5, <1>8, Numbers
  <2>2. Resending' = {m}
    BY <2>1 DEF Resending
  <2>3. InFlight' = InFlight
    BY <1>6, <2>2, Places, PlacesNext
  <2>4. CopiesInv'
    BY <1>6, <2>2 DEF CopiesInv
  <2> QED
    BY <1>2, <1>3, <1>4, <1>5, <1>7, <1>8, <2>1, <2>2, <2>3, <2>4
<1>9. CASE ~(a[3] = "timeout" /\ MayRetry(n))
  <2>1. io' = <<>> /\ Resending' = {}
    BY <1>5, <1>9 DEF Resending
  <2>3. InFlight' = InFlight \ {m}
    BY <1>6, <2>1, Places, PlacesNext
  <2>4. CopiesInv'
    BY <1>6, <2>1 DEF CopiesInv
  <2> QED
    BY <1>2, <1>3, <1>4, <1>5, <1>7, <2>1, <2>3, <2>4
<1> QED
  BY <1>8, <1>9

\* The client answers a copy.
LEMMA AnswerEffect ==
    ASSUME TypeOK, TypeOK', CopiesInv, NEW i \in DOMAIN queue,
           NEW r \in {"ok", "timeout", "error"}, Answer(i, r)
    PROVE  \E m \in Msgs, c \in Range(queue), a \in Reply :
              /\ c[1] = m /\ a[1] = m /\ a[2] = c[2] /\ a[3] = r
              /\ m \in Queued /\ m \in InFlight /\ m \notin Answered
              /\ Queued' = Queued \ {m} /\ InFlight' = InFlight /\ io' = io
              /\ Resending' = Resending
              /\ Range(queue') \subseteq Range(queue)
              /\ Range(answers') = Range(answers) \cup {a}
              /\ log' = [log EXCEPT ![m] = log[m] + 1] \/ log' = log
              /\ timeouts' = [timeouts EXCEPT ![m] = IF r = "timeout" THEN @ + 1 ELSE @]
              /\ CopiesInv'
<1>1. queue \in Seq(Copy) /\ answers \in Seq(Reply)
  BY DEF TypeOK, Copy, Reply
<1> DEFINE c == queue[i]
<1> DEFINE a == c \o <<r>>
<1>2. /\ queue' = RemoveAt(queue, i) /\ answers' = Append(answers, a) /\ io' = io
      /\ log' = [log EXCEPT ![c[1]] = @ + 1] \/ log' = log
      /\ timeouts' = [timeouts EXCEPT ![c[1]] = IF r = "timeout" THEN @ + 1 ELSE @]
  BY DEF Answer
<1>3. /\ c \in Copy /\ c \in Range(queue) /\ Range(queue) = Range(queue') \cup {c}
      /\ Tags(queue) = Tags(queue') \cup {c[1]}
      /\ Once(queue) => Once(queue') /\ c[1] \notin Tags(queue')
  BY <1>1, <1>2, OnceRemove
<1>4. a \in Reply /\ a[1] = c[1] /\ a[2] = c[2] /\ a[3] = r
  <2>1. r \in Results \ {"full"} /\ c \in Copy
    BY <1>3 DEF Results
  <2> HIDE DEF c
  <2> QED
    BY <2>1, Replying
<1>5. PICK m \in Msgs : c[1] = m
  BY <1>3 DEF Copy
<1> HIDE DEF c, a
<1>6. Queued = Queued' \cup {m} /\ m \notin Queued' /\ Once(queue') /\ Resending' = Resending
  BY <1>2, <1>3, <1>5 DEF Queued, CopiesInv, Resending
<1>7. m \in Queued /\ m \in InFlight /\ m \notin Answered
  BY <1>6, Places DEF CopiesInv
<1>8. /\ Range(answers') = Range(answers) \cup {a} /\ Answered' = Answered \cup {m}
      /\ Once(answers')
  <2>1. /\ Range(Append(answers, a)) = Range(answers) \cup {a}
        /\ Tags(Append(answers, a)) = Tags(answers) \cup {a[1]}
        /\ Once(answers) /\ a[1] \notin Tags(answers) => Once(Append(answers, a))
    BY <1>1, <1>4, OnceAppend
  <2> QED
    BY <1>2, <1>4, <1>5, <1>7, <2>1 DEF Answered, CopiesInv
<1>9. InFlight' = InFlight
  BY <1>6, <1>8, Places, PlacesNext
<1>10. CopiesInv'
  BY <1>6, <1>7, <1>8 DEF CopiesInv
<1>11. /\ log' = [log EXCEPT ![m] = log[m] + 1] \/ log' = log
       /\ timeouts' = [timeouts EXCEPT ![m] = IF r = "timeout" THEN @ + 1 ELSE @]
  BY <1>2, <1>5
<1>12. Queued' = Queued \ {m} /\ Range(queue') \subseteq Range(queue)
  BY <1>3, <1>6
<1>13. c \in Range(queue) /\ a \in Reply
  BY <1>3, <1>4
<1> USE <1>13
<1> WITNESS m \in Msgs, c \in Range(queue), a \in Reply
<1> QED
  BY <1>2, <1>4, <1>5, <1>6, <1>7, <1>8, <1>9, <1>10, <1>11, <1>12

\* close() answers every copy with an error.
LEMMA CloseEffect ==
    ASSUME TypeOK, TypeOK', CopiesInv, Close
    PROVE  /\ Range(queue') = {} /\ Queued' = {} /\ InFlight' = InFlight
           /\ Resending' = Resending
           /\ \A a \in Range(answers') :
                 \/ a \in Range(answers)
                 \/ /\ a[3] = "error"
                    /\ \E c \in Range(queue) : a[1] = c[1] /\ a[2] = c[2]
           /\ CopiesInv'
<1>1. queue \in Seq(Copy) /\ answers \in Seq(Reply)
  BY DEF TypeOK, Copy, Reply
<1>2. queue' = <<>> /\ answers' = answers \o Failures /\ io' = io
  BY DEF Close, Failures
<1>3. /\ Failures \in Seq(Reply) /\ Tags(Failures) = Tags(queue)
      /\ Once(queue) => Once(Failures)
      /\ \A a \in Range(Failures) :
            a[3] = "error" /\ \E c \in Range(queue) : a[1] = c[1] /\ a[2] = c[2]
  BY <1>1, Failing
<1>4. /\ Range(answers') = Range(answers) \cup Range(Failures)
      /\ Tags(answers') = Tags(answers) \cup Tags(Failures)
      /\ Once(answers) /\ Once(Failures) /\ Tags(answers) \cap Tags(Failures) = {}
            => Once(answers')
  BY <1>1, <1>2, <1>3, OnceConcat
<1>5. Range(queue') = {} /\ Queued' = {} /\ Once(queue') /\ Resending' = Resending
  BY <1>2, EmptyHolds, OnceEmpty DEF Queued, Resending
<1>6. Answered' = Answered \cup Queued
  BY <1>3, <1>4 DEF Answered, Queued
<1>7. Once(answers')
  BY <1>3, <1>4 DEF CopiesInv, Answered, Queued
<1>8. InFlight' = InFlight
  BY <1>5, <1>6, Places, PlacesNext
<1>9. CopiesInv'
  BY <1>5, <1>6, <1>7 DEF CopiesInv
<1> QED
  BY <1>3, <1>4, <1>5, <1>8, <1>9

\* produce() returns, or tries again when the queue was full.
LEMMA ReadEffect ==
    ASSUME TypeOK, CallInv, FlightInv, ResultInv, ReadResult \/ GiveUp
    PROVE  /\ UNCHANGED <<hasClient, result, closed, queue, answers, io, log, sends, timeouts>>
           /\ \E m \in Msgs :
                 /\ current = <<m>> /\ verdict[m] = "none"
                 /\ \/ /\ pc' = "ready" /\ current' = <<>> /\ tries' = tries
                       /\ \/ verdict' = [verdict EXCEPT ![m] = "true"]
                          \/ /\ verdict' = [verdict EXCEPT ![m] = "false"]
                             /\ timeouts[m] > 0 \/ m \notin InFlight
                    \/ /\ pc = "read" /\ pc' = "loop" /\ current' = <<m>>
                       /\ tries < QueueFullRetries /\ tries' = tries + 1
                       /\ verdict' = verdict /\ result[m] = "full" /\ m \notin InFlight
<1>0. UNCHANGED <<hasClient, result, closed, queue, answers, io, log, sends, timeouts>>
  BY DEF ReadResult, GiveUp
<1>1. pc \in {"loop", "read"} /\ current # <<>>
  BY DEF ReadResult, GiveUp, CallInv
<1>2. PICK m \in Msgs : current = <<m>> /\ current[1] = m
  BY <1>1, Current
<1>3. verdict[m] = "none"
  BY <1>2 DEF CallInv
<1>4. CASE GiveUp
  <2>1. m \notin InFlight
    BY <1>2, <1>3, <1>4 DEF GiveUp, FlightInv
  <2>2. /\ pc' = "ready" /\ current' = <<>> /\ tries' = tries
        /\ verdict' = [verdict EXCEPT ![m] = "false"]
    BY <1>2, <1>4 DEF GiveUp, Return
  <2> QED
    BY <1>0, <1>2, <1>3, <2>1, <2>2
<1>5. CASE ReadResult
  <2>0. pc = "read" /\ tries < QueueFullRetries /\ result[m] \in Results
    BY <1>5 DEF ReadResult, CallInv, TypeOK
  <2>1. CASE result[m] = "ok"
    <3>1. /\ pc' = "ready" /\ current' = <<>> /\ tries' = tries
          /\ verdict' = [verdict EXCEPT ![m] = "true"]
      BY <1>2, <1>5, <2>1 DEF ReadResult, Return
    <3> QED
      BY <1>0, <1>2, <1>3, <3>1
  <2>2. CASE result[m] = "full"
    <3>1. /\ pc' = "loop" /\ current' = <<m>> /\ tries' = tries + 1 /\ verdict' = verdict
      BY <1>2, <1>5, <2>2 DEF ReadResult
    <3>2. m \notin InFlight
      BY <1>2, <2>0, <2>2 DEF ResultInv
    <3> QED
      BY <1>0, <1>2, <1>3, <2>0, <2>2, <3>1, <3>2
  <2>3. CASE result[m] \in {"timeout", "error"}
    <3>1. /\ pc' = "ready" /\ current' = <<>> /\ tries' = tries
          /\ verdict' = [verdict EXCEPT ![m] = "false"]
      BY <1>2, <1>5, <2>3 DEF ReadResult, Return
    <3>2. timeouts[m] > 0 \/ m \notin InFlight
      BY <1>2, <2>0, <2>3 DEF ResultInv
    <3> QED
      BY <1>0, <1>2, <1>3, <3>1, <3>2
  <2> QED
    BY <2>0, <2>1, <2>2, <2>3 DEF Results
<1> QED
  BY <1>4, <1>5

\* The steps that leave the client, the callbacks and the counters alone.
Bystanding == UNCHANGED <<result, queue, answers, io, log, sends, timeouts>>

LEMMA Steps ==
    ASSUME [Next]_vars
    PROVE  \/ SendAsync \/ CallbackSend \/ Callback \/ Close \/ ReadResult \/ GiveUp
           \/ \E i \in DOMAIN queue, r \in {"ok", "timeout", "error"} : Answer(i, r)
           \/ \E m \in Msgs : Produce(m)
           \/ \E m \in Msgs : ProduceRefused(m)
           \/ (Initialise \/ Uninit \/ UNCHANGED vars) /\ Bystanding
BY DEF Next, Application, InsideCall, IoThread, Broker, Done, Initialise, Uninit, vars, Bystanding

-----------------------------------------------------------------------------
(* The invariant, step by step *)

LEMMA StepCall ==
    ASSUME TypeOK, CallInv, FlightInv, ResultInv, [Next]_vars
    PROVE  CallInv'
<1>1. CASE SendAsync
  BY <1>1 DEF SendAsync, CallInv
<1>2. CASE CallbackSend
  BY <1>2 DEF CallbackSend, CallInv
<1>3. CASE Callback
  BY <1>3 DEF Callback, CallInv
<1>4. CASE Close
  BY <1>4 DEF Close, CallInv
<1>5. CASE ReadResult \/ GiveUp
  <2>1. PICK m \in Msgs :
            /\ current = <<m>> /\ verdict[m] = "none"
            /\ \/ /\ pc' = "ready" /\ current' = <<>>
               \/ /\ pc = "read" /\ pc' = "loop" /\ current' = <<m>> /\ verdict' = verdict
    BY <1>5, ReadEffect
  <2>2. UNCHANGED <<hasClient, closed>>
    BY <1>5, ReadEffect
  <2>3. pc \in {"loop", "read"}
    BY <1>5 DEF ReadResult, GiveUp
  <2> QED
    BY <2>1, <2>2, <2>3 DEF CallInv
<1>6. ASSUME NEW i \in DOMAIN queue, NEW r \in {"ok", "timeout", "error"}, Answer(i, r)
      PROVE  CallInv'
  BY <1>6 DEF Answer, CallInv
<1>7. ASSUME NEW m \in Msgs, Produce(m)
      PROVE  CallInv'
  <2>1. \A k \in Msgs : <<m>> = <<k>> => m = k
    OBVIOUS
  <2> QED
    BY <1>7, <2>1 DEF Produce, CallInv
<1>8. ASSUME NEW m \in Msgs, ProduceRefused(m)
      PROVE  CallInv'
  BY <1>8 DEF ProduceRefused, CallInv, TypeOK
<1>9. CASE Initialise \/ Uninit \/ UNCHANGED vars
  BY <1>9 DEF Initialise, Uninit, vars, CallInv
<1> QED
  BY <1>1, <1>2, <1>3, <1>4, <1>5, <1>6, <1>7, <1>8, <1>9, Steps

\* Sending puts nothing under way but the message of the call, and nothing else
\* does.
LEMMA Flights ==
    ASSUME TypeOK, CallInv, CopiesInv, FlightInv, ResultInv, [Next]_vars
    PROVE  /\ CopiesInv'
           /\ \/ InFlight' \subseteq InFlight
              \/ /\ SendAsync
                 /\ \E m \in Msgs : current = <<m>> /\ InFlight' = InFlight \cup {m}
<1>0. TypeOK'
  BY StepType
<1>1. CASE SendAsync
  BY <1>0, <1>1, SendAsyncEffect
<1>2. CASE CallbackSend
  <2>1. CopiesInv' /\ \E m \in Msgs : InFlight' = InFlight \/ InFlight' = InFlight \ {m}
    BY <1>0, <1>2, CallbackSendEffect
  <2> QED
    BY <2>1
<1>3. CASE Callback
  <2>1. CopiesInv' /\ \E m \in Msgs : InFlight' = InFlight \/ InFlight' = InFlight \ {m}
    BY <1>0, <1>3, CallbackEffect
  <2> QED
    BY <2>1
<1>4. CASE Close
  BY <1>0, <1>4, CloseEffect
<1>5. CASE ReadResult \/ GiveUp
  <2>1. UNCHANGED <<queue, answers, io>>
    BY <1>5, ReadEffect
  <2> QED
    BY <2>1, StayEffect
<1>6. ASSUME NEW i \in DOMAIN queue, NEW r \in {"ok", "timeout", "error"}, Answer(i, r)
      PROVE  CopiesInv' /\ InFlight' = InFlight
  BY <1>0, <1>6, AnswerEffect
<1>7. ASSUME NEW m \in Msgs, Produce(m) \/ ProduceRefused(m)
      PROVE  CopiesInv' /\ InFlight' = InFlight
  <2>1. UNCHANGED <<queue, answers, io>>
    BY <1>7 DEF Produce, ProduceRefused
  <2> QED
    BY <2>1, StayEffect
<1>8. CASE Bystanding
  <2>1. UNCHANGED <<queue, answers, io>>
    BY <1>8 DEF Bystanding
  <2> QED
    BY <2>1, StayEffect
<1> QED
  BY <1>1, <1>2, <1>3, <1>4, <1>5, <1>6, <1>7, <1>8, Steps

LEMMA StepFlight ==
    ASSUME TypeOK, CallInv, CopiesInv, FlightInv, ResultInv, [Next]_vars
    PROVE  FlightInv'
<1>0. InFlight \subseteq Msgs
  BY Places
<1>1. CASE SendAsync
  <2>1. PICK m \in Msgs : current = <<m>> /\ InFlight' \subseteq InFlight \cup {m}
    BY <1>1, StepType, SendAsyncEffect
  <2>2. /\ pc' = "read" /\ current' = <<m>> /\ verdict' = verdict /\ hasClient' = hasClient
        /\ hasClient /\ pc = "loop"
    BY <1>1, <2>1 DEF SendAsync, CallInv
  <2> QED
    BY <2>1, <2>2 DEF FlightInv
<1> SUFFICES ASSUME InFlight' \subseteq InFlight, ~SendAsync PROVE FlightInv'
  BY <1>1, Flights
<1>2. CASE CallbackSend \/ Callback
           \/ \E i \in DOMAIN queue, r \in {"ok", "timeout", "error"} : Answer(i, r)
  <2>1. UNCHANGED <<pc, hasClient, closed, current, verdict>>
    BY <1>2 DEF CallbackSend, Callback, Answer
  <2> QED
    BY <2>1 DEF FlightInv
<1>3. CASE Close
  <2>1. closed' /\ pc = "flush" /\ UNCHANGED <<current, verdict>>
    BY <1>3 DEF Close
  <2> QED
    BY <2>1 DEF FlightInv
<1>4. CASE ReadResult \/ GiveUp
  <2>1. UNCHANGED <<hasClient, closed>>
    BY <1>4, ReadEffect
  <2>2. PICK m \in Msgs :
            /\ current = <<m>>
            /\ \/ verdict' = [verdict EXCEPT ![m] = "true"]
               \/ verdict' = [verdict EXCEPT ![m] = "false"]
               \/ current' = <<m>> /\ verdict' = verdict /\ m \notin InFlight
    BY <1>4, ReadEffect
  <2>3. \A k \in Msgs : <<m>> = <<k>> => m = k
    OBVIOUS
  <2>4. \A k \in InFlight : verdict'[k] # "none"
    BY <1>0, <2>2, <2>3 DEF FlightInv, TypeOK
  <2> QED
    BY <2>1, <2>4 DEF FlightInv
<1>5. ASSUME NEW m \in Msgs, Produce(m) \/ ProduceRefused(m)
      PROVE  FlightInv'
  <2>1. pc = "ready" /\ UNCHANGED <<hasClient, closed>>
    BY <1>5 DEF Produce, ProduceRefused
  <2>2. \A k \in Msgs : verdict[k] # "none" => verdict'[k] # "none"
    BY <1>5 DEF Produce, ProduceRefused, TypeOK
  <2> QED
    BY <1>0, <2>1, <2>2 DEF FlightInv
<1>6. CASE Initialise \/ Uninit \/ UNCHANGED vars
  <2>1. UNCHANGED <<current, verdict, closed>>
    BY <1>6 DEF Initialise, Uninit, vars
  <2>2. (pc = "read" => pc' = "read") /\ (hasClient => hasClient')
    BY <1>6 DEF Initialise, Uninit, vars, CallInv
  <2> QED
    BY <2>1, <2>2 DEF FlightInv
<1> QED
  BY <1>2, <1>3, <1>4, <1>5, <1>6, Steps

LEMMA StepResult ==
    ASSUME TypeOK, CallInv, CopiesInv, FlightInv, ResultInv, TimeoutInv, [Next]_vars
    PROVE  ResultInv'
<1>0. TypeOK'
  BY StepType
<1>1. CASE SendAsync
  <2>1. PICK m \in Msgs :
            /\ current = <<m>> /\ m \notin InFlight
            /\ \/ result' = [result EXCEPT ![m] = "ok"]
               \/ /\ \E r \in {"full", "error"} : result' = [result EXCEPT ![m] = r]
                  /\ InFlight' = InFlight
    BY <1>0, <1>1, SendAsyncEffect DEF Takes, Refuses
  <2>2. current' = <<m>> /\ \A k \in Msgs : <<m>> = <<k>> => m = k
    BY <1>1, <2>1 DEF SendAsync
  <2>3. result'[m] = "ok" \/ (result'[m] \in {"full", "error"} /\ m \notin InFlight')
    BY <2>1 DEF TypeOK
  <2> QED
    BY <2>2, <2>3 DEF ResultInv
<1>2. CASE CallbackSend
  <2>1. PICK m \in Msgs :
            /\ m \in InFlight
            /\ \/ result' = [result EXCEPT ![m] = result[m]] /\ InFlight' = InFlight
               \/ /\ \E r \in {"full", "error"} : result' = [result EXCEPT ![m] = r]
                  /\ InFlight' = InFlight \ {m}
    BY <1>0, <1>2, CallbackSendEffect DEF Takes, Refuses
  <2>2. UNCHANGED <<pc, current, timeouts>>
    BY <1>2 DEF CallbackSend
  <2>3. \A k \in Msgs : result'[k] = result[k]
                         \/ (k \notin InFlight' /\ result'[k] # "timeout")
    BY <2>1 DEF TypeOK
  <2>4. InFlight' \subseteq InFlight
    BY <2>1
  <2> QED
    BY <2>2, <2>3, <2>4 DEF ResultInv
<1>3. CASE Callback
  <2>1. PICK a \in Range(answers), m \in Msgs :
            /\ a[1] = m /\ result' = [result EXCEPT ![m] = a[3]]
            /\ a[3] \in {"ok", "timeout", "error"}
            /\ (InFlight' = InFlight /\ a[3] = "timeout") \/ InFlight' = InFlight \ {m}
    BY <1>0, <1>3, CallbackEffect
  <2>2. UNCHANGED <<pc, current, timeouts>>
    BY <1>3 DEF Callback
  <2>3. a[3] = "timeout" => timeouts[m] > 0
    BY <2>1 DEF TimeoutInv
  <2>4. /\ \A k \in Msgs : k # m => result'[k] = result[k]
        /\ result'[m] = a[3]
    BY <2>1 DEF TypeOK
  <2>5. InFlight' \subseteq InFlight /\ (a[3] = "error" => m \notin InFlight')
    BY <2>1
  <2> QED
    BY <2>1, <2>2, <2>3, <2>4, <2>5 DEF ResultInv
<1>4. ASSUME NEW i \in DOMAIN queue, NEW r \in {"ok", "timeout", "error"}, Answer(i, r)
      PROVE  ResultInv'
  <2>1. PICK m \in Msgs :
            /\ timeouts' = [timeouts EXCEPT ![m] = IF r = "timeout" THEN @ + 1 ELSE @]
            /\ InFlight' = InFlight
    BY <1>0, <1>4, AnswerEffect
  <2>2. UNCHANGED <<pc, current, result>>
    BY <1>4 DEF Answer
  <2>3. \A k \in Msgs : timeouts[k] > 0 => timeouts'[k] > 0
    BY <2>1 DEF TypeOK
  <2> QED
    BY <2>1, <2>2, <2>3 DEF ResultInv
<1>5. CASE ReadResult \/ GiveUp \/ Close \/ \E m \in Msgs : Produce(m)
  <2>1. pc' # "read"
    <3>1. CASE ReadResult \/ GiveUp
      BY <3>1, ReadEffect
    <3> QED
      BY <1>5, <3>1 DEF Close, Produce
  <2> QED
    BY <2>1 DEF ResultInv
<1>6. CASE Initialise \/ Uninit \/ UNCHANGED vars \/ \E m \in Msgs : ProduceRefused(m)
  <2>1. pc' = "read" => pc = "read"
    BY <1>6 DEF Initialise, Uninit, vars, ProduceRefused
  <2>2. UNCHANGED <<queue, answers, io, result, timeouts, current>>
    BY <1>6 DEF Initialise, Uninit, vars, ProduceRefused
  <2>3. InFlight' = InFlight
    BY <2>2, StayEffect
  <2> QED
    BY <2>1, <2>2, <2>3 DEF ResultInv
<1> QED
  BY <1>1, <1>2, <1>3, <1>4, <1>5, <1>6, Steps

LEMMA StepLog ==
    ASSUME TypeOK, CallInv, CopiesInv, FlightInv, ResultInv, LogInv, [Next]_vars
    PROVE  LogInv'
<1>0. TypeOK'
  BY StepType
<1>1. CASE SendAsync \/ CallbackSend
  <2>1. PICK m \in Msgs : \/ /\ sends' = [sends EXCEPT ![m] = sends[m] + 1]
                             /\ Queued' = Queued \cup {m}
                          \/ sends' = sends /\ Queued' = Queued
    BY <1>0, <1>1, SendAsyncEffect, CallbackSendEffect DEF Takes, Refuses
  <2>2. log' = log
    BY <1>1 DEF SendAsync, CallbackSend
  <2>3. \A k \in Msgs : log[k] \in Nat /\ sends[k] \in Nat
    BY DEF TypeOK
  <2>4. CASE sends' = [sends EXCEPT ![m] = sends[m] + 1] /\ Queued' = Queued \cup {m}
    <3>1. /\ sends'[m] = sends[m] + 1
          /\ \A k \in Msgs : k # m => sends'[k] = sends[k]
      BY <2>4 DEF TypeOK
    <3> QED
      BY <2>2, <2>3, <2>4, <3>1 DEF LogInv
  <2>5. CASE sends' = sends /\ Queued' = Queued
    BY <2>2, <2>5 DEF LogInv
  <2> QED
    BY <2>1, <2>4, <2>5
<1>2. ASSUME NEW i \in DOMAIN queue, NEW r \in {"ok", "timeout", "error"}, Answer(i, r)
      PROVE  LogInv'
  <2>1. PICK m \in Msgs :
            /\ m \in Queued /\ Queued' = Queued \ {m}
            /\ log' = [log EXCEPT ![m] = log[m] + 1] \/ log' = log
    BY <1>0, <1>2, AnswerEffect
  <2>2. sends' = sends
    BY <1>2 DEF Answer
  <2>3. log[m] \in Nat /\ sends[m] \in Nat /\ log[m] < sends[m]
    BY <2>1 DEF TypeOK, LogInv
  <2>4. /\ \A k \in Msgs : k # m => log'[k] = log[k]
        /\ log'[m] <= sends[m]
    <3>1. log \in [Msgs -> Nat]
      BY DEF TypeOK
    <3> QED
      BY <2>1, <2>3, <3>1
  <2> QED
    BY <2>1, <2>2, <2>4 DEF LogInv
<1>3. ASSUME log' = log, sends' = sends, Queued' \subseteq Queued
      PROVE  LogInv'
  BY <1>3 DEF LogInv
<1>4. CASE Callback \/ ReadResult \/ GiveUp \/ Bystanding
           \/ \E m \in Msgs : Produce(m) \/ ProduceRefused(m)
  <2>1. UNCHANGED <<queue, log, sends>>
    BY <1>4 DEF Callback, ReadResult, GiveUp, Bystanding, Produce, ProduceRefused
  <2> QED
    BY <1>3, <2>1 DEF Queued
<1>5. CASE Close
  <2>1. Queued' = {} /\ UNCHANGED <<log, sends>>
    BY <1>0, <1>5, CloseEffect DEF Close
  <2> QED
    BY <1>3, <2>1
<1> QED
  BY <1>1, <1>2, <1>4, <1>5, Steps

\* Where a round of the loop is over: a round that ends finds nothing under way.
LEMMA RoundsEnd ==
    ASSUME TypeOK, CallInv, CopiesInv, FlightInv, ResultInv, [Next]_vars
    PROVE  \A m \in Msgs : RoundOver(m)' =>
              \/ RoundOver(m)
              \/ /\ SendAsync \/ CallbackSend
                 /\ Refuses(m, "full")
                 /\ SendAsync => current = <<m>> /\ pc = "loop"
                 /\ CallbackSend => io # <<>> /\ io[1] = m
              \/ Produce(m)
<1>0. TypeOK'
  BY StepType
<1> SUFFICES ASSUME NEW k \in Msgs, RoundOver(k)', ~RoundOver(k)
             PROVE  \/ /\ SendAsync \/ CallbackSend
                       /\ Refuses(k, "full")
                       /\ SendAsync => current = <<k>> /\ pc = "loop"
                       /\ CallbackSend => io # <<>> /\ io[1] = k
                    \/ Produce(k)
  OBVIOUS
<1>1. CASE SendAsync
  <2>1. current = <<k>> /\ pc = "loop"
    BY <1>1 DEF SendAsync, RoundOver
  <2> QED
    BY <2>1 DEF RoundOver
<1>2. CASE CallbackSend
  <2>1. PICK m \in Msgs, n \in Retries :
            /\ io = <<m, n>> /\ m \in InFlight
            /\ Takes(m, n, result[m]) \/ Refuses(m, "full") \/ Refuses(m, "error")
    BY <1>0, <1>2, CallbackSendEffect
  <2>2. UNCHANGED <<pc, current>> /\ ~SendAsync /\ io # <<>> /\ io[1] = m
    BY <1>2, <2>1 DEF CallbackSend, SendAsync
  <2>3. CASE Takes(m, n, result[m])
    <3>1. result' = result
      BY <2>3 DEF Takes, TypeOK
    <3> QED
      BY <2>2, <3>1 DEF RoundOver
  <2>4. CASE Refuses(m, "error")
    <3>1. \A j \in Msgs : result'[j] = "full" => result[j] = "full"
      BY <2>4 DEF Refuses, TypeOK
    <3> QED
      BY <2>2, <3>1 DEF RoundOver
  <2>5. CASE Refuses(m, "full")
    <3>1. k = m
      <4>1. k # m => result'[k] = result[k]
        BY <2>5 DEF Refuses, TypeOK
      <4> QED
        BY <2>2, <4>1 DEF RoundOver
    <3> QED
      BY <1>2, <2>2, <2>5, <3>1
  <2> QED
    BY <2>1, <2>3, <2>4, <2>5
<1>3. CASE Callback
  <2>1. PICK a \in Range(answers), m \in Msgs :
            /\ result' = [result EXCEPT ![m] = a[3]]
            /\ a[3] \in {"ok", "timeout", "error"}
    BY <1>0, <1>3, CallbackEffect
  <2>2. \A j \in Msgs : result'[j] = "full" => result[j] = "full"
    BY <2>1 DEF TypeOK
  <2>3. UNCHANGED <<pc, current>>
    BY <1>3 DEF Callback
  <2> QED
    BY <2>2, <2>3 DEF RoundOver
<1>4. CASE ReadResult \/ GiveUp
  <2>1. PICK m \in Msgs :
            /\ current = <<m>>
            /\ \/ current' = <<>>
               \/ pc = "read" /\ current' = <<m>> /\ result[m] = "full"
    BY <1>4, ReadEffect
  <2>2. current' # <<>>
    BY DEF RoundOver
  <2>3. current = <<k>> /\ k = m
    BY <2>1, <2>2 DEF RoundOver
  <2> QED
    BY <2>1, <2>2, <2>3 DEF RoundOver
<1>5. CASE Close \/ \E i \in DOMAIN queue, r \in {"ok", "timeout", "error"} : Answer(i, r)
  BY <1>5 DEF Close, Answer, RoundOver
<1>6. ASSUME NEW m \in Msgs, Produce(m)
      PROVE  Produce(k)
  <2>1. k = m
    BY <1>6 DEF Produce, RoundOver
  <2> QED
    BY <1>6, <2>1
<1>7. CASE Initialise \/ Uninit \/ UNCHANGED vars \/ \E m \in Msgs : ProduceRefused(m)
  BY <1>7 DEF Initialise, Uninit, vars, ProduceRefused, RoundOver
<1> QED
  BY <1>1, <1>2, <1>3, <1>4, <1>5, <1>6, <1>7, Steps

LEMMA StepTimeout ==
    ASSUME TypeOK, CallInv, CopiesInv, FlightInv, ResultInv, TimeoutInv, [Next]_vars
    PROVE  TimeoutInv'
<1>0. TypeOK'
  BY StepType
<1>n. \A m \in Msgs : sends[m] \in Nat /\ timeouts[m] \in Nat
  BY DEF TypeOK
<1>1. CASE SendAsync
  <2>1. PICK m \in Msgs :
            /\ current = <<m>> /\ m \notin InFlight
            /\ Takes(m, 0, "ok") \/ Refuses(m, "full") \/ Refuses(m, "error")
            /\ Resending' = Resending
    BY <1>0, <1>1, SendAsyncEffect
  <2>2. /\ UNCHANGED <<current, answers, timeouts, verdict>>
        /\ pc = "loop" /\ pc' = "read"
    BY <1>1 DEF SendAsync
  <2>3. RoundOver(m) /\ m \notin Resending /\ \A a \in Range(answers) : a[1] # m
    BY <2>1, <2>2, Places DEF RoundOver
  <2>4. \A k \in Msgs : k # m => ~RoundOver(k)'
    BY <2>1, <2>2 DEF RoundOver
  <2>5. CASE Takes(m, 0, "ok")
    <3>1. /\ sends'[m] = sends[m] + 1 /\ result'[m] = "ok"
          /\ \A k \in Msgs : k # m => sends'[k] = sends[k]
      BY <2>5 DEF Takes, TypeOK
    <3>2. sends'[m] <= timeouts[m] + 1
      BY <1>n, <2>3, <3>1 DEF TimeoutInv
    <3>3. ~RoundOver(m)'
      BY <2>2, <3>1 DEF RoundOver
    <3>4. \A a \in Range(answers) : a[1] \in Msgs
      BY Places DEF Reply
    <3> QED
      BY <2>1, <2>2, <2>3, <2>4, <3>1, <3>2, <3>3, <3>4 DEF TimeoutInv
  <2>6. CASE Refuses(m, "full") \/ Refuses(m, "error")
    <3>1. sends' = sends
      BY <2>6 DEF Refuses
    <3> QED
      BY <2>1, <2>2, <2>3, <2>4, <3>1 DEF TimeoutInv
  <2> QED
    BY <2>1, <2>5, <2>6
<1>2. CASE CallbackSend
  <2>1. PICK m \in Msgs, n \in Retries :
            /\ io = <<m, n>> /\ m \in InFlight /\ m \notin Answered
            /\ Resending = {m} /\ Resending' = {}
            /\ Takes(m, n, result[m]) \/ Refuses(m, "full") \/ Refuses(m, "error")
    BY <1>0, <1>2, CallbackSendEffect
  <2>2. UNCHANGED <<pc, current, answers, timeouts, verdict>>
    BY <1>2 DEF CallbackSend
  <2>3. sends[m] <= timeouts[m] /\ \A a \in Range(answers) : a[1] \in Msgs /\ a[1] # m
    BY <2>1, Places DEF TimeoutInv, Reply
  <2>4. \A k \in Msgs : RoundOver(k)' => k = m \/ RoundOver(k)
    <3>1. io[1] = m /\ ~ \E k \in Msgs : Produce(k)
      BY <1>2, <2>1 DEF CallbackSend, Produce
    <3> QED
      BY <1>2, <3>1, RoundsEnd
  <2>5. CASE Takes(m, n, result[m])
    <3>1. /\ sends'[m] = sends[m] + 1 /\ result' = result
          /\ \A k \in Msgs : k # m => sends'[k] = sends[k]
      BY <2>5 DEF Takes, TypeOK
    <3>2. sends'[m] <= timeouts[m] + 1
      BY <1>n, <2>3, <3>1
    <3>3. ~RoundOver(m)'
      BY <2>1, <2>2, <3>1 DEF RoundOver, FlightInv, ResultInv, CallInv
    <3>4. ~(verdict[m] = "none" /\ current # <<m>>)
      BY <2>1 DEF FlightInv
    <3> QED
      BY <2>1, <2>2, <2>3, <2>4, <3>1, <3>2, <3>3, <3>4 DEF TimeoutInv
  <2>6. CASE Refuses(m, "full") \/ Refuses(m, "error")
    <3>1. sends' = sends
      BY <2>6 DEF Refuses
    <3> QED
      BY <2>1, <2>2, <2>3, <2>4, <3>1 DEF TimeoutInv
  <2> QED
    BY <2>1, <2>5, <2>6
<1> SUFFICES ASSUME \A m \in Msgs : RoundOver(m)' => RoundOver(m) \/ Produce(m),
                    sends' = sends
             PROVE  TimeoutInv'
  <2>1. SendAsync \/ CallbackSend \/ sends' = sends
    BY Steps, ReadEffect
    DEF Callback, Close, Answer, Produce, ProduceRefused, Bystanding
  <2> QED
    BY <1>1, <1>2, <2>1, RoundsEnd
<1>3. CASE Callback
  <2>1. PICK a \in Range(answers), m \in Msgs :
            /\ a[1] = m
            /\ \/ a[3] = "timeout" /\ Resending' = {m}
               \/ Resending' = {}
            /\ Range(answers') \subseteq Range(answers)
    BY <1>0, <1>3, CallbackEffect
  <2>2. UNCHANGED <<current, timeouts, verdict>> /\ ~ \E k \in Msgs : Produce(k)
    BY <1>3 DEF Callback, Produce
  <2>3. \A k \in Resending' : timeouts[k] > 0 /\ sends[k] <= timeouts[k]
    BY <2>1 DEF TimeoutInv
  <2> QED
    BY <2>1, <2>2, <2>3 DEF TimeoutInv
<1>4. ASSUME NEW i \in DOMAIN queue, NEW r \in {"ok", "timeout", "error"}, Answer(i, r)
      PROVE  TimeoutInv'
  <2>1. PICK m \in Msgs, a \in Reply :
            /\ a[1] = m /\ a[3] = r /\ Resending' = Resending
            /\ Range(answers') = Range(answers) \cup {a}
            /\ timeouts' = [timeouts EXCEPT ![m] = IF r = "timeout" THEN @ + 1 ELSE @]
    BY <1>0, <1>4, AnswerEffect
  <2>2. UNCHANGED <<current, verdict>> /\ ~ \E k \in Msgs : Produce(k)
    BY <1>4 DEF Answer, Produce
  <2>3. /\ \A k \in Msgs : timeouts'[k] \in Nat /\ timeouts[k] <= timeouts'[k]
        /\ r = "timeout" => timeouts'[m] = timeouts[m] + 1
    <3>1. CASE r = "timeout"
      <4>1. timeouts' = [timeouts EXCEPT ![m] = timeouts[m] + 1]
        BY <2>1, <3>1
      <4>2. timeouts \in [Msgs -> Nat]
        BY DEF TypeOK
      <4> QED
        BY <3>1, <4>1, <4>2
    <3>2. CASE r # "timeout"
      <4>1. timeouts' = timeouts
        BY <2>1, <3>2 DEF TypeOK
      <4> QED
        BY <1>n, <3>2, <4>1
    <3> QED
      BY <3>1, <3>2
  <2>4. r = "timeout" => timeouts'[m] > 0 /\ sends[m] <= timeouts'[m]
    BY <1>n, <2>1, <2>3 DEF TimeoutInv
  <2>5. \A b \in Range(answers) : b[1] \in Msgs
    BY Places DEF Reply
  <2>6. \A k \in Msgs :
          /\ sends[k] <= timeouts'[k] + 1
          /\ timeouts[k] > 0 => timeouts'[k] > 0
          /\ sends[k] <= timeouts[k] => sends[k] <= timeouts'[k]
    BY <1>n, <2>3 DEF TimeoutInv
  <2>7. \A b \in Range(answers') :
           b[3] = "timeout" => timeouts'[b[1]] > 0 /\ sends[b[1]] <= timeouts'[b[1]]
    BY <2>1, <2>4, <2>5, <2>6 DEF TimeoutInv
  <2> QED
    BY <2>1, <2>2, <2>6, <2>7 DEF TimeoutInv
<1>5. CASE Close
  <2>1. /\ Resending' = Resending
        /\ \A a \in Range(answers') : a \in Range(answers) \/ a[3] = "error"
    BY <1>0, <1>5, CloseEffect
  <2>2. UNCHANGED <<current, timeouts, verdict>> /\ ~ \E k \in Msgs : Produce(k)
    BY <1>5 DEF Close, Produce
  <2> QED
    BY <2>1, <2>2 DEF TimeoutInv
<1>6. CASE ReadResult \/ GiveUp
  <2>1. UNCHANGED <<answers, timeouts, io>> /\ ~ \E k \in Msgs : Produce(k)
    BY <1>6, ReadEffect DEF ReadResult, GiveUp, Produce
  <2>2. PICK m \in Msgs :
            /\ current = <<m>>
            /\ \/ verdict' = [verdict EXCEPT ![m] = "true"]
               \/ verdict' = [verdict EXCEPT ![m] = "false"]
               \/ current' = <<m>> /\ verdict' = verdict
    BY <1>6, ReadEffect
  <2>3. \A k \in Msgs : verdict'[k] = "none" /\ current' # <<k>> => sends[k] = 0
    <3>1. \A k \in Msgs : k # m => <<m>> # <<k>>
      OBVIOUS
    <3> QED
      BY <2>2, <3>1 DEF TimeoutInv, TypeOK
  <2> QED
    BY <2>1, <2>3 DEF TimeoutInv, Resending
<1>7. ASSUME NEW m \in Msgs, Produce(m)
      PROVE  TimeoutInv'
  <2>1. /\ UNCHANGED <<answers, timeouts, io, verdict>> /\ current = <<>>
        /\ current' = <<m>> /\ verdict[m] = "none"
    BY <1>7 DEF Produce, CallInv
  <2>2. sends[m] = 0
    BY <2>1 DEF TimeoutInv
  <2>3. \A k \in Msgs : RoundOver(k)' => k = m
    BY <2>1 DEF RoundOver
  <2> QED
    BY <1>n, <2>1, <2>2, <2>3 DEF TimeoutInv, Resending
<1>8. CASE Initialise \/ Uninit \/ UNCHANGED vars \/ \E m \in Msgs : ProduceRefused(m)
  <2>1. UNCHANGED <<answers, timeouts, io, current>> /\ ~ \E k \in Msgs : Produce(k)
    BY <1>8 DEF Initialise, Uninit, vars, ProduceRefused, Produce
  <2>2. \A k \in Msgs : verdict'[k] = "none" => verdict[k] = "none"
    BY <1>8 DEF Initialise, Uninit, vars, ProduceRefused, TypeOK
  <2> QED
    BY <2>1, <2>2 DEF TimeoutInv, Resending
<1> QED
  BY <1>1, <1>2, <1>3, <1>4, <1>5, <1>6, <1>7, <1>8, Steps

\* A round of the loop leaves room for one more round, or for the last send.
LEMMA Rounds ==
    ASSUME TypeOK
    PROVE  /\ Before \in Nat /\ TimeoutRetries \in Nat /\ MaxTaken \in Nat
           /\ tries < QueueFullRetries => Before + TimeoutRetries + 1 <= MaxTaken
           /\ tries' = tries + 1 => Before' = Before + TimeoutRetries
           /\ tries' = tries => Before' = Before
<1> DEFINE t == tries
<1> DEFINE c == TimeoutRetries
<1> DEFINE q == QueueFullRetries
<1>1. t \in Nat /\ c \in Nat /\ q \in Nat
  BY Numbers DEF TypeOK
<1> HIDE DEF t, c, q
<1>2. t * c \in Nat /\ c * q + 1 \in Nat
  BY <1>1
<1>3. (t + 1) * c = t * c + c
  BY <1>1
<1>4. t < q => t * c + c + 1 <= c * q + 1
  <2> SUFFICES ASSUME t < q PROVE t * c + c + 1 <= c * q + 1
    OBVIOUS
  <2> DEFINE k == q - (t + 1)
  <2>1. k \in Nat /\ q = (t + 1) + k
    BY <1>1
  <2> HIDE DEF k
  <2>2. c * q = c * (t + 1) + c * k /\ c * k >= 0
    BY <1>1, <2>1
  <2>3. c * (t + 1) = t * c + c
    BY <1>1
  <2>4. c * k \in Nat /\ c * q \in Nat /\ c * (t + 1) \in Nat
    BY <1>1, <2>1
  <2> QED
    BY <1>1, <1>2, <2>2, <2>3, <2>4
<1>5. tries' = tries + 1 => Before' = (t + 1) * c
  BY DEF Before, t, c
<1> QED
  BY <1>1, <1>2, <1>3, <1>4, <1>5 DEF Before, MaxTaken, t, c, q

LEMMA StepBudget ==
    ASSUME TypeOK, CallInv, CopiesInv, FlightInv, ResultInv, TimeoutInv, BudgetInv, [Next]_vars
    PROVE  BudgetInv'
<1>0. TypeOK'
  BY StepType
<1>n. /\ \A m \in Msgs : sends[m] \in Nat
      /\ Before \in Nat /\ TimeoutRetries \in Nat /\ MaxTaken \in Nat
      /\ \A n \in Retries : n \in Nat /\ n <= TimeoutRetries
      /\ tries' = tries => Before' = Before
  BY Rounds, Numbers DEF TypeOK
<1>c. /\ \A c \in Range(queue) : c[1] \in Queued /\ c[1] \in Msgs /\ c[2] \in Retries
      /\ \A a \in Range(answers) : a[1] \in Answered /\ a[1] \in Msgs /\ a[2] \in Retries
      /\ io # <<>> => io[1] \in Resending /\ io[1] \in Msgs /\ io[2] \in Retries
  BY Places DEF Copy, Reply, Resending
<1>1. CASE SendAsync
  <2>1. PICK m \in Msgs :
            /\ current = <<m>> /\ m \notin InFlight
            /\ Takes(m, 0, "ok") \/ Refuses(m, "full") \/ Refuses(m, "error")
            /\ Resending' = Resending
    BY <1>0, <1>1, SendAsyncEffect
  <2>2. /\ UNCHANGED <<current, answers, tries, io>>
        /\ pc = "loop" /\ pc' = "read" /\ tries < QueueFullRetries
    BY <1>1 DEF SendAsync
  <2>3. /\ \A x \in Range(queue) \cup Range(answers) : x[1] # m
        /\ io # <<>> => io[1] # m
        /\ sends[m] <= Before /\ Before + TimeoutRetries + 1 <= MaxTaken
    BY <1>c, <2>1, <2>2, Places, Rounds DEF BudgetInv
  <2>4. \A k \in Msgs : k # m => ~RoundOver(k)'
    BY <2>1, <2>2 DEF RoundOver
  <2>5. CASE Takes(m, 0, "ok")
    <3>1. /\ sends'[m] = sends[m] + 1 /\ result'[m] = "ok"
          /\ \A k \in Msgs : k # m => sends'[k] = sends[k]
      BY <2>5 DEF Takes, TypeOK
    <3>2. /\ sends'[m] <= Before + 0 + 1 /\ sends'[m] + TimeoutRetries <= MaxTaken + 0
          /\ sends'[m] <= MaxTaken
      BY <1>n, <2>3, <3>1
    <3>3. ~RoundOver(m)'
      BY <2>2, <3>1 DEF RoundOver
    <3>4. Range(queue') = Range(queue) \cup {<<m, 0>>}
      BY <2>5 DEF Takes
    <3>5. \A x \in Range(queue') \cup Range(answers') :
            /\ sends'[x[1]] + TimeoutRetries <= MaxTaken + x[2]
            /\ current' = <<x[1]>> => sends'[x[1]] <= Before + x[2] + 1
      <4> SUFFICES ASSUME NEW x \in Range(queue') \cup Range(answers')
                   PROVE  /\ sends'[x[1]] + TimeoutRetries <= MaxTaken + x[2]
                          /\ current' = <<x[1]>> => sends'[x[1]] <= Before + x[2] + 1
        OBVIOUS
      <4>1. CASE x = <<m, 0>>
        BY <3>2, <4>1
      <4>2. CASE x \in Range(queue) \cup Range(answers)
        <5>1. sends'[x[1]] = sends[x[1]]
          BY <1>c, <2>3, <3>1, <4>2
        <5> QED
          BY <2>2, <4>2, <5>1 DEF BudgetInv
      <4> QED
        BY <2>2, <3>4, <4>1, <4>2
    <3>6. io' # <<>> => /\ sends'[io'[1]] + TimeoutRetries < MaxTaken + io'[2]
                        /\ current' = <<io'[1]>> => sends'[io'[1]] <= Before + io'[2]
      BY <1>c, <2>2, <2>3, <3>1 DEF BudgetInv
    <3>7. \A k \in Msgs : sends'[k] <= MaxTaken
      BY <3>1, <3>2 DEF BudgetInv
    <3> QED
      BY <1>n, <2>2, <2>4, <3>3, <3>5, <3>6, <3>7 DEF BudgetInv
  <2>6. CASE Refuses(m, "full") \/ Refuses(m, "error")
    <3>1. sends' = sends /\ Range(queue') = Range(queue)
      BY <2>6 DEF Refuses
    <3>2. sends[m] <= Before + TimeoutRetries
      BY <1>n, <2>3
    <3> QED
      BY <1>n, <2>2, <2>4, <3>1, <3>2 DEF BudgetInv
  <2> QED
    BY <2>1, <2>5, <2>6
<1>2. CASE CallbackSend
  <2>1. PICK m \in Msgs, n \in Retries :
            /\ io = <<m, n>> /\ m \in InFlight /\ m \notin Queued /\ m \notin Answered
            /\ io' = <<>>
            /\ Takes(m, n, result[m]) \/ Refuses(m, "full") \/ Refuses(m, "error")
    BY <1>0, <1>2, CallbackSendEffect
  <2>2. UNCHANGED <<pc, current, answers, tries>>
    BY <1>2 DEF CallbackSend
  <2>3. /\ \A x \in Range(queue) \cup Range(answers) : x[1] # m
        /\ sends[m] + TimeoutRetries < MaxTaken + n
        /\ current = <<m>> => sends[m] <= Before + n
        /\ ~(current = <<m>> /\ pc = "loop")
    <3>1. io # <<>> /\ io[1] = m /\ io[2] = n
      BY <2>1
    <3>2. ~(current = <<m>> /\ pc = "loop")
      BY <2>1 DEF FlightInv, CallInv
    <3> QED
      BY <1>c, <2>1, <3>1, <3>2 DEF BudgetInv
  <2>4. \A k \in Msgs : RoundOver(k)' => k = m \/ RoundOver(k)
    <3>1. io[1] = m /\ ~ \E k \in Msgs : Produce(k)
      BY <1>2, <2>1 DEF CallbackSend, Produce
    <3> QED
      BY <1>2, <3>1, RoundsEnd
  <2>5. CASE Takes(m, n, result[m])
    <3>1. /\ sends'[m] = sends[m] + 1 /\ result' = result
          /\ \A k \in Msgs : k # m => sends'[k] = sends[k]
      BY <2>5 DEF Takes, TypeOK
    <3>2. /\ sends'[m] + TimeoutRetries <= MaxTaken + n
          /\ current = <<m>> => sends'[m] <= Before + n + 1
          /\ sends'[m] <= MaxTaken
      BY <1>n, <2>3, <3>1
    <3>3. ~RoundOver(m)'
      BY <2>1, <2>2, <3>1 DEF RoundOver, FlightInv, ResultInv, CallInv
    <3>4. Range(queue') = Range(queue) \cup {<<m, n>>}
      BY <2>5 DEF Takes
    <3>5. \A x \in Range(queue') \cup Range(answers') :
            /\ sends'[x[1]] + TimeoutRetries <= MaxTaken + x[2]
            /\ current' = <<x[1]>> => sends'[x[1]] <= Before + x[2] + 1
      <4> SUFFICES ASSUME NEW x \in Range(queue') \cup Range(answers')
                   PROVE  /\ sends'[x[1]] + TimeoutRetries <= MaxTaken + x[2]
                          /\ current' = <<x[1]>> => sends'[x[1]] <= Before + x[2] + 1
        OBVIOUS
      <4>1. CASE x = <<m, n>>
        BY <2>2, <3>2, <4>1
      <4>2. CASE x \in Range(queue) \cup Range(answers)
        <5>1. sends'[x[1]] = sends[x[1]]
          BY <1>c, <2>3, <3>1, <4>2
        <5> QED
          BY <2>2, <4>2, <5>1 DEF BudgetInv
      <4> QED
        BY <2>2, <3>4, <4>1, <4>2
    <3>7. \A k \in Msgs : sends'[k] <= MaxTaken
      BY <3>1, <3>2 DEF BudgetInv
    <3>8. \A k \in Msgs : RoundOver(k)' \/ (current' = <<k>> /\ pc' = "loop")
             => k # m /\ sends'[k] = sends[k]
                /\ (RoundOver(k)' => RoundOver(k))
      BY <2>2, <2>3, <2>4, <3>1, <3>3
    <3> QED
      BY <1>n, <2>1, <2>2, <3>5, <3>7, <3>8 DEF BudgetInv
  <2>6. CASE Refuses(m, "full") \/ Refuses(m, "error")
    <3>1. sends' = sends /\ Range(queue') = Range(queue)
      BY <2>6 DEF Refuses
    <3>2. current = <<m>> => sends[m] <= Before + TimeoutRetries
      BY <1>n, <2>3
    <3>3. \A k \in Msgs : RoundOver(k)' => sends[k] <= Before + TimeoutRetries
      BY <2>2, <2>4, <3>2 DEF BudgetInv, RoundOver
    <3> QED
      BY <1>n, <2>1, <2>2, <3>1, <3>3 DEF BudgetInv
  <2> QED
    BY <2>1, <2>5, <2>6
<1> SUFFICES ASSUME \A m \in Msgs : RoundOver(m)' => RoundOver(m) \/ Produce(m),
                    sends' = sends
             PROVE  BudgetInv'
  <2>1. SendAsync \/ CallbackSend \/ sends' = sends
    BY Steps, ReadEffect
    DEF Callback, Close, Answer, Produce, ProduceRefused, Bystanding
  <2> QED
    BY <1>1, <1>2, <2>1, RoundsEnd
<1>3. CASE Callback
  <2>1. PICK a \in Range(answers), m \in Msgs, n \in Retries :
            /\ a[1] = m /\ a[2] = n
            /\ io' = <<>> \/ (io'[1] = m /\ io'[2] = n + 1)
            /\ Range(answers') \subseteq Range(answers)
    BY <1>0, <1>3, CallbackEffect
  <2>2. UNCHANGED <<pc, current, tries, queue>> /\ ~ \E k \in Msgs : Produce(k)
    BY <1>3 DEF Callback, Produce
  <2>3. /\ sends[m] + TimeoutRetries < MaxTaken + (n + 1)
        /\ current = <<m>> => sends[m] <= Before + (n + 1)
    BY <1>n, <2>1 DEF BudgetInv
  <2> QED
    BY <1>n, <2>1, <2>2, <2>3 DEF BudgetInv
<1>4. ASSUME NEW i \in DOMAIN queue, NEW r \in {"ok", "timeout", "error"}, Answer(i, r)
      PROVE  BudgetInv'
  <2>1. PICK m \in Msgs, c \in Range(queue), a \in Reply :
            /\ a[1] = m /\ c[1] = m /\ a[2] = c[2] /\ io' = io
            /\ Range(queue') \subseteq Range(queue)
            /\ Range(answers') = Range(answers) \cup {a}
    BY <1>0, <1>4, AnswerEffect
  <2>2. UNCHANGED <<pc, current, tries>> /\ ~ \E k \in Msgs : Produce(k)
    BY <1>4 DEF Answer, Produce
  <2>3. \A x \in Range(queue') \cup Range(answers') :
            /\ sends[x[1]] + TimeoutRetries <= MaxTaken + x[2]
            /\ current = <<x[1]>> => sends[x[1]] <= Before + x[2] + 1
    BY <2>1 DEF BudgetInv
  <2> QED
    BY <1>n, <2>1, <2>2, <2>3 DEF BudgetInv
<1>5. CASE Close
  <2>1. /\ Range(queue') = {}
        /\ \A a \in Range(answers') :
              \/ a \in Range(answers)
              \/ \E c \in Range(queue) : a[1] = c[1] /\ a[2] = c[2]
    BY <1>0, <1>5, CloseEffect
  <2>2. UNCHANGED <<current, tries, io>> /\ pc' = "done" /\ ~ \E k \in Msgs : Produce(k)
    BY <1>5 DEF Close, Produce
  <2>3. \A x \in Range(queue') \cup Range(answers') :
            /\ sends[x[1]] + TimeoutRetries <= MaxTaken + x[2]
            /\ current = <<x[1]>> => sends[x[1]] <= Before + x[2] + 1
    BY <2>1 DEF BudgetInv
  <2> QED
    BY <1>n, <2>2, <2>3 DEF BudgetInv
<1>6. CASE ReadResult \/ GiveUp
  <2>1. UNCHANGED <<queue, answers, io>> /\ ~ \E k \in Msgs : Produce(k)
    BY <1>6, ReadEffect DEF ReadResult, GiveUp, Produce
  <2>2. PICK m \in Msgs :
            /\ current = <<m>>
            /\ \/ current' = <<>> /\ tries' = tries
               \/ /\ pc = "read" /\ pc' = "loop" /\ current' = <<m>>
                  /\ tries' = tries + 1 /\ result[m] = "full" /\ m \notin InFlight
    BY <1>6, ReadEffect
  <2>3. CASE current' = <<>> /\ tries' = tries
    <3>1. \A x : current' # <<x>>
      BY <2>3
    <3>2. \A k \in Msgs : ~RoundOver(k)'
      BY <3>1 DEF RoundOver
    <3> QED
      BY <2>1, <3>1, <3>2 DEF BudgetInv
  <2>4. CASE /\ pc = "read" /\ pc' = "loop" /\ current' = <<m>>
             /\ tries' = tries + 1 /\ result[m] = "full" /\ m \notin InFlight
    <3>1. /\ Before' = Before + TimeoutRetries
          /\ sends[m] <= Before'
          /\ sends[m] <= Before' + TimeoutRetries
      <4>1. Before' = Before + TimeoutRetries
        BY <2>4, Rounds
      <4>2. sends[m] <= Before + TimeoutRetries
        BY <2>2, <2>4 DEF BudgetInv, RoundOver
      <4>3. sends[m] <= Before + TimeoutRetries + TimeoutRetries
        BY <1>n, <4>2
      <4> QED
        BY <4>1, <4>2, <4>3
    <3>2. /\ \A x \in Range(queue) \cup Range(answers) : x[1] # m
          /\ io # <<>> => io[1] # m
      BY <1>c, <2>4, Places
    <3>3. \A x : current' = <<x>> => x = m
      BY <2>4
    <3>4. \A k \in Msgs : RoundOver(k)' => k = m
      BY <3>3 DEF RoundOver
    <3> QED
      BY <2>1, <3>1, <3>2, <3>3, <3>4 DEF BudgetInv
  <2> QED
    BY <2>2, <2>3, <2>4
<1>7. ASSUME NEW m \in Msgs, Produce(m)
      PROVE  BudgetInv'
  <2>1. /\ UNCHANGED <<answers, queue, io>> /\ current = <<>> /\ tries' = 0
        /\ current' = <<m>> /\ verdict[m] = "none"
    BY <1>7 DEF Produce, CallInv
  <2>2. sends[m] = 0 /\ m \notin InFlight
    BY <2>1 DEF TimeoutInv, FlightInv
  <2>3. Before' \in Nat
    BY <1>0, <2>1, <1>n DEF Before
  <2>4. sends[m] <= Before' /\ sends[m] <= Before' + TimeoutRetries
    <3> DEFINE b == Before'
    <3>1. b \in Nat /\ TimeoutRetries \in Nat
      BY <1>n, <2>3
    <3> HIDE DEF b
    <3>2. 0 <= b /\ 0 <= b + TimeoutRetries
      BY <3>1
    <3> QED
      BY <2>2, <3>2 DEF b
  <2>5. /\ \A x \in Range(queue) \cup Range(answers) : x[1] # m
        /\ io # <<>> => io[1] # m
    BY <1>c, <2>2, Places
  <2>6. \A x : current' = <<x>> => x = m
    BY <2>1
  <2>7. \A k \in Msgs : RoundOver(k)' => k = m
    BY <2>6 DEF RoundOver
  <2> QED
    BY <2>1, <2>4, <2>5, <2>6, <2>7 DEF BudgetInv
<1>8. CASE Initialise \/ Uninit \/ UNCHANGED vars \/ \E m \in Msgs : ProduceRefused(m)
  <2>1. UNCHANGED <<queue, answers, io, current, tries>> /\ ~ \E k \in Msgs : Produce(k)
    BY <1>8 DEF Initialise, Uninit, vars, ProduceRefused, Produce
  <2>2. pc' = "loop" => pc = "loop"
    BY <1>8 DEF Initialise, Uninit, vars, ProduceRefused
  <2> QED
    BY <1>n, <2>1, <2>2 DEF BudgetInv
<1> QED
  BY <1>1, <1>2, <1>3, <1>4, <1>5, <1>6, <1>7, <1>8, Steps

LEMMA StepRefused ==
    ASSUME TypeOK, CallInv, CopiesInv, FlightInv, ResultInv, RefusedIsNotSent, [Next]_vars
    PROVE  RefusedIsNotSent'
<1>0. TypeOK'
  BY StepType
<1>1. CASE SendAsync
  <2>1. PICK m \in Msgs : verdict[m] = "none" /\ InFlight' \subseteq InFlight \cup {m}
    BY <1>0, <1>1, SendAsyncEffect
  <2>2. UNCHANGED <<verdict, timeouts>>
    BY <1>1 DEF SendAsync
  <2> QED
    BY <2>1, <2>2 DEF RefusedIsNotSent
<1> SUFFICES ASSUME InFlight' \subseteq InFlight PROVE RefusedIsNotSent'
  BY <1>1, Flights
<1>2. CASE CallbackSend \/ Callback \/ Close \/ \E m \in Msgs : Produce(m)
  <2>1. UNCHANGED <<verdict, timeouts>>
    BY <1>2 DEF CallbackSend, Callback, Close, Produce
  <2> QED
    BY <2>1 DEF RefusedIsNotSent
<1>3. CASE ReadResult \/ GiveUp
  <2>1. timeouts' = timeouts
    BY <1>3, ReadEffect
  <2>2. PICK m \in Msgs :
            \/ verdict' = [verdict EXCEPT ![m] = "true"]
            \/ /\ verdict' = [verdict EXCEPT ![m] = "false"]
               /\ timeouts[m] > 0 \/ m \notin InFlight
            \/ verdict' = verdict
    BY <1>3, ReadEffect
  <2> QED
    BY <2>1, <2>2 DEF RefusedIsNotSent, TypeOK
<1>4. ASSUME NEW i \in DOMAIN queue, NEW r \in {"ok", "timeout", "error"}, Answer(i, r)
      PROVE  RefusedIsNotSent'
  <2>1. PICK m \in Msgs :
            timeouts' = [timeouts EXCEPT ![m] = IF r = "timeout" THEN @ + 1 ELSE @]
    BY <1>0, <1>4, AnswerEffect
  <2>2. \A k \in Msgs : timeouts'[k] = 0 => timeouts[k] = 0
    BY <2>1 DEF TypeOK
  <2>3. verdict' = verdict
    BY <1>4 DEF Answer
  <2> QED
    BY <2>2, <2>3 DEF RefusedIsNotSent
<1>5. ASSUME NEW m \in Msgs, ProduceRefused(m)
      PROVE  RefusedIsNotSent'
  <2>1. /\ timeouts' = timeouts /\ verdict[m] = "none" /\ current = <<>>
        /\ \A k \in Msgs : k # m => verdict'[k] = verdict[k]
    BY <1>5 DEF ProduceRefused, CallInv, TypeOK
  <2>2. m \notin InFlight
    BY <2>1 DEF FlightInv
  <2> QED
    BY <2>1, <2>2 DEF RefusedIsNotSent
<1>6. CASE Initialise \/ Uninit \/ UNCHANGED vars
  <2>1. UNCHANGED <<verdict, timeouts>>
    BY <1>6 DEF Initialise, Uninit, vars
  <2> QED
    BY <2>1 DEF RefusedIsNotSent
<1> QED
  BY <1>1, <1>2, <1>3, <1>4, <1>5, <1>6, Steps

LEMMA InitInv == Init => ProducerInv
<1> SUFFICES ASSUME Init PROVE ProducerInv
  OBVIOUS
<1>1. TypeOK
  BY InitTyped
<1>2. /\ Range(queue) = {} /\ Range(answers) = {}
      /\ Queued = {} /\ Answered = {} /\ Resending = {} /\ Once(queue) /\ Once(answers)
  BY EmptyHolds, OnceEmpty DEF Init, Queued, Answered, Resending
<1>3. InFlight = {}
  BY <1>1, <1>2, Places
<1>4. CallInv /\ CopiesInv /\ FlightInv /\ ResultInv
  BY <1>2, <1>3 DEF Init, CallInv, CopiesInv, FlightInv, ResultInv
<1>5. LogInv /\ TimeoutInv
  BY <1>2 DEF Init, LogInv, TimeoutInv, RoundOver
<1>6. BudgetInv
  <2>1. \A m \in Msgs : sends[m] = 0 /\ ~RoundOver(m) /\ current # <<m>>
    BY DEF Init, RoundOver
  <2>2. 0 <= MaxTaken
    BY Numbers
  <2> QED
    BY <1>2, <2>1, <2>2 DEF Init, BudgetInv
<1>7. RefusedIsNotSent
  BY DEF Init, RefusedIsNotSent
<1> QED
  BY <1>1, <1>4, <1>5, <1>6, <1>7 DEF ProducerInv

LEMMA StepInv == ProducerInv /\ [Next]_vars => ProducerInv'
BY StepType, StepCall, Flights, StepFlight, StepResult, StepLog, StepTimeout, StepBudget,
   StepRefused
DEF ProducerInv

LEMMA InvAlways == Spec => []ProducerInv
BY InitInv, StepInv, PTL DEF Spec

\* Every variable has its type: in particular no copy ever carries more than
\* timeout.retry.count retries, and sendAsync()'s loop makes no more than
\* queue.full.retry.count rounds.
THEOREM TypeCorrect == Spec => []TypeOK
<1>1. ProducerInv => TypeOK
  BY DEF ProducerInv
<1> QED
  BY <1>1, InvAlways, PTL

\* The broker has a message more than once only if sends of it timed out:
\* neither the loop of the application thread nor the callback sends again what
\* was not answered by a timeout, or dropped at a full queue.
THEOREM DuplicatesAreRetriesAlways == Spec => []DuplicatesAreRetries
<1>1. ProducerInv => DuplicatesAreRetries
  <2> SUFFICES ASSUME ProducerInv, NEW m \in Msgs PROVE log[m] <= timeouts[m] + 1
    BY DEF DuplicatesAreRetries
  <2>1. log[m] \in Nat /\ sends[m] \in Nat /\ timeouts[m] \in Nat
    BY DEF ProducerInv, TypeOK
  <2>2. log[m] <= sends[m] /\ sends[m] <= timeouts[m] + 1
    BY DEF ProducerInv, LogInv, TimeoutInv
  <2> QED
    BY <2>1, <2>2
<1> QED
  BY <1>1, InvAlways, PTL

\* However the loop of the application thread and the callbacks of the I/O
\* thread interleave, the client takes a message at most
\* timeout.retry.count * queue.full.retry.count + 1 times.
THEOREM SendsBoundedAlways == Spec => []SendsBounded
<1>1. ProducerInv => SendsBounded
  BY DEF ProducerInv, BudgetInv, SendsBounded
<1> QED
  BY <1>1, InvAlways, PTL

\* A message that produce() refused is under way only if it timed out before
\* produce() had read its result.
THEOREM RefusedIsNotSentAlways == Spec => []RefusedIsNotSent
<1>1. ProducerInv => RefusedIsNotSent
  BY DEF ProducerInv
<1> QED
  BY <1>1, InvAlways, PTL

-----------------------------------------------------------------------------
(* The refinement of Delivery *)

\* The state of a message as Delivery sees it.
StateOf == [m \in Msgs |-> IF m \in InFlight \/ current = <<m>> THEN "sending"
                           ELSE IF verdict[m] # "none" /\ (hasClient \/ closed)
                           THEN "ended" ELSE "new"]

LEMMA InitRefines ==
    ASSUME Init
    PROVE  Sending!Init
<1>1. InFlight = {}
  <2>1. TypeOK /\ Queued = {} /\ Answered = {} /\ Resending = {}
    BY InitTyped, OnceEmpty DEF Init, Queued, Answered, Resending
  <2> QED
    BY <2>1, Places
<1> QED
  BY <1>1 DEF Init, Sending!Init

LEMMA StepRefines ==
    ASSUME ProducerInv, [Next]_vars
    PROVE  [Sending!Next]_(Sending!vars)
<1> USE DEF ProducerInv
<1>0. TypeOK' /\ ProducerInv'
  BY StepInv
<1>1. InFlight \subseteq Msgs
  BY Places
<1>2. ASSUME StateOf' = StateOf, log' = log
      PROVE  UNCHANGED Sending!vars
  BY <1>2 DEF Sending!vars, StateOf
<1>3. ASSUME NEW m \in Msgs, StateOf[m] = "sending",
             StateOf' = [k \in Msgs |-> IF k \in {m} THEN "ended" ELSE StateOf[k]],
             log' = log
      PROVE  Sending!Next
  <2>1. Sending!End({m})
    BY <1>3 DEF Sending!End, StateOf
  <2>2. {m} \in SUBSET Msgs
    OBVIOUS
  <2> QED
    BY <2>1, <2>2 DEF Sending!Next
<1>4. ASSUME NEW m \in Msgs, InFlight' = InFlight \ {m}, m \in InFlight, log' = log,
             UNCHANGED <<current, verdict, hasClient, closed>>
      PROVE  [Sending!Next]_(Sending!vars)
  <2>1. CASE current = <<m>>
    <3>1. StateOf' = StateOf
      BY <1>4, <2>1 DEF StateOf
    <3> QED
      BY <1>2, <1>4, <3>1
  <2>2. CASE current # <<m>>
    <3>1. StateOf[m] = "sending" /\ verdict[m] # "none" /\ (hasClient \/ closed)
      BY <1>4, <2>2 DEF StateOf, FlightInv
    <3>2. StateOf' = [k \in Msgs |-> IF k \in {m} THEN "ended" ELSE StateOf[k]]
      BY <1>4, <2>2, <3>1 DEF StateOf
    <3> QED
      BY <1>3, <1>4, <3>1, <3>2
  <2> QED
    BY <2>1, <2>2
<1>5. CASE SendAsync
  <2>1. PICK m \in Msgs :
            current = <<m>> /\ (InFlight' = InFlight \cup {m} \/ InFlight' = InFlight)
    BY <1>0, <1>5, SendAsyncEffect
  <2>2. UNCHANGED <<current, verdict, hasClient, closed, log>>
    BY <1>5 DEF SendAsync
  <2>3. StateOf' = StateOf
    BY <2>1, <2>2 DEF StateOf
  <2> QED
    BY <1>2, <2>2, <2>3
<1>6. CASE CallbackSend
  <2>1. PICK m \in Msgs : m \in InFlight /\ (InFlight' = InFlight \/ InFlight' = InFlight \ {m})
    BY <1>0, <1>6, CallbackSendEffect
  <2>2. UNCHANGED <<current, verdict, hasClient, closed, log>>
    BY <1>6 DEF CallbackSend
  <2>3. InFlight' = InFlight => StateOf' = StateOf
    BY <2>2 DEF StateOf
  <2> QED
    BY <1>2, <1>4, <2>1, <2>2, <2>3
<1>7. CASE Callback
  <2>1. PICK m \in Msgs : m \in InFlight /\ (InFlight' = InFlight \/ InFlight' = InFlight \ {m})
    BY <1>0, <1>7, CallbackEffect
  <2>2. UNCHANGED <<current, verdict, hasClient, closed, log>>
    BY <1>7 DEF Callback
  <2>3. InFlight' = InFlight => StateOf' = StateOf
    BY <2>2 DEF StateOf
  <2> QED
    BY <1>2, <1>4, <2>1, <2>2, <2>3
<1>8. CASE Close
  <2>1. InFlight' = InFlight
    BY <1>0, <1>8, CloseEffect
  <2>2. UNCHANGED <<current, verdict, log>> /\ hasClient /\ closed'
    BY <1>8 DEF Close, CallInv
  <2>3. StateOf' = StateOf
    BY <2>1, <2>2 DEF StateOf
  <2> QED
    BY <1>2, <2>2, <2>3
<1>9. CASE ReadResult \/ GiveUp
  <2>1. UNCHANGED <<hasClient, closed, log, queue, answers, io>>
    BY <1>9, ReadEffect
  <2>2. InFlight' = InFlight
    BY <2>1, StayEffect
  <2>3. hasClient
    BY <1>9 DEF ReadResult, GiveUp, CallInv
  <2>4. PICK m \in Msgs :
            /\ current = <<m>>
            /\ \/ /\ current' = <<>>
                  /\ \E v \in {"true", "false"} : verdict' = [verdict EXCEPT ![m] = v]
               \/ current' = <<m>> /\ verdict' = verdict
    BY <1>9, ReadEffect
  <2>5. \A k \in Msgs : (current = <<k>> <=> k = m) /\ <<>> # <<k>>
    BY <2>4
  <2>6. CASE current' = <<m>> /\ verdict' = verdict
    <3>1. StateOf' = StateOf
      BY <2>1, <2>2, <2>4, <2>6 DEF StateOf
    <3> QED
      BY <1>2, <2>1, <3>1
  <2>7. CASE /\ current' = <<>>
             /\ \E v \in {"true", "false"} : verdict' = [verdict EXCEPT ![m] = v]
    <3>1. /\ verdict'[m] # "none" /\ \A k \in Msgs : k # m => verdict'[k] = verdict[k]
      BY <2>7 DEF TypeOK
    <3>2. CASE m \in InFlight
      <4>1. StateOf' = StateOf
        BY <2>1, <2>2, <2>5, <2>7, <3>1, <3>2 DEF StateOf
      <4> QED
        BY <1>2, <2>1, <4>1
    <3>3. CASE m \notin InFlight
      <4>1. StateOf[m] = "sending"
        BY <2>4 DEF StateOf
      <4>2. StateOf' = [k \in Msgs |-> IF k \in {m} THEN "ended" ELSE StateOf[k]]
        BY <2>1, <2>2, <2>3, <2>5, <2>7, <3>1, <3>3 DEF StateOf
      <4> QED
        BY <1>3, <2>1, <4>1, <4>2
    <3> QED
      BY <3>2, <3>3
  <2> QED
    BY <2>4, <2>6, <2>7
<1>10. ASSUME NEW i \in DOMAIN queue, NEW r \in {"ok", "timeout", "error"}, Answer(i, r)
       PROVE  [Sending!Next]_(Sending!vars)
  <2>1. PICK m \in Msgs :
            /\ m \in Queued /\ m \in InFlight /\ InFlight' = InFlight
            /\ log' = [log EXCEPT ![m] = log[m] + 1] \/ log' = log
    BY <1>0, <1>10, AnswerEffect
  <2>2. UNCHANGED <<current, verdict, hasClient, closed>>
    BY <1>10 DEF Answer
  <2>3. StateOf' = StateOf /\ StateOf[m] = "sending"
    BY <2>1, <2>2 DEF StateOf
  <2>4. log[m] < MaxTaken
    <3>1. log[m] < sends[m] /\ sends[m] <= MaxTaken
      BY <2>1 DEF LogInv, BudgetInv
    <3>2. log[m] \in Nat /\ sends[m] \in Nat /\ MaxTaken \in Nat
      BY Numbers DEF TypeOK
    <3> QED
      BY <3>1, <3>2
  <2>5. CASE log' = log
    BY <1>2, <2>3, <2>5
  <2>6. CASE log' = [log EXCEPT ![m] = log[m] + 1]
    <3>1. log' = [log EXCEPT ![m] = IF @ < MaxTaken THEN @ + 1 ELSE @]
      BY <2>4, <2>6
    <3>2. Sending!Write(m)
      BY <2>3, <3>1 DEF Sending!Write, StateOf
    <3> QED
      BY <3>2 DEF Sending!Next
  <2> QED
    BY <2>1, <2>5, <2>6
<1>11. ASSUME NEW m \in Msgs, Produce(m)
       PROVE  Sending!Next
  <2>1. /\ UNCHANGED <<hasClient, closed, queue, answers, io, log, verdict>>
        /\ current = <<>> /\ current' = <<m>> /\ verdict[m] = "none"
    BY <1>11 DEF Produce, CallInv
  <2>2. InFlight' = InFlight /\ m \notin InFlight
    BY <2>1, StayEffect DEF FlightInv
  <2>3. \A k \in Msgs : (current' = <<k>> <=> k = m) /\ current # <<k>>
    BY <2>1
  <2>4. StateOf[m] = "new" /\ StateOf' = [StateOf EXCEPT ![m] = "sending"]
    BY <2>1, <2>2, <2>3 DEF StateOf
  <2>5. Sending!Accept(m)
    BY <2>1, <2>4 DEF Sending!Accept, StateOf
  <2> QED
    BY <2>5 DEF Sending!Next
<1>12. CASE Initialise \/ Uninit \/ UNCHANGED vars \/ \E m \in Msgs : ProduceRefused(m)
  <2>1. UNCHANGED <<queue, answers, io, current, log, closed>>
    BY <1>12 DEF Initialise, Uninit, vars, ProduceRefused
  <2>2. InFlight' = InFlight
    BY <2>1, StayEffect
  <2>3. \A k \in Msgs : verdict'[k] # "none" /\ (hasClient' \/ closed)
                       <=> verdict[k] # "none" /\ (hasClient \/ closed)
    BY <1>12 DEF Initialise, Uninit, vars, ProduceRefused, CallInv, TypeOK
  <2>4. StateOf' = StateOf
    BY <2>1, <2>2, <2>3 DEF StateOf
  <2> QED
    BY <1>2, <2>1, <2>4
<1> QED
  BY <1>5, <1>6, <1>7, <1>8, <1>9, <1>10, <1>11, <1>12, Steps

\* A message is written only between its acceptance by produce() and the end of
\* its last copy, at most MaxTaken times, and an ended one is never sent again.
THEOREM ImplementsDeliveryHolds == Spec => ImplementsDelivery
BY InitRefines, StepRefines, InvAlways, PTL DEF Spec, ImplementsDelivery, Sending!Spec

=============================================================================
