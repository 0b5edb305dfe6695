------------------------- MODULE PulsarConsumerProofs -------------------------
(***************************************************************************)
(* Proofs about PulsarConsumer: types; one thread at a time in the map of   *)
(* latest ids; what an acknowledgement covers and what is not forgotten,    *)
(* for any topics, messages, starts and failures.                           *)
(***************************************************************************)
EXTENDS PulsarConsumer, TLAPS

Message == Topics \X (1 .. MaxMsg)

\* A loop that is about to record or process a message has one, and so has a
\* PHP program that was given one; the PHP build has no loop and one message.
MessagesInv ==
    /\ \A i \in Loops : loopPc[i] \in {"record", "callback"} => msg[i] \in Message
    /\ appPc = "user" => build = "php" /\ msg[1] \in Message
    /\ build = "php" => \A i \in Loops : loopPc[i] = "none" /\ (i # 1 => msg[i] = NoMsg)

TypeInv == TypeOK /\ MessagesInv

\* Where the threads can be together.  Without a forced stop() a loop has ended
\* before the next one begins and before the application goes on.
LoopsInv ==
    /\ build = "php" =>
          /\ ~force
          /\ appPc \in {"idle", "user", "dtorAck", "destroyed"}
    /\ \A i \in Loops : i > starts => loopPc[i] = "none"
    /\ running => starts > 0
    /\ appPc = "joining" => starts > 0
    /\ build = "callback" /\ ~force =>
          /\ \A i \in Loops : i < starts => loopPc[i] = "ended"
          /\ running => appPc \in {"idle", "starting"}
          /\ ~running /\ appPc # "joining" /\ starts > 0 => loopPc[starts] = "ended"

\* What is in the map was processed or is in the user's hands.
LatestInv ==
    \A t \in Topics : latest[t] <= processed[t] \/ InHand(t, latest[t])

\* Without a forced stop(): the one message that is on its way is the last one
\* of its topic received; while it is processed the map has its id, or in the
\* PHP build the subscription may be past it.
HandInv ==
    ~force =>
        /\ \A t \in Topics : processed[t] < next[t]
        /\ \A i \in Loops :
              /\ loopPc[i] \in {"record", "callback"} => next[msg[i][1]] = msg[i][2] + 1
              /\ loopPc[i] = "callback" => latest[msg[i][1]] = msg[i][2]
        /\ appPc = "user" =>
              /\ next[msg[1][1]] = msg[1][2] + 1
              /\ msg[1][2] <= Larger(acked[msg[1][1]], latest[msg[1][1]])

AckInv == LatestInv /\ HandInv /\ AckedIsProcessed /\ NothingForgotten

-----------------------------------------------------------------------------
(* Acknowledgements *)

\* Acknowledging some topics leaves each topic's id in the map, or moves the
\* subscription up to it and forgets it.
LEMMA Acknowledging ==
    ASSUME NEW ids \in [Topics -> 0 .. MaxMsg],
           acked \in [Topics -> 0 .. MaxMsg],
           AcknowledgeAll(ids)
    PROVE  /\ acked' \in [Topics -> 0 .. MaxMsg]
           /\ latest' \in [Topics -> 0 .. MaxMsg]
           /\ \A t \in Topics :
                 \/ latest'[t] = ids[t] /\ acked'[t] = acked[t]
                 \/ latest'[t] = 0 /\ acked'[t] = Larger(acked[t], ids[t])
<1>1. PICK ok : AcknowledgedFrom(ids, ok)
  BY DEF AcknowledgeAll
<1>2. MaxMsg \in Nat
  BY PulsarAssumption
<1> QED
  BY <1>1, <1>2 DEF AcknowledgedFrom, Larger

\* The same when the interval decides whether there is an acknowledgement.
LEMMA Deferring ==
    ASSUME NEW ids \in [Topics -> 0 .. MaxMsg],
           acked \in [Topics -> 0 .. MaxMsg],
           due \in BOOLEAN,
           DeferAcknowledge(ids)
    PROVE  /\ due' \in BOOLEAN
           /\ acked' \in [Topics -> 0 .. MaxMsg]
           /\ latest' \in [Topics -> 0 .. MaxMsg]
           /\ \A t \in Topics :
                 \/ latest'[t] = ids[t] /\ acked'[t] = acked[t]
                 \/ latest'[t] = 0 /\ acked'[t] = Larger(acked[t], ids[t])
<1>1. due' \in BOOLEAN
  BY DEF DeferAcknowledge
<1>2. CASE IntervalIsOver
  BY <1>1, <1>2, Acknowledging DEF DeferAcknowledge
<1>3. CASE ~IntervalIsOver
  BY <1>1, <1>3 DEF DeferAcknowledge
<1> QED
  BY <1>2, <1>3

-----------------------------------------------------------------------------
(* Types *)

LEMMA TypesInit == Init => TypeInv
<1> SUFFICES ASSUME Init PROVE TypeInv
  OBVIOUS
<1>1. MaxMsg \in Nat /\ MaxStarts \in Nat \ {0}
  BY PulsarAssumption
<1>2. /\ build \in Builds /\ manual \in BOOLEAN /\ force \in BOOLEAN
      /\ running \in BOOLEAN /\ due \in BOOLEAN
  BY PulsarAssumption DEF Init
<1>3. /\ latest \in [Topics -> 0 .. MaxMsg] /\ next \in [Topics -> 1 .. MaxMsg + 1]
      /\ acked \in [Topics -> 0 .. MaxMsg] /\ processed \in [Topics -> 0 .. MaxMsg]
      /\ committed \in [Topics -> 0 .. MaxMsg]
      /\ starts \in 0 .. MaxStarts
  BY <1>1 DEF Init
<1>4. TypeOK
  BY <1>2, <1>3 DEF Init, TypeOK
<1>5. MessagesInv
  BY DEF Init, MessagesInv
<1> QED
  BY <1>4, <1>5 DEF TypeInv

LEMMA TypesLoop ==
    ASSUME TypeInv, NEW i \in Loops, Loop(i) \/ \E t \in Topics : Receive(i, t)
    PROVE  TypeInv'
<1> USE PulsarAssumption DEF TypeInv, TypeOK, MessagesInv, Message, Goto, config
<1>1. CASE LoopBegin(i)
  BY <1>1 DEF LoopBegin
<1>2. CASE LoopTest(i)
  BY <1>2 DEF LoopTest
<1>3. CASE ReceiveNothing(i)
  BY <1>3 DEF ReceiveNothing
<1>4. ASSUME NEW t \in Topics, Receive(i, t) PROVE TypeInv'
  <2>1. msg'[i] \in Message
    BY <1>4 DEF Receive
  <2>2. TypeOK'
    BY <1>4 DEF Receive
  <2>3. MessagesInv'
    BY <1>4, <2>1 DEF Receive
  <2> QED
    BY <2>2, <2>3
<1>5. CASE Record(i)
  BY <1>5 DEF Record
<1>6. CASE CallbackReturn(i)
  <2>1. msg[i][1] \in Topics /\ msg[i][2] \in 1 .. MaxMsg
    BY <1>6 DEF CallbackReturn
  <2>2. processed' \in [Topics -> 0 .. MaxMsg]
    BY <1>6, <2>1 DEF CallbackReturn, Larger
  <2>3. TypeOK'
    BY <1>6, <2>2 DEF CallbackReturn
  <2>4. MessagesInv'
    BY <1>6 DEF CallbackReturn
  <2> QED
    BY <2>3, <2>4
<1>7. CASE Defer(i)
  BY <1>7 DEF Defer
<1>8. CASE Acknowledge(i)
  <2>1. acked' \in [Topics -> 0 .. MaxMsg] /\ latest' \in [Topics -> 0 .. MaxMsg]
    BY <1>8, Acknowledging DEF Acknowledge
  <2> QED
    BY <1>8, <2>1 DEF Acknowledge
<1> QED
  BY <1>1, <1>2, <1>3, <1>4, <1>5, <1>6, <1>7, <1>8 DEF Loop

LEMMA TypesApplication == TypeInv /\ Application => TypeInv'
<1> SUFFICES ASSUME TypeInv, Application PROVE TypeInv'
  OBVIOUS
<1> USE PulsarAssumption DEF TypeInv, TypeOK, MessagesInv, Message, config
<1>0. 1 \in Loops
  BY DEF Loops
<1>1. CASE Start
  BY <1>1 DEF Start, Loops
<1>2. CASE StartReturn \/ Stop \/ Join \/ Destroy
  BY <1>2 DEF StartReturn, Stop, Join, Destroy
<1>3. CASE StopAck \/ DtorAck
  <2>1. acked' \in [Topics -> 0 .. MaxMsg] /\ latest' \in [Topics -> 0 .. MaxMsg]
    BY <1>3, Acknowledging DEF StopAck, DtorAck
  <2> QED
    BY <1>3, <2>1 DEF StopAck, DtorAck
<1>4. CASE Destroyed
  BY <1>4 DEF Destroyed, vars
<1>5. CASE PhpStart \/ PhpStop
  <2>1. starts' \in 0 .. MaxStarts
    BY <1>5 DEF PhpStart, PhpStop
  <2> QED
    BY <1>5, <2>1 DEF PhpStart, PhpStop
<1>6. CASE PhpConsumeNothing
  <2>1. /\ due' \in BOOLEAN
        /\ acked' \in [Topics -> 0 .. MaxMsg] /\ latest' \in [Topics -> 0 .. MaxMsg]
    BY <1>6, Deferring DEF PhpConsumeNothing
  <2> QED
    BY <1>6, <2>1 DEF PhpConsumeNothing
<1>7. CASE PhpProcess
  <2>1. msg[1][1] \in Topics /\ msg[1][2] \in 1 .. MaxMsg
    BY <1>7 DEF PhpProcess
  <2>2. processed' \in [Topics -> 0 .. MaxMsg]
    BY <1>7, <2>1 DEF PhpProcess
  <2>3. msg' \in [Loops -> {NoMsg} \cup (Topics \X (1 .. MaxMsg))]
    BY <1>0, <1>7 DEF PhpProcess
  <2>4. \A i \in Loops : i # 1 => msg'[i] = msg[i]
    BY <1>7 DEF PhpProcess
  <2>5. TypeOK'
    BY <1>7, <2>2, <2>3 DEF PhpProcess
  <2> QED
    BY <1>7, <2>4, <2>5 DEF PhpProcess
<1>8. ASSUME NEW t \in Topics, PhpConsume(t) PROVE TypeInv'
  <2>1. <<t, next[t]>> \in Message
    BY <1>8 DEF PhpConsume
  <2>2. [latest EXCEPT ![t] = next[t]] \in [Topics -> 0 .. MaxMsg]
    BY <2>1
  <2>3. /\ due' \in BOOLEAN
        /\ acked' \in [Topics -> 0 .. MaxMsg] /\ latest' \in [Topics -> 0 .. MaxMsg]
    BY <1>8, <2>2, Deferring DEF PhpConsume
  <2>4. next' \in [Topics -> 1 .. MaxMsg + 1]
    BY <1>8 DEF PhpConsume
  <2>5. TypeOK'
    BY <1>8, <2>1, <2>3, <2>4 DEF PhpConsume
  <2>6. MessagesInv'
    BY <1>0, <1>8, <2>1 DEF PhpConsume
  <2> QED
    BY <2>5, <2>6
<1> QED
  BY <1>1, <1>2, <1>3, <1>4, <1>5, <1>6, <1>7, <1>8 DEF Application

LEMMA TypesNext == TypeInv /\ [Next]_vars => TypeInv'
<1> SUFFICES ASSUME TypeInv, [Next]_vars PROVE TypeInv'
  OBVIOUS
<1>1. ASSUME NEW t \in Topics, NEW n \in 1 .. MaxMsg, UserCommit(t, n) PROVE TypeInv'
  BY <1>1, PulsarAssumption
     DEF UserCommit, Larger, TypeInv, TypeOK, MessagesInv, Message, config
<1>2. CASE TimePasses
  BY <1>2 DEF TimePasses, TypeInv, TypeOK, MessagesInv, Message, config
<1>3. CASE UNCHANGED vars
  BY <1>3 DEF vars, TypeInv, TypeOK, MessagesInv, Message, config
<1> QED
  BY <1>1, <1>2, <1>3, TypesLoop, TypesApplication DEF Next

\* Every variable of the consumer keeps its type, in both builds, for any
\* topics, numbers of messages and of starts.
THEOREM TypeCorrect == Spec => []TypeOK
<1>1. TypeInv => TypeOK
  BY DEF TypeInv
<1> QED
  BY <1>1, TypesInit, TypesNext, PTL DEF Spec

-----------------------------------------------------------------------------
(* One thread at a time in the map *)

LEMMA LoopsInit == Init => LoopsInv
BY PulsarAssumption DEF Init, LoopsInv, Loops

LEMMA LoopsLoop ==
    ASSUME TypeInv, LoopsInv,
           NEW i \in Loops, Loop(i) \/ \E t \in Topics : Receive(i, t)
    PROVE  LoopsInv'
<1> USE DEF config
\* The loop is one that runs, and it stays one or ends because of running_.
<1>1. /\ loopPc[i] \notin {"none", "ended"}
      /\ \A j \in Loops : j # i => loopPc'[j] = loopPc[j]
      /\ loopPc'[i] # "none"
      /\ UNCHANGED <<build, force, running, starts, appPc>>
  BY DEF TypeInv, TypeOK, Goto, Loop, LoopBegin, LoopTest, ReceiveNothing, Receive,
         Record, CallbackReturn, Defer, Acknowledge
<1>2. /\ build = "callback" /\ ~(i > starts)
      /\ ~force => ~(i < starts)
  BY <1>1, PulsarAssumption DEF TypeInv, TypeOK, MessagesInv, LoopsInv
<1>3. starts \in Nat /\ i \in Nat
  BY PulsarAssumption DEF TypeInv, TypeOK, Loops
<1>4. ~force => i = starts
  BY <1>2, <1>3
<1>5. ~force => running \/ appPc = "joining"
  BY <1>1, <1>2, <1>4, <1>3, PulsarAssumption DEF LoopsInv, Loops
<1> QED
  BY <1>1, <1>2, <1>3, <1>4, <1>5 DEF LoopsInv

LEMMA LoopsApplication == TypeInv /\ LoopsInv /\ Application => LoopsInv'
<1> SUFFICES ASSUME TypeInv, LoopsInv, Application PROVE LoopsInv'
  OBVIOUS
<1> USE DEF config
<1>0. /\ build \in {"callback", "php"} /\ force \in BOOLEAN /\ running \in BOOLEAN
      /\ starts \in Nat /\ \A i \in Loops : i \in Nat
      /\ DOMAIN loopPc = Loops
  BY PulsarAssumption DEF TypeInv, TypeOK, Loops
<1>1. CASE Start
  <2>1. /\ build = "callback" /\ starts' = starts + 1 /\ running' /\ appPc' = "starting"
        /\ appPc = "idle" /\ ~running
        /\ UNCHANGED <<build, force>>
        /\ \A i \in Loops : i # starts + 1 => loopPc'[i] = loopPc[i]
    BY <1>0, <1>1 DEF Start
  <2>2. \A i \in Loops : i > starts' => loopPc'[i] = "none"
    BY <1>0, <2>1 DEF LoopsInv
  <2>3. ~force => \A i \in Loops : i < starts' => loopPc'[i] = "ended"
    <3> SUFFICES ASSUME ~force, NEW i \in Loops, i < starts' PROVE loopPc[i] = "ended"
      BY <1>0, <2>1
    <3>1. i < starts \/ (i = starts /\ starts > 0)
      BY <1>0, <2>1 DEF Loops
    <3> QED
      BY <2>1, <3>1 DEF LoopsInv
  <2> QED
    BY <1>0, <2>1, <2>2, <2>3 DEF LoopsInv
<1>2. CASE StartReturn
  BY <1>2 DEF StartReturn, LoopsInv
<1>3. CASE Stop
  BY <1>0, <1>3 DEF Stop, LoopsInv
<1>4. CASE Join
  BY <1>0, <1>4 DEF Join, LoopsInv
<1>5. CASE StopAck \/ DtorAck
  BY <1>5 DEF StopAck, DtorAck, LoopsInv
<1>6. CASE Destroy
  BY <1>0, <1>6 DEF Destroy, LoopsInv
<1>7. CASE Destroyed
  BY <1>7 DEF Destroyed, vars, LoopsInv
<1>8. CASE PhpStart
  BY <1>0, <1>8 DEF PhpStart, LoopsInv, TypeInv, MessagesInv
<1>9. CASE PhpStop \/ PhpConsumeNothing \/ PhpProcess
  BY <1>0, <1>9 DEF PhpStop, PhpConsumeNothing, PhpProcess, LoopsInv, TypeInv, MessagesInv
<1>10. ASSUME NEW t \in Topics, PhpConsume(t) PROVE LoopsInv'
  BY <1>0, <1>10 DEF PhpConsume, LoopsInv
<1> QED
  BY <1>1, <1>2, <1>3, <1>4, <1>5, <1>6, <1>7, <1>8, <1>9, <1>10 DEF Application

LEMMA LoopsNext == TypeInv /\ LoopsInv /\ [Next]_vars => LoopsInv'
<1> SUFFICES ASSUME TypeInv, LoopsInv, [Next]_vars PROVE LoopsInv'
  OBVIOUS
<1>1. ASSUME NEW t \in Topics, NEW n \in 1 .. MaxMsg, UserCommit(t, n) PROVE LoopsInv'
  BY <1>1 DEF UserCommit, LoopsInv, config
<1>2. CASE TimePasses
  BY <1>2 DEF TimePasses, LoopsInv, config
<1>3. CASE UNCHANGED vars
  BY <1>3 DEF vars, LoopsInv, config
<1> QED
  BY <1>1, <1>2, <1>3, LoopsLoop, LoopsApplication DEF Next

\* What LoopsInv says of a loop in the map or in a callback.
LEMMA ActiveLoop ==
    ASSUME TypeInv, LoopsInv, ~force,
           NEW i \in Loops, loopPc[i] \notin {"none", "ended"}
    PROVE  /\ build = "callback" /\ i = starts
           /\ running \/ appPc = "joining"
           /\ appPc \in {"idle", "starting", "joining"}
<1>1. /\ build = "callback"
      /\ starts \in Nat /\ i \in Nat \ {0}
  BY PulsarAssumption DEF TypeInv, TypeOK, MessagesInv, Loops
<1>2. ~(i > starts) /\ ~(i < starts)
  BY <1>1 DEF LoopsInv
<1>3. i = starts /\ starts > 0
  BY <1>1, <1>2
<1> QED
  BY <1>1, <1>3 DEF LoopsInv

\* Without a forced stop() the map of latest ids, which no lock guards, is used
\* by one thread at a time and by none after the destructor.
THEOREM MapExclusiveAlways == Spec => []MapExclusive
<1>1. TypeInv /\ LoopsInv => MapExclusive
  <2> SUFFICES ASSUME TypeInv, LoopsInv, ~force PROVE MapExclusive
    BY DEF MapExclusive
  <2> QED
    BY ActiveLoop DEF MapExclusive
<1> QED
  BY <1>1, TypesInit, TypesNext, LoopsInit, LoopsNext, PTL DEF Spec

-----------------------------------------------------------------------------
(* What is acknowledged and what is not forgotten *)

\* The types of what the acknowledgement properties compare.
LEMMA Numbers ==
    TypeInv =>
        /\ \A t \in Topics : /\ latest[t] \in Nat /\ acked[t] \in Nat
                             /\ processed[t] \in Nat /\ committed[t] \in Nat
                             /\ next[t] \in Nat
        /\ \A i \in Loops : loopPc[i] \in {"record", "callback"} =>
              msg[i] = <<msg[i][1], msg[i][2]>> /\ msg[i][1] \in Topics /\ msg[i][2] \in Nat
        /\ appPc = "user" =>
              msg[1] = <<msg[1][1], msg[1][2]>> /\ msg[1][1] \in Topics /\ msg[1][2] \in Nat
        /\ 1 \in Loops
BY PulsarAssumption DEF TypeInv, TypeOK, MessagesInv, Message, Loops

LEMMA AckInit == Init => AckInv
BY DEF Init, AckInv, LatestInv, HandInv, AckedIsProcessed, NothingForgotten, Larger

\* Steps that touch neither the numbers nor what the user is busy with.
LEMMA Quiet ==
    ASSUME AckInv,
           UNCHANGED <<config, msg, next, latest, acked, processed, committed>>,
           \A j \in Loops : loopPc'[j] = loopPc[j]
                         \/ {loopPc[j], loopPc'[j]} \cap {"record", "callback"} = {},
           appPc' = "user" <=> appPc = "user"
    PROVE  AckInv'
<1>1. \A t \in Topics : \A n : InHand(t, n)' <=> InHand(t, n)
  BY DEF InHand
<1> QED
  BY <1>1 DEF AckInv, LatestInv, HandInv, AckedIsProcessed, NothingForgotten, Larger, config

\* Steps that acknowledge, while no loop of an unforced consumer is in its
\* callback.
LEMMA QuietAcknowledging ==
    ASSUME TypeInv, AckInv,
           \A t \in Topics :
              \/ latest'[t] = latest[t] /\ acked'[t] = acked[t]
              \/ latest'[t] = 0 /\ acked'[t] = Larger(acked[t], latest[t]),
           UNCHANGED <<config, msg, next, processed, committed>>,
           \A j \in Loops : loopPc'[j] = loopPc[j]
                         \/ {loopPc[j], loopPc'[j]} \cap {"record", "callback"} = {},
           appPc # "user", appPc' # "user",
           ~force => \A j \in Loops : loopPc[j] # "callback"
    PROVE  AckInv'
<1> USE Numbers DEF config
<1>1. \A t \in Topics : \A n : InHand(t, n)' <=> InHand(t, n)
  BY DEF InHand
<1>2. \A t \in Topics : latest'[t] <= processed[t] \/ InHand(t, latest'[t])
  BY DEF AckInv, LatestInv
<1>3. LatestInv'
  BY <1>1, <1>2 DEF LatestInv
<1>4. ~force => \A t \in Topics : latest[t] <= processed[t]
  BY DEF AckInv, LatestInv, InHand
<1>5. HandInv'
  BY DEF AckInv, HandInv
<1>6. NothingForgotten'
  BY DEF AckInv, NothingForgotten, Larger
<1>7. AckedIsProcessed'
  <2> SUFFICES ASSUME NEW t \in Topics
               PROVE  \/ acked'[t] <= Larger(processed[t], committed[t])
                      \/ (force \/ build = "php") /\ InHand(t, acked'[t])
    BY <1>1 DEF AckedIsProcessed
  <2>1. \/ acked[t] <= Larger(processed[t], committed[t])
        \/ (force \/ build = "php") /\ InHand(t, acked[t])
    BY DEF AckInv, AckedIsProcessed
  <2>2. \/ latest[t] <= Larger(processed[t], committed[t])
        \/ force /\ InHand(t, latest[t])
    BY <1>4 DEF AckInv, LatestInv, Larger
  <2>3. acked'[t] = acked[t] \/ acked'[t] = latest[t]
    BY DEF Larger
  <2> QED
    BY <2>1, <2>2, <2>3
<1> QED
  BY <1>3, <1>5, <1>6, <1>7 DEF AckInv

LEMMA AckReceive ==
    ASSUME TypeInv, LoopsInv, AckInv, NEW i \in Loops, NEW t \in Topics, Receive(i, t)
    PROVE  AckInv'
<1> USE Numbers DEF config
<1>1. /\ UNCHANGED <<build, force, latest, acked, processed, committed, appPc>>
      /\ msg' = [msg EXCEPT ![i] = <<t, next[t]>>]
      /\ next' = [next EXCEPT ![t] = @ + 1]
      /\ loopPc' = [loopPc EXCEPT ![i] = "record"]
      /\ loopPc[i] = "receive"
  BY DEF Receive, Goto
<1>2. /\ msg'[i] = <<t, next[t]>> /\ next'[t] = next[t] + 1 /\ loopPc'[i] = "record"
      /\ \A x \in Topics : x # t => next'[x] = next[x]
      /\ \A j \in Loops : j # i => msg'[j] = msg[j] /\ loopPc'[j] = loopPc[j]
  BY <1>1 DEF TypeInv, TypeOK
<1>3. appPc # "user"
  BY <1>1 DEF TypeInv, MessagesInv
<1>4. \A x \in Topics : \A n : InHand(x, n)' <=> InHand(x, n)
  BY <1>1, <1>2, <1>3 DEF InHand
<1>5. LatestInv' /\ NothingForgotten' /\ AckedIsProcessed'
  BY <1>1, <1>4 DEF AckInv, LatestInv, NothingForgotten, AckedIsProcessed, Larger
<1>6. ASSUME ~force PROVE \A j \in Loops : loopPc[j] \notin {"record", "callback"}
  BY <1>1, <1>6, ActiveLoop
<1>7. HandInv'
  BY <1>1, <1>2, <1>3, <1>6 DEF AckInv, HandInv
<1> QED
  BY <1>5, <1>7 DEF AckInv

LEMMA AckRecord ==
    ASSUME TypeInv, LoopsInv, AckInv, NEW i \in Loops, Record(i)
    PROVE  AckInv'
<1> DEFINE t == msg[i][1]
           n == msg[i][2]
<1> USE Numbers DEF config
<1>1. /\ UNCHANGED <<build, force, msg, next, acked, processed, committed, appPc>>
      /\ latest' = [latest EXCEPT ![t] = n]
      /\ loopPc' = [loopPc EXCEPT ![i] = "callback"]
      /\ loopPc[i] = "record"
      /\ t \in Topics /\ n \in Nat /\ msg[i] = <<t, n>>
  BY DEF Record, Goto
<1>2. /\ latest'[t] = n /\ loopPc'[i] = "callback"
      /\ \A x \in Topics : x # t => latest'[x] = latest[x]
      /\ \A j \in Loops : j # i => loopPc'[j] = loopPc[j]
  BY <1>1 DEF TypeInv, TypeOK
<1>3. appPc # "user"
  BY <1>1 DEF TypeInv, MessagesInv
<1>4. InHand(t, n)' /\ \A x \in Topics : \A k : InHand(x, k) => InHand(x, k)'
  BY <1>1, <1>2, <1>3 DEF InHand
<1>5. LatestInv'
  BY <1>1, <1>2, <1>4 DEF AckInv, LatestInv
<1>6. ASSUME ~force PROVE \A j \in Loops : j # i => loopPc[j] \notin {"record", "callback"}
  BY <1>1, <1>6, ActiveLoop
<1>7. HandInv'
  BY <1>1, <1>2, <1>3, <1>6 DEF AckInv, HandInv
<1>8. ~force => processed[t] <= n
  BY <1>1 DEF AckInv, HandInv
<1>9. NothingForgotten'
  BY <1>1, <1>2, <1>8 DEF AckInv, NothingForgotten, Larger
<1>10. AckedIsProcessed'
  BY <1>1, <1>4 DEF AckInv, AckedIsProcessed
<1> QED
  BY <1>5, <1>7, <1>9, <1>10 DEF AckInv

LEMMA AckCallbackReturn ==
    ASSUME TypeInv, LoopsInv, AckInv, NEW i \in Loops, CallbackReturn(i)
    PROVE  AckInv'
<1> DEFINE t == msg[i][1]
           n == msg[i][2]
<1> USE Numbers DEF config
<1>1. /\ UNCHANGED <<build, force, latest, next, acked, committed, appPc>>
      /\ processed' = [processed EXCEPT ![t] = Larger(processed[t], n)]
      /\ msg' = [msg EXCEPT ![i] = NoMsg]
      /\ loopPc' = [loopPc EXCEPT ![i] = "defer"]
      /\ loopPc[i] = "callback"
      /\ t \in Topics /\ n \in Nat /\ msg[i] = <<t, n>>
  BY DEF CallbackReturn, Goto
<1>2. /\ processed'[t] = Larger(processed[t], n) /\ loopPc'[i] = "defer"
      /\ \A x \in Topics : x # t => processed'[x] = processed[x]
      /\ \A j \in Loops : j # i => loopPc'[j] = loopPc[j] /\ msg'[j] = msg[j]
  BY <1>1 DEF TypeInv, TypeOK
<1>3. appPc # "user"
  BY <1>1 DEF TypeInv, MessagesInv
<1>4. \A x \in Topics, k \in Nat :
         InHand(x, k) => InHand(x, k)' \/ k <= processed'[x]
  <2> SUFFICES ASSUME NEW x \in Topics, NEW k \in Nat, InHand(x, k), ~InHand(x, k)'
               PROVE  k <= processed'[x]
    OBVIOUS
  <2>1. PICK j \in Loops : msg[j] = <<x, k>> /\ loopPc[j] = "callback"
    BY <1>3 DEF InHand
  <2>2. j = i
    BY <1>2, <2>1 DEF InHand
  <2>3. x = t /\ k = n
    BY <1>1, <2>1, <2>2
  <2> QED
    BY <1>1, <1>2, <2>3 DEF Larger
<1>5. \A x \in Topics : processed[x] <= processed'[x] /\ processed'[x] \in Nat
  BY <1>1, <1>2 DEF Larger
<1>6. LatestInv'
  <2> SUFFICES ASSUME NEW x \in Topics
               PROVE  latest[x] <= processed'[x] \/ InHand(x, latest[x])'
    BY <1>1 DEF LatestInv, InHand
  <2> QED
    BY <1>1, <1>4, <1>5 DEF AckInv, LatestInv
<1>7. ASSUME ~force PROVE \A j \in Loops : j # i => loopPc[j] \notin {"record", "callback"}
  BY <1>1, <1>7, ActiveLoop
<1>8. HandInv'
  BY <1>1, <1>2, <1>3, <1>7 DEF AckInv, HandInv, Larger
<1>9. NothingForgotten'
  BY <1>1, <1>2 DEF AckInv, HandInv, NothingForgotten, Larger
<1>10. AckedIsProcessed'
  <2> SUFFICES ASSUME NEW x \in Topics
               PROVE  \/ acked[x] <= Larger(processed'[x], committed[x])
                      \/ (force \/ build = "php") /\ InHand(x, acked[x])'
    BY <1>1 DEF AckedIsProcessed, InHand
  <2> QED
    BY <1>1, <1>4, <1>5 DEF AckInv, AckedIsProcessed, Larger
<1> QED
  BY <1>6, <1>8, <1>9, <1>10 DEF AckInv

LEMMA AckLoop ==
    ASSUME TypeInv, LoopsInv, AckInv,
           NEW i \in Loops, Loop(i) \/ \E t \in Topics : Receive(i, t)
    PROVE  AckInv'
<1>1. CASE LoopBegin(i) \/ LoopTest(i) \/ ReceiveNothing(i) \/ Defer(i)
  <2>1. /\ UNCHANGED <<config, msg, next, latest, acked, processed, committed, appPc>>
        /\ loopPc' \in {[loopPc EXCEPT ![i] = x] : x \in {"head", "receive", "ended", "defer", "ack"}}
        /\ loopPc[i] \in {"begin", "head", "receive", "defer"}
    BY <1>1 DEF LoopBegin, LoopTest, ReceiveNothing, Defer, Goto
  <2>2. \A j \in Loops : loopPc'[j] = loopPc[j]
                       \/ {loopPc[j], loopPc'[j]} \cap {"record", "callback"} = {}
    BY <2>1 DEF TypeInv, TypeOK
  <2> QED
    BY <2>1, <2>2, Quiet
<1>2. CASE Acknowledge(i)
  <2>1. /\ UNCHANGED <<config, msg, next, processed, committed, appPc>>
        /\ loopPc' = [loopPc EXCEPT ![i] = "head"]
        /\ loopPc[i] = "ack"
        /\ AcknowledgeAll(latest)
    BY <1>2 DEF Acknowledge, Goto
  <2>2. \A j \in Loops : loopPc'[j] = loopPc[j]
                       \/ {loopPc[j], loopPc'[j]} \cap {"record", "callback"} = {}
    BY <2>1 DEF TypeInv, TypeOK
  <2>3. appPc # "user"
    BY <2>1 DEF TypeInv, MessagesInv
  <2>4. ~force => \A j \in Loops : loopPc[j] # "callback"
    BY <2>1, ActiveLoop
  <2>5. \A t \in Topics :
            \/ latest'[t] = latest[t] /\ acked'[t] = acked[t]
            \/ latest'[t] = 0 /\ acked'[t] = Larger(acked[t], latest[t])
    BY <2>1, Acknowledging DEF TypeInv, TypeOK
  <2> QED
    BY <2>1, <2>2, <2>3, <2>4, <2>5, QuietAcknowledging
<1> QED
  BY <1>1, <1>2, AckReceive, AckRecord, AckCallbackReturn DEF Loop

\* consume() of the PHP build acknowledges before its message is processed.
LEMMA AckPhpConsume ==
    ASSUME TypeInv, LoopsInv, AckInv, NEW t \in Topics, PhpConsume(t)
    PROVE  AckInv'
<1> DEFINE n == next[t]
           ids == [latest EXCEPT ![t] = n]
<1> USE Numbers DEF config
<1>1. /\ UNCHANGED <<build, force, loopPc, processed, committed>>
      /\ msg' = [msg EXCEPT ![1] = <<t, n>>] /\ next' = [next EXCEPT ![t] = @ + 1]
      /\ appPc = "idle" /\ appPc' = "user" /\ build = "php" /\ n <= MaxMsg
      /\ DeferAcknowledge(ids)
  BY DEF PhpConsume
<1>2. /\ msg'[1] = <<t, n>> /\ next'[t] = n + 1
      /\ \A x \in Topics : x # t => next'[x] = next[x]
  BY <1>1 DEF TypeInv, TypeOK
<1>3. /\ ids \in [Topics -> 0 .. MaxMsg] /\ ids[t] = n
      /\ \A x \in Topics : x # t => ids[x] = latest[x]
  BY <1>1, PulsarAssumption DEF TypeInv, TypeOK
<1>4. \A x \in Topics :
          \/ latest'[x] = ids[x] /\ acked'[x] = acked[x]
          \/ latest'[x] = 0 /\ acked'[x] = Larger(acked[x], ids[x])
  BY <1>1, <1>3, Deferring DEF TypeInv, TypeOK
<1>5. ~force /\ \A j \in Loops : loopPc[j] = "none"
  BY <1>1 DEF LoopsInv, TypeInv, MessagesInv
<1>6. \A x \in Topics : /\ latest[x] <= processed[x] /\ processed[x] < next[x]
                       /\ acked[x] <= Larger(processed[x], committed[x])
                       /\ processed[x] <= Larger(acked[x], latest[x])
  BY <1>1, <1>5 DEF AckInv, LatestInv, HandInv, AckedIsProcessed, NothingForgotten, InHand
<1>7. \A k : k = n => InHand(t, k)'
  BY <1>1, <1>2 DEF InHand
<1>8. LatestInv'
  <2> SUFFICES ASSUME NEW x \in Topics, ~(latest'[x] <= processed[x])
               PROVE  x = t /\ latest'[x] = n
    BY <1>1, <1>7 DEF LatestInv
  <2> QED
    BY <1>3, <1>4, <1>6
<1>9. AckedIsProcessed'
  <2> SUFFICES ASSUME NEW x \in Topics, ~(acked'[x] <= Larger(processed[x], committed[x]))
               PROVE  x = t /\ acked'[x] = n
    BY <1>1, <1>7 DEF AckedIsProcessed
  <2> QED
    BY <1>3, <1>4, <1>6 DEF Larger
<1>10. NothingForgotten'
  BY <1>1, <1>3, <1>4, <1>6 DEF NothingForgotten, Larger
<1>11. HandInv'
  BY <1>1, <1>2, <1>3, <1>4, <1>5, <1>6 DEF HandInv, Larger
<1> QED
  BY <1>8, <1>9, <1>10, <1>11 DEF AckInv

LEMMA AckPhpProcess == TypeInv /\ LoopsInv /\ AckInv /\ PhpProcess => AckInv'
<1> SUFFICES ASSUME TypeInv, LoopsInv, AckInv, PhpProcess PROVE AckInv'
  OBVIOUS
<1> DEFINE t == msg[1][1]
           n == msg[1][2]
<1> USE Numbers DEF config
<1>1. /\ UNCHANGED <<build, force, loopPc, latest, next, acked, committed>>
      /\ processed' = [processed EXCEPT ![t] = n]
      /\ appPc = "user" /\ appPc' = "idle"
      /\ t \in Topics /\ n \in Nat /\ msg[1] = <<t, n>>
  BY DEF PhpProcess
<1>2. /\ processed'[t] = n
      /\ \A x \in Topics : x # t => processed'[x] = processed[x]
  BY <1>1 DEF TypeInv, TypeOK
<1>3. ~force /\ build = "php" /\ \A j \in Loops : loopPc[j] = "none"
  BY <1>1 DEF LoopsInv, TypeInv, MessagesInv
<1>4. next[t] = n + 1 /\ n <= Larger(acked[t], latest[t]) /\ processed[t] < next[t]
  BY <1>1, <1>3 DEF AckInv, HandInv
<1>5. processed[t] <= n
  BY <1>1, <1>4
<1>6. \A j \in Loops : \A x, k : msg[j] = <<x, k>> => j = 1
  BY <1>3 DEF TypeInv, MessagesInv, NoMsg
<1>7. \A x, k : InHand(x, k) => x = t /\ k = n
  BY <1>1, <1>6 DEF InHand
<1>8. \A x \in Topics : x # t => latest[x] <= processed[x]
  BY <1>7 DEF AckInv, LatestInv
<1>9. LatestInv'
  <2>1. latest[t] <= n
    BY <1>1, <1>5, <1>7 DEF AckInv, LatestInv
  <2> QED
    BY <1>1, <1>2, <1>8, <2>1 DEF LatestInv
<1>10. AckedIsProcessed'
  <2>1. \A x \in Topics : x # t => acked[x] <= Larger(processed[x], committed[x])
    BY <1>7 DEF AckInv, AckedIsProcessed
  <2>2. acked[t] <= Larger(n, committed[t])
    BY <1>1, <1>5, <1>7 DEF AckInv, AckedIsProcessed, Larger
  <2> QED
    BY <1>1, <1>2, <2>1, <2>2 DEF AckedIsProcessed
<1>11. NothingForgotten'
  BY <1>1, <1>2, <1>4 DEF AckInv, NothingForgotten, Larger
<1>12. HandInv'
  BY <1>1, <1>2, <1>3, <1>4 DEF AckInv, HandInv
<1> QED
  BY <1>9, <1>10, <1>11, <1>12 DEF AckInv

LEMMA AckApplication == TypeInv /\ LoopsInv /\ AckInv /\ Application => AckInv'
<1> SUFFICES ASSUME TypeInv, LoopsInv, AckInv, Application PROVE AckInv'
  OBVIOUS
<1>1. CASE Start
  <2>1. /\ UNCHANGED <<config, msg, next, latest, acked, processed, committed>>
        /\ loopPc' = [loopPc EXCEPT ![starts + 1] = "begin"]
        /\ appPc = "idle" /\ appPc' = "starting"
        /\ starts + 1 \in Loops /\ starts + 1 > starts
    BY <1>1, PulsarAssumption DEF Start, TypeInv, TypeOK, Loops
  <2>2. loopPc[starts + 1] = "none"
    BY <2>1 DEF LoopsInv
  <2>3. \A j \in Loops : loopPc'[j] = loopPc[j]
                       \/ {loopPc[j], loopPc'[j]} \cap {"record", "callback"} = {}
    BY <2>1, <2>2 DEF TypeInv, TypeOK
  <2> QED
    BY <2>1, <2>3, Quiet
<1>2. CASE StartReturn \/ Stop \/ Join \/ Destroy \/ PhpStart \/ PhpStop
  <2>1. /\ UNCHANGED <<config, msg, next, latest, acked, processed, committed, loopPc>>
        /\ appPc # "user" /\ appPc' # "user"
    BY <1>2 DEF StartReturn, Stop, Join, Destroy, PhpStart, PhpStop
  <2> QED
    BY <2>1, Quiet
<1>3. CASE StopAck \/ DtorAck
  <2>1. /\ UNCHANGED <<config, msg, next, processed, committed, loopPc>>
        /\ appPc \in {"stopAck", "dtorAck"} /\ appPc' # "user"
        /\ AcknowledgeAll(latest)
    BY <1>3 DEF StopAck, DtorAck
  <2>2. ~force => \A j \in Loops : loopPc[j] # "callback"
    BY <2>1, ActiveLoop
  <2>3. \A t \in Topics :
            \/ latest'[t] = latest[t] /\ acked'[t] = acked[t]
            \/ latest'[t] = 0 /\ acked'[t] = Larger(acked[t], latest[t])
    BY <2>1, Acknowledging DEF TypeInv, TypeOK
  <2> QED
    BY <2>1, <2>2, <2>3, QuietAcknowledging
<1>4. CASE Destroyed
  BY <1>4, Quiet DEF Destroyed, vars
<1>5. CASE PhpConsumeNothing
  <2>1. /\ UNCHANGED <<config, msg, next, processed, committed, loopPc, appPc>>
        /\ appPc = "idle" /\ build = "php"
        /\ DeferAcknowledge(latest)
    BY <1>5 DEF PhpConsumeNothing
  <2>2. \A j \in Loops : loopPc[j] # "callback"
    BY <2>1 DEF TypeInv, MessagesInv
  <2>3. \A t \in Topics :
            \/ latest'[t] = latest[t] /\ acked'[t] = acked[t]
            \/ latest'[t] = 0 /\ acked'[t] = Larger(acked[t], latest[t])
    BY <2>1, Deferring DEF TypeInv, TypeOK
  <2> QED
    BY <2>1, <2>2, <2>3, QuietAcknowledging
<1> QED
  BY <1>1, <1>2, <1>3, <1>4, <1>5, AckPhpConsume, AckPhpProcess DEF Application

\* commitOffset() covers what it acknowledges.
LEMMA AckUserCommit ==
    ASSUME TypeInv, AckInv,
           NEW t \in Topics, NEW n \in 1 .. MaxMsg, UserCommit(t, n)
    PROVE  AckInv'
<1> USE Numbers DEF config
<1>1. /\ UNCHANGED <<build, force, loopPc, msg, appPc, latest, next, processed>>
      /\ committed'[t] = Larger(committed[t], n)
      /\ acked'[t] = acked[t] \/ acked'[t] = Larger(acked[t], n)
      /\ \A x \in Topics : x # t => acked'[x] = acked[x] /\ committed'[x] = committed[x]
      /\ n \in Nat
  BY PulsarAssumption DEF UserCommit, TypeInv, TypeOK
<1>2. \A x \in Topics : \A k : InHand(x, k)' <=> InHand(x, k)
  BY <1>1 DEF InHand
<1>3. LatestInv'
  BY <1>1, <1>2 DEF AckInv, LatestInv
<1>4. HandInv'
  BY <1>1 DEF AckInv, HandInv, Larger
<1>5. NothingForgotten'
  BY <1>1 DEF AckInv, NothingForgotten, Larger
<1>6. AckedIsProcessed'
  <2> SUFFICES ASSUME NEW x \in Topics, ~(acked'[x] <= Larger(processed[x], committed'[x]))
               PROVE  /\ acked'[x] = acked[x]
                      /\ ~(acked[x] <= Larger(processed[x], committed[x]))
    BY <1>1, <1>2 DEF AckInv, AckedIsProcessed
  <2> QED
    BY <1>1 DEF Larger
<1> QED
  BY <1>3, <1>4, <1>5, <1>6 DEF AckInv

LEMMA AckNext == TypeInv /\ LoopsInv /\ AckInv /\ [Next]_vars => AckInv'
<1>1. ASSUME TypeInv, LoopsInv, AckInv, TimePasses \/ UNCHANGED vars PROVE AckInv'
  BY <1>1, Quiet DEF TimePasses, vars
<1> QED
  BY <1>1, AckLoop, AckApplication, AckUserCommit DEF Next

\* What every acknowledgement theorem below follows from.
LEMMA AckAlways == Spec => []AckInv
BY TypesInit, TypesNext, LoopsInit, LoopsNext, AckInit, AckNext, PTL DEF Spec

\* A subscription moves only past messages the user has processed or committed,
\* but for the one in the user's hands after a forced stop() or in the PHP build.
THEOREM AckedIsProcessedAlways == Spec => []AckedIsProcessed
<1>1. AckInv => AckedIsProcessed
  BY DEF AckInv
<1> QED
  BY <1>1, AckAlways, PTL

\* Without a forced stop() a processed message is acknowledged or its topic's id
\* waits in the map, however many acknowledgements have failed.
THEOREM NothingForgottenAlways == Spec => []NothingForgotten
<1>1. AckInv => NothingForgotten
  BY DEF AckInv
<1> QED
  BY <1>1, AckAlways, PTL

-----------------------------------------------------------------------------
(* Manual acknowledgements *)

\* The timer sends no loop to an acknowledgement that the user makes.
ManualInv == manual => \A i \in Loops : loopPc[i] # "ack"

\* What a step does to the subscriptions.
ManualStep ==
    \A t \in Topics :
        manual /\ acked'[t] # acked[t] =>
            acked'[t] <= committed'[t] \/ appPc \in {"stopAck", "dtorAck"}

LEMMA ManualLoop ==
    ASSUME TypeInv, ManualInv,
           NEW i \in Loops, Loop(i) \/ \E t \in Topics : Receive(i, t)
    PROVE  ManualInv' /\ ManualStep
<1> USE DEF TypeInv, TypeOK, ManualInv, ManualStep, Goto, config
<1>1. CASE LoopBegin(i)
  BY <1>1 DEF LoopBegin
<1>2. CASE LoopTest(i)
  BY <1>2 DEF LoopTest
<1>3. CASE ReceiveNothing(i)
  BY <1>3 DEF ReceiveNothing
<1>4. ASSUME NEW t \in Topics, Receive(i, t) PROVE ManualInv' /\ ManualStep
  BY <1>4 DEF Receive
<1>5. CASE Record(i)
  BY <1>5 DEF Record
<1>6. CASE CallbackReturn(i)
  BY <1>6 DEF CallbackReturn
<1>7. CASE Defer(i)
  BY <1>7 DEF Defer, IntervalIsOver
<1>8. CASE Acknowledge(i)
  <2>1. ~manual /\ manual' = manual
    BY <1>8 DEF Acknowledge
  <2> QED
    BY <2>1
<1> QED
  BY <1>1, <1>2, <1>3, <1>4, <1>5, <1>6, <1>7, <1>8 DEF Loop

\* Consuming a message of the PHP build acknowledges when the interval is over,
\* which it never is when acknowledgements are manual.
LEMMA ManualApplication ==
    TypeInv /\ ManualInv /\ Application => ManualInv' /\ ManualStep
<1> SUFFICES ASSUME TypeInv, ManualInv, Application PROVE ManualInv' /\ ManualStep
  OBVIOUS
<1> USE DEF TypeInv, TypeOK, ManualInv, ManualStep, config
<1>1. CASE Start
  BY <1>1 DEF Start
<1>2. CASE StartReturn \/ Stop \/ Join \/ Destroy \/ Destroyed
  BY <1>2 DEF StartReturn, Stop, Join, Destroy, Destroyed, vars
<1>3. CASE StopAck \/ DtorAck
  BY <1>3 DEF StopAck, DtorAck
<1>4. CASE PhpStart \/ PhpStop \/ PhpProcess
  BY <1>4 DEF PhpStart, PhpStop, PhpProcess
<1>5. CASE PhpConsumeNothing
  BY <1>5 DEF PhpConsumeNothing, DeferAcknowledge, IntervalIsOver
<1>6. ASSUME NEW t \in Topics, PhpConsume(t) PROVE ManualInv' /\ ManualStep
  BY <1>6 DEF PhpConsume, DeferAcknowledge, IntervalIsOver
<1> QED
  BY <1>1, <1>2, <1>3, <1>4, <1>5, <1>6 DEF Application

\* commitOffset() moves a subscription to the number it records, or not at all.
LEMMA ManualUserCommit ==
    ASSUME TypeInv, ManualInv,
           NEW t \in Topics, NEW n \in 1 .. MaxMsg, UserCommit(t, n)
    PROVE  ManualInv' /\ ManualStep
<1> USE Numbers DEF config
<1>1. /\ UNCHANGED <<manual, loopPc>>
      /\ committed'[t] = Larger(committed[t], n)
      /\ acked'[t] = acked[t] \/ acked'[t] = Larger(acked[t], n)
      /\ \A x \in Topics : x # t => acked'[x] = acked[x]
      /\ n \in Nat
  BY PulsarAssumption DEF UserCommit, TypeInv, TypeOK
<1>2. ManualInv'
  BY <1>1 DEF ManualInv
<1>3. ManualStep
  BY <1>1 DEF ManualStep, Larger
<1> QED
  BY <1>2, <1>3

LEMMA ManualNext == TypeInv /\ ManualInv /\ [Next]_vars => ManualInv' /\ ManualStep
<1>1. ASSUME TypeInv, ManualInv, TimePasses \/ UNCHANGED vars
      PROVE  ManualInv' /\ ManualStep
  BY <1>1 DEF ManualInv, ManualStep, TimePasses, vars, config
<1> QED
  BY <1>1, ManualLoop, ManualApplication, ManualUserCommit DEF Next

\* When acknowledgements are manual, a subscription moves only up to what
\* commitOffset() was given, but in stop() and in the destructor.
THEOREM ManualAcksAreCommitsAlways == Spec => ManualAcksAreCommits
<1>1. Init => ManualInv
  BY DEF Init, ManualInv
<1>2. TypeInv /\ ManualInv /\ [Next]_vars => [ManualStep]_vars
  BY ManualNext
<1>3. [ManualStep]_vars <=>
          [\A t \in Topics :
              manual /\ acked'[t] # acked[t] =>
                  acked'[t] <= committed'[t] \/ appPc \in {"stopAck", "dtorAck"}]_vars
  BY DEF ManualStep
<1> QED
  BY <1>1, <1>2, <1>3, TypesInit, TypesNext, ManualNext, PTL DEF Spec, ManualAcksAreCommits
=============================================================================
