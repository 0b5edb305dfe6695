---------------------- MODULE KafkaProduceCallsProofs ----------------------
(***************************************************************************)
(* Proofs about KafkaProduceCalls: types; who may use what uninit()         *)
(* destroys; where the partitioner sends a message; for any number of       *)
(* calls, partitions, keys and polls.                                       *)
(***************************************************************************)
EXTENDS KafkaProduceCalls, TLAPS

\* uninit() begins by clearing is_init_, after which the calls inside are those
\* that were inside then.
FlagInv ==
    /\ isInit <=> main = "run"
    /\ IF isInit THEN raced = {} ELSE Inside \subseteq raced
    /\ fault \subseteq raced

\* A partition that has stayed available was not tried yet, and is available.
ChoiceInv ==
    \A c \in Calls : pc[c] = "choose" => stayed[c] \subseteq avail \cap left[c]

-----------------------------------------------------------------------------
(* Types *)

LEMMA TypesInit == Init => TypeOK
<1> SUFFICES ASSUME Init PROVE TypeOK
  OBVIOUS
<1>1. MaxPolls \in Nat
  BY CallsAssumption
<1>2. /\ polls \in [Calls -> 0 .. MaxPolls]
      /\ batch \in [Calls -> Seq(Report)]
      /\ reports \in Seq(Report)
  BY <1>1 DEF Init
<1> QED
  BY <1>2 DEF Init, TypeOK

\* What a call of produce() does with its own locals.
LEMMA TypesProduce ==
    ASSUME TypeOK, NEW c \in Calls, Produce(c)
    PROVE  TypeOK'
<1> USE DEF TypeOK, GoTo, Returns, Faults, mainVars, choiceVars, waitVars, kafkaVars
<1>1. ASSUME NEW k \in Keys, Enter(c, k) PROVE TypeOK'
  BY <1>1 DEF Enter
<1>2. CASE Reset(c)
  BY <1>2 DEF Reset
<1>3. CASE Send(c)
  BY <1>3 DEF Send
<1>4. CASE SendRefused(c)
  BY <1>4 DEF SendRefused
<1>5. CASE SendDestroyed(c)
  BY <1>5 DEF SendDestroyed
<1>6. ASSUME NEW p \in Partitions, Chosen(c, p) PROVE TypeOK'
  BY <1>6 DEF Chosen
<1>7. CASE HashKey(c)
  <2>1. 0 \in Partitions
    BY CallsAssumption DEF Partitions
  <2>2. PICK p \in Partitions : Chosen(c, p)
    <3>1. PICK p : Chosen(c, IF p \in avail THEN p ELSE 0)
      BY <1>7 DEF HashKey
    <3>2. (IF p \in avail THEN p ELSE 0) \in Partitions
      BY <2>1
    <3> QED
      BY <3>1, <3>2
  <2> QED
    BY <1>6, <2>2
<1>8. CASE ChooseDestroyed(c)
  BY <1>8 DEF ChooseDestroyed
<1>9. ASSUME NEW p \in Partitions, Pick(c, p) PROVE TypeOK'
  <2>1. CASE \E q \in Partitions : Chosen(c, q)
    BY <1>6, <2>1
  <2>2. CASE /\ left' = [left EXCEPT ![c] = @ \ {p}]
             /\ UNCHANGED <<mainVars, syncErr, pc, key, stayed, waitVars, avail,
                            kafkaVars, heard, apart, raced, fault>>
    <3>1. left' \in [Calls -> SUBSET Partitions]
      BY <2>2
    <3> QED
      BY <2>2, <3>1
  <2> QED
    BY <1>9, <2>1, <2>2 DEF Pick
<1>10. CASE Poll(c)
  <2>1. polls[c] + 1 \in 0 .. MaxPolls
    BY <1>10, CallsAssumption DEF Poll, WaitIsOver
  <2>2. /\ batch' \in [Calls -> Seq(Report)]
        /\ reports' \in Seq(Report)
    BY <1>10 DEF Poll
  <2> QED
    BY <1>10, <2>1, <2>2 DEF Poll
<1>11. CASE Serve(c)
  <2>1. Head(batch[c]) \in Report /\ Tail(batch[c]) \in Seq(Report)
    BY <1>11 DEF Serve
  <2> QED
    BY <1>11, <2>1 DEF Serve, Report_, Report
<1>12. CASE WaitDestroyed(c)
  BY <1>12 DEF WaitDestroyed
<1>13. CASE LeaveLoop(c)
  BY <1>13 DEF LeaveLoop
<1>14. CASE Return(c)
  BY <1>14 DEF Return
<1>15. CASE ReturnDestroyed(c)
  BY <1>15 DEF ReturnDestroyed
<1> QED
  BY <1>1, <1>2, <1>3, <1>4, <1>5, <1>7, <1>8, <1>9, <1>10, <1>11, <1>12, <1>13,
     <1>14, <1>15 DEF Produce, Proceeds

LEMMA TypesRest ==
    ASSUME TypeOK, MainThread \/ Broker \/ UNCHANGED vars
    PROVE  TypeOK'
<1> USE DEF TypeOK, mainVars, choiceVars, waitVars, kafkaVars
<1>1. CASE Uninit
  BY <1>1 DEF Uninit, Inside
<1>2. CASE DestroyTopic
  BY <1>2 DEF DestroyTopic
<1>3. CASE FlushServe
  <2>1. Head(reports) \in Report /\ Tail(reports) \in Seq(Report)
    BY <1>3 DEF FlushServe
  <2> QED
    BY <1>3, <2>1 DEF FlushServe, Report_, Report
<1>4. CASE DestroyHandle
  <2>1. reports' \in Seq(Report) /\ queue' \subseteq Calls \X Partitions
    BY <1>4 DEF DestroyHandle
  <2> QED
    BY <1>4, <2>1 DEF DestroyHandle
<1>5. CASE Done \/ UNCHANGED vars
  BY <1>5 DEF Done, vars
<1>6. ASSUME NEW c \in Calls, NEW p \in Partitions, NEW err \in {"ok", "err"},
             Resolve(c, p, err)
      PROVE  TypeOK'
  <2>1. <<c, err>> \in Report
    BY DEF Report
  <2>2. reports' \in Seq(Report)
    BY <1>6, <2>1 DEF Resolve
  <2> QED
    BY <1>6, <2>2 DEF Resolve
<1>7. ASSUME NEW S \in SUBSET Partitions, Available(S) PROVE TypeOK'
  BY <1>7 DEF Available
<1> QED
  BY <1>1, <1>2, <1>3, <1>4, <1>5, <1>6, <1>7 DEF MainThread, Broker

\* Every variable keeps its type, for any calls, partitions, keys and polls.
THEOREM TypeCorrect == Spec => []TypeOK
<1>1. TypeOK /\ [Next]_vars => TypeOK'
  BY TypesProduce, TypesRest DEF Next
<1> QED
  BY <1>1, TypesInit, PTL DEF Spec

-----------------------------------------------------------------------------
(* Who uses what uninit() destroys *)

\* A fault needs a uninit() that has begun, and a call that is inside.
LEMMA Faulting ==
    ASSUME TypeOK, FlagInv, NEW c \in Calls, c \in Inside, ~isInit, Faults(c)
    PROVE  FlagInv'
BY DEF TypeOK, FlagInv, Faults, GoTo, Inside, mainVars

\* A step that lets no call in and touches neither the flag nor the history.
LEMMA QuietFlag ==
    ASSUME FlagInv, UNCHANGED <<mainVars, raced, fault>>, Inside' \subseteq Inside
    PROVE  FlagInv'
BY DEF FlagInv, mainVars

LEMMA FlagProduce ==
    ASSUME TypeOK, FlagInv, NEW c \in Calls, Produce(c)
    PROVE  FlagInv'
<1> USE DEF TypeOK, GoTo, Returns, Inside
<1>1. ASSUME NEW k \in Keys, Enter(c, k) PROVE FlagInv'
  <2>1. CASE isInit
    BY <1>1, <2>1 DEF Enter, FlagInv, mainVars
  <2>2. CASE ~isInit
    BY <1>1, <2>2, QuietFlag DEF Enter
  <2> QED
    BY <2>1, <2>2
<1>2. CASE Reset(c)
  BY <1>2, QuietFlag DEF Reset
<1>3. CASE Send(c)
  BY <1>3, QuietFlag DEF Send
<1>4. CASE SendRefused(c)
  BY <1>4, QuietFlag DEF SendRefused
<1>5. CASE SendDestroyed(c)
  BY <1>5, Faulting DEF SendDestroyed, TopicLives, FlagInv
<1>6. ASSUME NEW p, pc[c] = "choose", Chosen(c, p) PROVE FlagInv'
  BY <1>6, QuietFlag DEF Chosen
<1>7. CASE HashKey(c)
  BY <1>6, <1>7 DEF HashKey, Choosing
<1>8. CASE ChooseDestroyed(c)
  BY <1>8, Faulting DEF ChooseDestroyed, HandleLives, FlagInv
<1>9. ASSUME NEW p \in Partitions, Pick(c, p) PROVE FlagInv'
  BY <1>6, <1>9, QuietFlag DEF Pick, Choosing
<1>10. CASE Poll(c)
  BY <1>10, QuietFlag DEF Poll
<1>11. CASE Serve(c)
  BY <1>11, QuietFlag DEF Serve
<1>12. CASE WaitDestroyed(c)
  BY <1>12, Faulting DEF WaitDestroyed, HandleLives, FlagInv
<1>13. CASE LeaveLoop(c)
  BY <1>13, QuietFlag DEF LeaveLoop, AtLoopHead
<1>14. CASE Return(c)
  BY <1>14, QuietFlag DEF Return
<1>15. CASE ReturnDestroyed(c)
  BY <1>15, Faulting DEF ReturnDestroyed, TopicLives, FlagInv
<1> QED
  BY <1>1, <1>2, <1>3, <1>4, <1>5, <1>7, <1>8, <1>9, <1>10, <1>11, <1>12, <1>13,
     <1>14, <1>15 DEF Produce, Proceeds

LEMMA FlagRest ==
    ASSUME TypeOK, FlagInv, MainThread \/ Broker \/ UNCHANGED vars
    PROVE  FlagInv'
<1>1. CASE Uninit
  BY <1>1 DEF Uninit, FlagInv, Inside, TypeOK
<1>2. CASE DestroyTopic
  BY <1>2 DEF DestroyTopic, FlagInv, Inside
<1>3. CASE DestroyHandle
  BY <1>3 DEF DestroyHandle, FlagInv, Inside
<1>4. CASE FlushServe \/ Done \/ Broker \/ UNCHANGED vars
  <2>1. UNCHANGED <<mainVars, raced, fault, pc>>
    BY <1>4 DEF FlushServe, Done, Broker, Resolve, Available, vars
  <2> QED
    BY <2>1, QuietFlag DEF Inside
<1> QED
  BY <1>1, <1>2, <1>3, <1>4 DEF MainThread

LEMMA FlagAlways == Spec => []FlagInv
<1>1. Init => FlagInv
  BY DEF Init, FlagInv
<1>2. TypeOK /\ FlagInv /\ [Next]_vars => FlagInv'
  BY FlagProduce, FlagRest DEF Next
<1> QED
  BY <1>1, <1>2, TypeCorrect, PTL DEF Spec

\* Whatever threads call produce() and whenever uninit() comes, only a call that
\* was inside then uses the topic or the handle after it is destroyed.
THEOREM FaultsAreRacedAlways == Spec => []FaultsAreRaced
<1>1. FlagInv => FaultsAreRaced
  BY DEF FlagInv, FaultsAreRaced
<1> QED
  BY <1>1, FlagAlways, PTL

-----------------------------------------------------------------------------
(* Where messages go *)

\* A step that leaves the choices alone, or takes its call out of them.
LEMMA QuietChoice ==
    ASSUME ChoiceInv, UNCHANGED <<avail, left, stayed>>,
           \A c \in Calls : pc'[c] = "choose" => pc[c] = "choose"
    PROVE  ChoiceInv'
BY DEF ChoiceInv

LEMMA ChoiceProduce ==
    ASSUME TypeOK, ChoiceInv, NEW c \in Calls, Produce(c)
    PROVE  ChoiceInv'
<1> USE DEF TypeOK, GoTo
<1>1. CASE Send(c)
  BY <1>1 DEF Send, ChoiceInv
<1>2. ASSUME NEW p, Chosen(c, p) PROVE ChoiceInv'
  BY <1>2 DEF Chosen, ChoiceInv
<1>3. CASE HashKey(c)
  BY <1>2, <1>3 DEF HashKey
<1>4. ASSUME NEW p \in Partitions, Pick(c, p) PROVE ChoiceInv'
  <2>1. CASE \E q \in Partitions : Chosen(c, q)
    BY <1>2, <2>1
  <2>2. CASE ~\E q \in Partitions : Chosen(c, q)
    <3>1. /\ p \notin avail
          /\ left' = [left EXCEPT ![c] = @ \ {p}]
          /\ UNCHANGED <<pc, stayed, avail>>
      BY <1>4, <2>2 DEF Pick
    <3> QED
      BY <3>1 DEF ChoiceInv
  <2> QED
    BY <2>1, <2>2
<1>5. CASE \/ \E k \in Keys : Enter(c, k)
           \/ Reset(c) \/ SendRefused(c) \/ SendDestroyed(c) \/ ChooseDestroyed(c)
           \/ Poll(c) \/ Serve(c) \/ WaitDestroyed(c) \/ LeaveLoop(c)
           \/ Return(c) \/ ReturnDestroyed(c)
  <2>1. UNCHANGED <<avail, left, stayed>> /\ pc' \in {pc} \cup
            {[pc EXCEPT ![c] = w] : w \in {"reset", "send", "read", "done"}}
    BY <1>5 DEF Enter, Reset, SendRefused, SendDestroyed, ChooseDestroyed, Poll,
       Serve, WaitDestroyed, LeaveLoop, Return, ReturnDestroyed, Returns, Faults,
       choiceVars
  <2> QED
    BY <2>1, QuietChoice
<1> QED
  BY <1>1, <1>3, <1>4, <1>5 DEF Produce, Proceeds

LEMMA ChoiceRest ==
    ASSUME TypeOK, ChoiceInv, MainThread \/ Broker \/ UNCHANGED vars
    PROVE  ChoiceInv'
<1>1. ASSUME NEW S \in SUBSET Partitions, Available(S) PROVE ChoiceInv'
  BY <1>1 DEF Available, ChoiceInv, TypeOK
<1>2. CASE \/ MainThread \/ UNCHANGED vars
           \/ \E c \in Calls, p \in Partitions, err \in {"ok", "err"} :
                 Resolve(c, p, err)
  <2>1. UNCHANGED <<avail, left, stayed, pc>>
    BY <1>2 DEF MainThread, Uninit, DestroyTopic, FlushServe, DestroyHandle, Done,
       Resolve, vars, choiceVars
  <2> QED
    BY <2>1, QuietChoice
<1> QED
  BY <1>1, <1>2 DEF Broker

LEMMA ChoiceAlways == Spec => []ChoiceInv
<1>1. Init => ChoiceInv
  BY DEF Init, ChoiceInv
<1>2. TypeOK /\ ChoiceInv /\ [Next]_vars => ChoiceInv'
  BY ChoiceProduce, ChoiceRest DEF Next
<1> QED
  BY <1>1, <1>2, TypeCorrect, PTL DEF Spec

RoutedStep ==
    \A c \in Calls, p \in Partitions : <<c, p>> \in queue' \ queue =>
        IF ByKey(c) THEN p \in {0, HashPartition(key[c])}
                    ELSE stayed[c] # {} => p \in avail

\* Only the partitioner queues messages, its own call's.
LEMMA Queueing ==
    ASSUME [Next]_vars, NEW c \in Calls, NEW p \in Partitions,
           <<c, p>> \in queue' \ queue
    PROVE  (HashKey(c) \/ \E q \in Partitions : Pick(c, q)) /\ Chosen(c, p)
<1>1. PICK d \in Calls : Produce(d)
  BY DEF Next, MainThread, Uninit, DestroyTopic, FlushServe, DestroyHandle, Done,
     Broker, Resolve, Available, vars, kafkaVars
<1>2. HashKey(d) \/ \E q \in Partitions : Pick(d, q)
  BY <1>1 DEF Produce, Proceeds, Enter, Reset, Send, SendRefused, SendDestroyed,
     ChooseDestroyed, Poll, Serve, WaitDestroyed, LeaveLoop, Return,
     ReturnDestroyed, Faults, kafkaVars
<1>3. PICK r : Chosen(d, r)
  BY <1>2 DEF HashKey, Pick, kafkaVars
<1>4. d = c /\ r = p
  BY <1>3 DEF Chosen
<1> QED
  BY <1>2, <1>3, <1>4

\* A message without a key goes to an available partition if one has been
\* available throughout the choice; one with a key to that of its hash or to 0.
THEOREM RoutedAlways == Spec => Routed
<1>1. ASSUME ChoiceInv, [Next]_vars PROVE RoutedStep
  <2> SUFFICES ASSUME NEW c \in Calls, NEW p \in Partitions,
                      <<c, p>> \in queue' \ queue
               PROVE  IF ByKey(c) THEN p \in {0, HashPartition(key[c])}
                                  ELSE stayed[c] # {} => p \in avail
    BY DEF RoutedStep
  <2>1. queue' = queue \cup {<<c, p>>}
    BY <1>1, Queueing DEF Chosen
  <2>2. CASE HashKey(c)
    <3>1. PICK q \in {0, HashPartition(key[c])} : Chosen(c, q)
      BY <2>2 DEF HashKey
    <3>2. q = p
      BY <3>1 DEF Chosen
    <3> QED
      BY <2>2, <3>2 DEF HashKey
  <2>3. ASSUME NEW q \in Partitions, Pick(c, q)
        PROVE  ~ByKey(c) /\ (stayed[c] # {} => p \in avail)
    <3>1. CASE q \in avail /\ Chosen(c, q)
      <4>1. q = p
        BY <3>1 DEF Chosen
      <4> QED
        BY <2>3, <3>1, <4>1 DEF Pick
    <3>2. CASE q \notin avail /\ left[c] \subseteq {q}
      <4>1. stayed[c] = {}
        BY <1>1, <2>3, <3>2 DEF Pick, Choosing, ChoiceInv
      <4> QED
        BY <2>3, <4>1 DEF Pick
    <3>3. ~(q \notin avail /\ left[c] \ {q} # {} /\ UNCHANGED kafkaVars)
      BY DEF kafkaVars
    <3> QED
      BY <2>3, <3>1, <3>2, <3>3 DEF Pick
  <2> QED
    BY <1>1, <2>2, <2>3, Queueing
<1>2. ChoiceInv /\ [Next]_vars => [RoutedStep]_vars
  BY <1>1
<1>3. Spec => [][RoutedStep]_vars
  BY <1>2, ChoiceAlways, PTL DEF Spec
<1> QED
  BY <1>3 DEF RoutedStep, Routed

-----------------------------------------------------------------------------
(* What results mean *)

Waits(c) == pc[c] \in {"send", "choose", "wait", "read"}

\* What a call has not used yet.
FreshInv ==
    \A c \in Calls :
        /\ pc[c] \in {"new", "reset"} => heard[c] = {}
        /\ pc[c] \in {"new", "reset", "send", "choose"} => batch[c] = <<>>
        /\ pc[c] # "done" => result[c] = "none"

\* A success in sync_send_err_ was heard by every call that waits.
SuccessInv ==
    \A c \in Calls :
        (Waits(c) /\ syncErr = "ok") \/ result[c] = "true" =>
            \E d \in Calls : <<d, "ok">> \in heard[c]

\* No message waits for the broker and no report for a poll.
NothingAbout == queue = {} /\ reports = <<>>

\* The only message is c's: nobody has heard of it and it is in one place or
\* lost, or c has heard of it.
OnlyOwn(c) ==
    \/ /\ heard[c] = {} /\ syncErr = "init"
       /\ \/ \E p \in Partitions : queue = {<<c, p>>} /\ reports = <<>> /\ batch[c] = <<>>
          \/ \E b \in {"ok", "err"} : queue = {} /\ reports = <<<<c, b>>>> /\ batch[c] = <<>>
          \/ \E b \in {"ok", "err"} : NothingAbout /\ batch[c] = <<<<c, b>>>>
          \/ NothingAbout /\ batch[c] = <<>>
    \/ /\ NothingAbout /\ batch[c] = <<>>
       /\ \E b \in {"ok", "err"} : heard[c] = {<<c, b>>} /\ syncErr = b

\* A call that has had the producer for itself.
ApartInside(c) ==
    /\ Inside = {c}
    /\ pc[c] = "reset" => NothingAbout
    /\ pc[c] \in {"send", "choose"} => NothingAbout /\ heard[c] = {} /\ syncErr = "init"
    /\ pc[c] \in {"wait", "read"} => OnlyOwn(c)

ApartInv ==
    \A c \in Calls : apart[c] =>
        /\ c \in Inside => ApartInside(c)
        /\ result[c] # "none" => (result[c] = "true" <=> <<c, "ok">> \in heard[c])

ResultInv == FreshInv /\ SuccessInv /\ ApartInv

\* A call begins.
LEMMA ResultEnter ==
    ASSUME TypeOK, ResultInv, NEW c \in Calls, NEW k \in Keys, Enter(c, k)
    PROVE  ResultInv'
<1> USE DEF TypeOK, ResultInv
<1>1. /\ pc[c] = "new" /\ heard[c] = {} /\ batch[c] = <<>> /\ result[c] = "none"
      /\ UNCHANGED <<syncErr, batch, queue, reports, heard>>
  BY DEF Enter, FreshInv, kafkaVars
<1>2. /\ \A d \in Calls \ {c} : pc'[d] = pc[d] /\ result'[d] = result[d]
      /\ \/ pc'[c] = "reset" /\ result'[c] = "none"
         \/ pc'[c] = "done" /\ result'[c] = "false"
  BY DEF Enter, GoTo, Returns, FreshInv
<1>3. FreshInv'
  BY <1>1, <1>2 DEF FreshInv
<1>4. SuccessInv'
  BY <1>1, <1>2 DEF SuccessInv, Waits
<1>5. ASSUME NEW d \in Calls, apart'[d]
      PROVE  /\ d \in Inside' => ApartInside(d)'
             /\ result'[d] # "none" => (result'[d] = "true" <=> <<d, "ok">> \in heard'[d])
  <2>1. CASE d = c
    <3>1. Inside = {} /\ NothingAbout
      BY <1>5, <2>1 DEF Enter, NothingAbout
    <3>2. c \in Inside' => Inside' = {c} /\ pc'[c] = "reset"
      BY <1>2, <3>1 DEF Inside
    <3> QED
      BY <1>1, <1>2, <2>1, <3>1, <3>2 DEF ApartInside, NothingAbout
  <2>2. CASE d # c
    BY <1>1, <1>2, <1>5, <2>2 DEF Enter, ApartInv, Inside
  <2> QED
    BY <2>1, <2>2
<1> QED
  BY <1>3, <1>4, <1>5 DEF ApartInv

\* A call's step to a later place, by which it neither resets nor hears anything.
LEMMA ResultLeave ==
    ASSUME TypeOK, ResultInv, NEW c \in Calls, c \in Inside,
           UNCHANGED <<syncErr, batch, queue, reports, heard, apart>>,
           \/ Faults(c) /\ UNCHANGED result
           \/ /\ Returns(c, IF syncErr = "ok" THEN "true" ELSE "false") /\ pc[c] = "read"
           \/ /\ Returns(c, "false") /\ pc[c] = "send"
    PROVE  ResultInv'
<1> USE DEF TypeOK, ResultInv
<1>1. pc' = [pc EXCEPT ![c] = "done"]
  BY DEF Faults, Returns, GoTo
<1>2. \A d \in Calls \ {c} : pc'[d] = pc[d] /\ result'[d] = result[d]
  BY <1>1 DEF Returns
<1>3. \/ result'[c] = "none"
      \/ pc[c] = "read" /\ result'[c] = IF syncErr = "ok" THEN "true" ELSE "false"
      \/ pc[c] = "send" /\ result'[c] = "false"
  BY DEF Returns, Inside, FreshInv
<1>4. FreshInv'
  BY <1>1, <1>2 DEF FreshInv
<1>5. SuccessInv'
  <2>1. result'[c] = "true" => Waits(c) /\ syncErr = "ok"
    BY <1>3 DEF Waits
  <2>2. ~Waits(c)'
    BY <1>1 DEF Waits
  <2>3. \A d \in Calls \ {c} : Waits(d)' => Waits(d)
    BY <1>2 DEF Waits
  <2> QED
    BY <1>2, <2>1, <2>2, <2>3 DEF SuccessInv
<1>6. ASSUME NEW d \in Calls, apart'[d]
      PROVE  /\ d \in Inside' => ApartInside(d)'
             /\ result'[d] # "none" => (result'[d] = "true" <=> <<d, "ok">> \in heard'[d])
  <2>1. CASE d = c
    <3>1. c \notin Inside'
      BY <1>1 DEF Inside
    <3>2. ApartInside(c)
      BY <1>6, <2>1 DEF ApartInv
    <3>3. pc[c] = "read" => (syncErr = "ok" <=> <<c, "ok">> \in heard[c])
      BY <3>2 DEF ApartInside, OnlyOwn
    <3>4. pc[c] = "send" => heard[c] = {}
      BY <3>2 DEF ApartInside
    <3> QED
      BY <1>3, <2>1, <3>1, <3>3, <3>4
  <2>2. CASE d # c
    BY <1>2, <1>6, <2>2 DEF ApartInv, ApartInside, Inside
  <2> QED
    BY <2>1, <2>2
<1> QED
  BY <1>4, <1>5, <1>6 DEF ApartInv

\* What a call that has the producer for itself still has after a step of its
\* own that keeps it inside.
LEMMA ResultOwn ==
    ASSUME TypeOK, ResultInv, NEW c \in Calls, c \in Inside, c \in Inside',
           \A d \in Calls \ {c} : pc'[d] = pc[d] /\ batch'[d] = batch[d],
           UNCHANGED <<result, apart>>, FreshInv', SuccessInv',
           \A d \in Calls \ Inside : heard'[d] = heard[d],
           ApartInside(c) => ApartInside(c)'
    PROVE  ResultInv'
<1> USE DEF ResultInv
<1>1. Inside' = Inside
  BY DEF Inside
<1>2. ASSUME NEW d \in Calls, apart'[d]
      PROVE  /\ d \in Inside' => ApartInside(d)'
             /\ result'[d] # "none" => (result'[d] = "true" <=> <<d, "ok">> \in heard'[d])
  <2>1. CASE d \in Inside
    <3>1. ApartInside(d) /\ d = c
      BY <1>2, <2>1 DEF ApartInv, ApartInside
    <3>2. result[d] = "none"
      BY <2>1 DEF FreshInv, Inside
    <3> QED
      BY <3>1, <3>2
  <2>2. CASE d \notin Inside
    BY <1>1, <1>2, <2>2 DEF ApartInv
  <2> QED
    BY <2>1, <2>2
<1> QED
  BY <1>2 DEF ApartInv

\* A report is served.
LEMMA Reporting ==
    ASSUME TypeOK, ResultInv, NEW report \in Report, Report_(report),
           UNCHANGED <<pc, result>>
    PROVE  /\ SuccessInv'
           /\ \A c \in Calls : ~Waits(c) => heard'[c] = heard[c]
           /\ \A c \in Calls : Waits(c) => heard'[c] = heard[c] \cup {report}
<1>1. \A c \in Calls : heard'[c] = IF Waits(c) THEN heard[c] \cup {report} ELSE heard[c]
  BY DEF Report_, Waits
<1>2. ASSUME NEW c \in Calls, Waits(c) /\ syncErr' = "ok"
      PROVE  \E d \in Calls : <<d, "ok">> \in heard'[c]
  <2>1. PICK d \in Calls, e \in {"ok", "err"} : report = <<d, e>>
    BY DEF Report
  <2>2. report[2] = e
    BY <2>1
  <2> QED
    BY <1>1, <1>2, <2>1, <2>2 DEF Report_
<1>3. ASSUME NEW c \in Calls, result[c] = "true"
      PROVE  \E d \in Calls : <<d, "ok">> \in heard'[c]
  BY <1>1, <1>3 DEF ResultInv, SuccessInv
<1>4. \A c \in Calls : Waits(c)' <=> Waits(c)
  BY DEF Waits
<1> QED
  BY <1>1, <1>2, <1>3, <1>4 DEF SuccessInv

LEMMA ResultProduce ==
    ASSUME TypeOK, ResultInv, NEW c \in Calls, Produce(c)
    PROVE  ResultInv'
<1> USE DEF TypeOK
<1>1. ASSUME NEW k \in Keys, Enter(c, k) PROVE ResultInv'
  BY <1>1, ResultEnter
<1>2. CASE Reset(c)
  <2>1. /\ pc[c] = "reset" /\ pc' = [pc EXCEPT ![c] = "send"] /\ syncErr' = "init"
        /\ heard' = [heard EXCEPT ![c] = {}]
        /\ UNCHANGED <<queue, reports, batch, result, apart>>
    BY <1>2 DEF Reset, GoTo, waitVars, kafkaVars
  <2>2. FreshInv'
    BY <2>1 DEF ResultInv, FreshInv
  <2>3. SuccessInv'
    BY <2>1 DEF ResultInv, SuccessInv, FreshInv
  <2>4. ApartInside(c) => ApartInside(c)'
    BY <2>1 DEF ApartInside, Inside, NothingAbout
  <2> QED
    BY <2>1, <2>2, <2>3, <2>4, ResultOwn DEF Inside
<1>3. CASE Send(c)
  <2>1. /\ pc[c] = "send" /\ pc' = [pc EXCEPT ![c] = "choose"]
        /\ UNCHANGED <<syncErr, queue, reports, batch, result, heard, apart>>
    BY <1>3 DEF Send, GoTo, waitVars, kafkaVars
  <2>2. FreshInv' /\ SuccessInv'
    BY <2>1 DEF ResultInv, FreshInv, SuccessInv, Waits
  <2>3. ApartInside(c) => ApartInside(c)'
    BY <2>1 DEF ApartInside, Inside, NothingAbout
  <2> QED
    BY <2>1, <2>2, <2>3, ResultOwn DEF Inside
<1>4. ASSUME NEW p \in Partitions, pc[c] = "choose", Chosen(c, p) PROVE ResultInv'
  <2>1. /\ pc' = [pc EXCEPT ![c] = "wait"] /\ queue' = queue \cup {<<c, p>>}
        /\ UNCHANGED <<syncErr, reports, batch, result, heard, apart>>
    BY <1>4 DEF Chosen, GoTo, waitVars
  <2>2. FreshInv' /\ SuccessInv'
    BY <1>4, <2>1 DEF ResultInv, FreshInv, SuccessInv, Waits
  <2>3. ApartInside(c) => ApartInside(c)'
    <3>1. batch[c] = <<>>
      BY <1>4 DEF ResultInv, FreshInv
    <3> QED
      BY <1>4, <2>1, <3>1 DEF ApartInside, Inside, NothingAbout, OnlyOwn
  <2> QED
    BY <1>4, <2>1, <2>2, <2>3, ResultOwn DEF Inside
<1>5. CASE HashKey(c)
  <2>1. 0 \in Partitions
    BY CallsAssumption DEF Partitions
  <2> QED
    BY <1>4, <1>5, <2>1 DEF HashKey, Choosing
<1>6. ASSUME NEW p \in Partitions, Pick(c, p) PROVE ResultInv'
  <2>1. CASE \E q \in Partitions : Chosen(c, q)
    BY <1>4, <1>6, <2>1 DEF Pick, Choosing
  <2>2. CASE ~\E q \in Partitions : Chosen(c, q)
    <3>1. /\ UNCHANGED <<pc, syncErr, queue, reports, batch, result, heard, apart>>
          /\ c \in Inside
      BY <1>6, <2>2 DEF Pick, Choosing, Inside, waitVars, kafkaVars
    <3> QED
      BY <3>1, ResultOwn DEF ResultInv, FreshInv, SuccessInv, Waits, Inside,
         ApartInside, NothingAbout, OnlyOwn
  <2> QED
    BY <2>1, <2>2
<1>7. CASE Poll(c)
  <2>1. /\ pc[c] = "wait" /\ batch[c] = <<>> /\ syncErr = "init"
        /\ batch' = [batch EXCEPT ![c] = reports] /\ reports' = <<>>
        /\ UNCHANGED <<pc, syncErr, queue, result, heard, apart>>
    BY <1>7 DEF Poll, AtLoopHead, WaitIsOver
  <2>2. FreshInv' /\ SuccessInv'
    BY <2>1 DEF ResultInv, FreshInv, SuccessInv, Waits
  <2>3. ApartInside(c) => ApartInside(c)'
    BY <2>1 DEF ApartInside, Inside, NothingAbout, OnlyOwn
  <2> QED
    BY <2>1, <2>2, <2>3, ResultOwn DEF Inside
<1>8. CASE Serve(c)
  <2>1. /\ pc[c] = "wait" /\ batch[c] # <<>> /\ Report_(Head(batch[c]))
        /\ batch' = [batch EXCEPT ![c] = Tail(@)]
        /\ UNCHANGED <<pc, queue, reports, result, apart>>
    BY <1>8 DEF Serve, kafkaVars
  <2>2. Head(batch[c]) \in Report
    BY <2>1
  <2>3. /\ SuccessInv'
        /\ \A d \in Calls : ~Waits(d) => heard'[d] = heard[d]
        /\ heard'[c] = heard[c] \cup {Head(batch[c])}
    BY <2>1, <2>2, Reporting DEF Waits
  <2>4. FreshInv'
    BY <2>1, <2>3 DEF ResultInv, FreshInv, Waits
  <2>5. ApartInside(c) => ApartInside(c)'
    <3> SUFFICES ASSUME ApartInside(c) PROVE ApartInside(c)'
      OBVIOUS
    <3>1. PICK b \in {"ok", "err"} : batch[c] = <<<<c, b>>>>
      BY <2>1 DEF ApartInside, OnlyOwn
    <3>2. NothingAbout /\ heard[c] = {}
      BY <2>1, <3>1 DEF ApartInside, OnlyOwn
    <3>3. Head(batch[c]) = <<c, b>> /\ Tail(batch[c]) = <<>>
      BY <3>1
    <3>4. heard'[c] = {<<c, b>>}
      BY <2>3, <3>2, <3>3
    <3>5. syncErr' = b
      BY <2>1, <3>3 DEF Report_
    <3>6. batch'[c] = <<>>
      BY <2>1, <3>3
    <3> QED
      BY <2>1, <3>2, <3>4, <3>5, <3>6 DEF ApartInside, Inside, NothingAbout, OnlyOwn
  <2> QED
    BY <2>1, <2>3, <2>4, <2>5, ResultOwn DEF Inside, Waits
<1>9. CASE LeaveLoop(c)
  <2>1. /\ pc[c] = "wait" /\ pc' = [pc EXCEPT ![c] = "read"]
        /\ UNCHANGED <<syncErr, queue, reports, batch, result, heard, apart>>
    BY <1>9 DEF LeaveLoop, AtLoopHead, GoTo, waitVars, kafkaVars
  <2>2. FreshInv' /\ SuccessInv'
    BY <2>1 DEF ResultInv, FreshInv, SuccessInv, Waits
  <2>3. ApartInside(c) => ApartInside(c)'
    BY <2>1 DEF ApartInside, Inside, NothingAbout, OnlyOwn
  <2> QED
    BY <2>1, <2>2, <2>3, ResultOwn DEF Inside
<1>10. CASE SendRefused(c)
  BY <1>10, ResultLeave DEF SendRefused, Inside, kafkaVars
<1>11. CASE Return(c)
  BY <1>11, ResultLeave DEF Return, Inside, kafkaVars
<1>12. CASE SendDestroyed(c) \/ ChooseDestroyed(c) \/ WaitDestroyed(c) \/ ReturnDestroyed(c)
  <2>1. Faults(c) /\ c \in Inside
    BY <1>12 DEF SendDestroyed, ChooseDestroyed, WaitDestroyed, ReturnDestroyed, Inside
  <2> QED
    BY <2>1, ResultLeave DEF Faults, waitVars, kafkaVars
<1> QED
  BY <1>1, <1>2, <1>3, <1>5, <1>6, <1>7, <1>8, <1>9, <1>10, <1>11, <1>12
  DEF Produce, Proceeds

\* What a call that has the producer for itself has after a step outside calls.
LEMMA ResultOutside ==
    ASSUME TypeOK, ResultInv, UNCHANGED <<pc, result, apart>>,
           FreshInv', SuccessInv',
           \A c \in Calls \ Inside : heard'[c] = heard[c],
           \A c \in Calls : ApartInside(c) => ApartInside(c)'
    PROVE  ResultInv'
<1>1. Inside' = Inside
  BY DEF Inside
<1>2. ASSUME NEW c \in Calls, apart'[c]
      PROVE  /\ c \in Inside' => ApartInside(c)'
             /\ result'[c] # "none" => (result'[c] = "true" <=> <<c, "ok">> \in heard'[c])
  <2>1. CASE c \in Inside
    <3>1. ApartInside(c)
      BY <1>2, <2>1 DEF ResultInv, ApartInv
    <3>2. result[c] = "none"
      BY <2>1 DEF ResultInv, FreshInv, Inside
    <3> QED
      BY <3>1, <3>2
  <2>2. CASE c \notin Inside
    BY <1>1, <1>2, <2>2 DEF ResultInv, ApartInv
  <2> QED
    BY <2>1, <2>2
<1> QED
  BY <1>2 DEF ApartInv, ResultInv

LEMMA QuietResult ==
    ASSUME TypeOK, ResultInv,
           UNCHANGED <<pc, syncErr, queue, reports, batch, result, heard, apart>>
    PROVE  ResultInv'
<1>1. FreshInv' /\ SuccessInv'
  BY DEF ResultInv, FreshInv, SuccessInv, Waits
<1>2. ASSUME NEW c \in Calls, ApartInside(c) PROVE ApartInside(c)'
  BY <1>2 DEF ApartInside, Inside, NothingAbout, OnlyOwn
<1> QED
  BY <1>1, <1>2, ResultOutside

LEMMA ResultMain ==
    ASSUME TypeOK, ResultInv, MainThread
    PROVE  ResultInv'
<1> USE DEF TypeOK
<1>1. CASE Uninit \/ DestroyTopic \/ Done
  BY <1>1, QuietResult DEF Uninit, DestroyTopic, Done, vars, waitVars, kafkaVars
<1>2. CASE FlushServe
  <2>1. /\ reports # <<>> /\ Report_(Head(reports)) /\ reports' = Tail(reports)
        /\ UNCHANGED <<pc, queue, batch, result, apart>>
    BY <1>2 DEF FlushServe, waitVars
  <2>2. Head(reports) \in Report
    BY <2>1
  <2>3. /\ SuccessInv'
        /\ \A c \in Calls : ~Waits(c) => heard'[c] = heard[c]
        /\ \A c \in Calls : Waits(c) => heard'[c] = heard[c] \cup {Head(reports)}
    BY <2>1, <2>2, Reporting
  <2>4. FreshInv'
    BY <2>1, <2>3 DEF ResultInv, FreshInv, Waits
  <2>5. ASSUME NEW c \in Calls, ApartInside(c) PROVE ApartInside(c)'
    <3>1. Inside = {c} /\ pc[c] \in {"wait", "read"} /\ OnlyOwn(c)
      BY <2>1, <2>5 DEF ApartInside, NothingAbout, Inside
    <3>2. PICK b \in {"ok", "err"} : reports = <<<<c, b>>>>
      BY <2>1, <3>1 DEF OnlyOwn, NothingAbout
    <3>3. heard[c] = {} /\ queue = {} /\ batch[c] = <<>>
      BY <3>1, <3>2 DEF OnlyOwn, NothingAbout
    <3>4. Head(reports) = <<c, b>> /\ Tail(reports) = <<>>
      BY <3>2
    <3>5. heard'[c] = {<<c, b>>}
      BY <2>3, <3>1, <3>3, <3>4 DEF Waits
    <3>6. syncErr' = b
      BY <2>1, <3>4 DEF Report_
    <3> QED
      BY <2>1, <3>1, <3>3, <3>4, <3>5, <3>6 DEF ApartInside, Inside, NothingAbout, OnlyOwn
  <2> QED
    BY <2>1, <2>3, <2>4, <2>5, ResultOutside DEF Inside, Waits
<1>3. CASE DestroyHandle
  <2>1. /\ queue' = {} /\ reports' = <<>>
        /\ UNCHANGED <<pc, syncErr, batch, result, heard, apart>>
    BY <1>3 DEF DestroyHandle, waitVars
  <2>2. FreshInv' /\ SuccessInv'
    BY <2>1 DEF ResultInv, FreshInv, SuccessInv, Waits
  <2>3. ASSUME NEW c \in Calls, ApartInside(c) PROVE ApartInside(c)'
    BY <2>1, <2>3 DEF ApartInside, Inside, NothingAbout, OnlyOwn
  <2> QED
    BY <2>1, <2>2, <2>3, ResultOutside
<1> QED
  BY <1>1, <1>2, <1>3 DEF MainThread

LEMMA ResultBroker ==
    ASSUME TypeOK, ResultInv, Broker
    PROVE  ResultInv'
<1> USE DEF TypeOK
<1>1. ASSUME NEW d \in Calls, NEW p \in Partitions, NEW e \in {"ok", "err"},
             Resolve(d, p, e)
      PROVE  ResultInv'
  <2>1. /\ <<d, p>> \in queue /\ queue' = queue \ {<<d, p>>}
        /\ reports' = Append(reports, <<d, e>>)
        /\ UNCHANGED <<pc, syncErr, batch, result, heard, apart>>
    BY <1>1 DEF Resolve, waitVars
  <2>2. FreshInv' /\ SuccessInv'
    BY <2>1 DEF ResultInv, FreshInv, SuccessInv, Waits
  <2>3. ASSUME NEW c \in Calls, ApartInside(c) PROVE ApartInside(c)'
    <3>1. Inside = {c} /\ pc[c] \in {"wait", "read"} /\ OnlyOwn(c)
      BY <2>1, <2>3 DEF ApartInside, NothingAbout, Inside
    <3>2. PICK q \in Partitions : queue = {<<c, q>>}
      BY <2>1, <3>1 DEF OnlyOwn, NothingAbout
    <3>3. heard[c] = {} /\ syncErr = "init" /\ reports = <<>> /\ batch[c] = <<>>
      BY <3>1, <3>2 DEF OnlyOwn, NothingAbout
    <3>4. d = c /\ queue' = {}
      BY <2>1, <3>2
    <3>5. reports' = <<<<c, e>>>>
      BY <2>1, <3>3, <3>4
    <3> QED
      BY <2>1, <3>1, <3>3, <3>4, <3>5 DEF ApartInside, Inside, NothingAbout, OnlyOwn
  <2> QED
    BY <2>1, <2>2, <2>3, ResultOutside
<1>2. ASSUME NEW S \in SUBSET Partitions, Available(S) PROVE ResultInv'
  BY <1>2, QuietResult DEF Available, waitVars, kafkaVars
<1> QED
  BY <1>1, <1>2 DEF Broker

\* A result that is true was reported while the call ran, and the result of a
\* call that has the producer for itself is what was reported of its message.
THEOREM ResultsAreHeardAlways == Spec => []ResultsAreHeard
<1>1. Init => ResultInv
  BY DEF Init, ResultInv, FreshInv, SuccessInv, ApartInv, Waits, Inside
<1>2. TypeOK /\ ResultInv /\ [Next]_vars => ResultInv'
  <2>1. CASE UNCHANGED vars
    BY <2>1, QuietResult DEF vars, waitVars, kafkaVars
  <2> QED
    BY <2>1, ResultProduce, ResultMain, ResultBroker DEF Next
<1>3. ResultInv => ResultsAreHeard
  BY DEF ResultInv, SuccessInv, ApartInv, ResultsAreHeard
<1> QED
  BY <1>1, <1>2, <1>3, TypeCorrect, PTL DEF Spec

=============================================================================
