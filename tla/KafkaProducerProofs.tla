------------------------ MODULE KafkaProducerProofs ------------------------
(***************************************************************************)
(* Proofs about KafkaProducer for any messages, queue and numbers of polls  *)
(* and failures.  What carries them is that librdkafka has one copy of a    *)
(* message at a time, wherever it is.                                       *)
(***************************************************************************)
EXTENDS KafkaProducer, SequenceLemmas

-----------------------------------------------------------------------------
(* Types *)

LEMMA CappedType ==
    ASSUME NEW n \in Nat, NEW max \in Nat
    PROVE  Capped(n, max) \in Nat
BY DEF Capped

LEMMA StepType ==
    ASSUME TypeOK, [Next]_vars
    PROVE  TypeOK'
<1> USE DEF TypeOK, callVars, kafkaVars, historyVars
<1>1. CASE Initialise
  BY <1>1 DEF Initialise
<1>2. CASE Uninit
  BY <1>2 DEF Uninit
<1>3. CASE UNCHANGED vars
  BY <1>3 DEF vars
<1>4. ASSUME NEW m \in Msgs, ProduceRefused(m)
      PROVE  TypeOK'
  BY <1>4 DEF ProduceRefused
<1>5. ASSUME NEW m \in Msgs, ProduceFull(m)
      PROVE  TypeOK'
  BY <1>5 DEF ProduceFull
<1>6. ASSUME NEW m \in Msgs, Produce(m)
      PROVE  TypeOK'
  <2>1. queue' \in Seq(Msgs)
    BY <1>6, AppendHolds DEF Produce
  <2>2. reports' \in Seq(Report) /\ batch' \in Seq(Report)
    BY <1>6, EmptyHolds DEF Produce
  <2>3. 0 \in 0 .. MaxPolls
    BY ProducerAssumption
  <2> QED
    BY <1>6, <2>1, <2>2, <2>3 DEF Produce
<1>7. CASE SyncPoll
  BY <1>7, ProducerAssumption DEF SyncPoll
<1>8. CASE SyncDone
  <2>1. late' \in BOOLEAN
    BY <1>8 DEF SyncDone
  <2> QED
    BY <1>8, <2>1 DEF SyncDone
<1>9. CASE ServeReport
  <2>1. batch' \in Seq(Report) /\ Head(batch) \in Report
    BY <1>9, TailHolds DEF ServeReport
  <2>2. Head(batch)[1] \in Msgs /\ Head(batch)[2] \in BOOLEAN
    BY <2>1 DEF Report
  <2>3. queue' \in Seq(Msgs)
    <3>1. Append(queue, Head(batch)[1]) \in Seq(Msgs)
      BY <2>2, AppendHolds
    <3>2. queue' = Append(queue, Head(batch)[1]) \/ queue' = queue
      BY <1>9 DEF ServeReport
    <3> QED
      BY <3>1, <3>2
  <2>4. syncErr' \in {"ok", "err", "init"} /\ lost' \subseteq Msgs /\ recorded' \subseteq Msgs
    BY <1>9, <2>2 DEF ServeReport
  <2> QED
    BY <1>9, <2>1, <2>3, <2>4 DEF ServeReport
<1>10. CASE PollReturn
  BY <1>10 DEF PollReturn
<1>11. CASE FlushPoll
  BY <1>11 DEF FlushPoll
<1>12. CASE Destroy /\ pc = "flushing"
  <2>1. queue' \in Seq(Msgs) /\ reports' \in Seq(Report)
    BY <1>12 DEF Destroy
  <2> QED
    BY <1>12, <2>1 DEF Destroy
<1>13. ASSUME NEW i \in DOMAIN queue, Deliver(i) \/ Fail(i)
       PROVE  TypeOK'
  <2>1. queue[i] \in Msgs /\ queue' \in Seq(Msgs)
    <3>1. queue[i] \in Msgs /\ RemoveAt(queue, i) \in Seq(Msgs)
      BY RemoveHolds
    <3>2. queue' = RemoveAt(queue, i)
      BY <1>13 DEF Deliver, Fail, Resolve
    <3> QED
      BY <3>1, <3>2
  <2>2. reports' \in Seq(Report)
    <3>1. <<queue[i], TRUE>> \in Report /\ <<queue[i], FALSE>> \in Report
      BY <2>1 DEF Report
    <3>2. /\ Append(reports, <<queue[i], TRUE>>) \in Seq(Report)
          /\ Append(reports, <<queue[i], FALSE>>) \in Seq(Report)
      BY <3>1, AppendHolds
    <3>3. \/ reports' = Append(reports, <<queue[i], TRUE>>)
          \/ reports' = Append(reports, <<queue[i], FALSE>>)
      BY <1>13 DEF Deliver, Fail, Resolve
    <3> QED
      BY <3>2, <3>3
  <2>3. log' \in [Msgs -> Nat]
    <3>1. Capped(log[queue[i]], MaxFails + 1) \in Nat
      <4>1. MaxFails + 1 \in Nat /\ log[queue[i]] \in Nat
        BY <2>1, ProducerAssumption
      <4> QED
        BY <4>1, CappedType
    <3>2. \/ log' = [log EXCEPT ![queue[i]] = Capped(log[queue[i]], MaxFails + 1)]
          \/ log' = log
      BY <1>13 DEF Deliver, Fail, Written
    <3> QED
      BY <2>1, <3>1, <3>2
  <2>4. fails' \in [Msgs -> Nat]
    <3>1. Capped(fails[queue[i]], MaxFails) \in Nat
      BY <2>1, CappedType, ProducerAssumption
    <3> QED
      BY <1>13, <2>1, <3>1 DEF Deliver, Fail
  <2> QED
    BY <1>13, <2>1, <2>2, <2>3, <2>4 DEF Deliver, Fail, Resolve
<1> QED
  BY <1>1, <1>2, <1>3, <1>4, <1>5, <1>6, <1>7, <1>8, <1>9, <1>10, <1>11, <1>12, <1>13
  DEF Next, Application, InsideCall, Broker, FlushDone, FlushTimeout, Done

\* Every variable has its type: in particular what waits in librdkafka are
\* messages the application produced.
THEOREM TypeCorrect == Spec => []TypeOK
<1>1. Init => TypeOK
  <2> SUFFICES ASSUME Init PROVE TypeOK
    OBVIOUS
  <2>1. queue \in Seq(Msgs) /\ reports \in Seq(Report) /\ batch \in Seq(Report)
    BY EmptyHolds DEF Init
  <2>2. polls \in 0 .. MaxPolls
    BY ProducerAssumption DEF Init
  <2>3. sync \in BOOLEAN /\ record \in BOOLEAN
    BY ProducerAssumption DEF Init, Configured
  <2> QED
    BY <2>1, <2>2, <2>3 DEF Init, TypeOK
<1>2. TypeOK /\ [Next]_vars => TypeOK'
  BY StepType
<1> QED
  BY <1>1, <1>2, PTL DEF Spec

-----------------------------------------------------------------------------
(* One copy of a message *)

QS == Range(queue)
RS == Range(Firsts(reports))
BS == Range(Firsts(batch))
\* The reports that were not served yet.
Unserved == Range(reports) \cup Range(batch)

\* Where the application thread is, and what it has in its hands there.
CallInv ==
    /\ pc # "serving" => batch = <<>>
    /\ isInit => pc \in {"ready", "syncPoll", "serving"}
    /\ current # <<>> <=> isInit /\ pc \in {"syncPoll", "serving"}
    /\ pc = "syncPoll" => sync /\ isInit

\* librdkafka has a message once, in one of the three places.
CopiesInv ==
    /\ Distinct(queue) /\ Distinct(Firsts(reports)) /\ Distinct(Firsts(batch))
    /\ QS \cap RS = {} /\ QS \cap BS = {} /\ RS \cap BS = {}

\* What librdkafka has it took from produce(), which takes a message once.
TakenInv ==
    /\ InFlight \subseteq taken
    /\ \A m \in taken : \/ current = <<m>>
                        \/ verdict[m] = "true"
                        \/ sync /\ verdict[m] # "none"

\* A message of which the last attempt did not succeed, or is under way.
Open(m) == m \notin taken \/ m \in QS \/ <<m, TRUE>> \in Unserved

\* Each write but one was answered by a failure; fails counts up to MaxFails.
LogInv ==
    \A m \in Msgs :
        /\ fails[m] <= MaxFails /\ log[m] <= MaxFails + 1
        /\ log[m] <= fails[m] + 1
        /\ Open(m) => log[m] <= fails[m] \/ fails[m] = MaxFails

\* A report tells the truth about its message.
ReportInv ==
    \A r \in Unserved : IF r[2] THEN MaxFails > 0 => fails[r[1]] > 0
                                ELSE log[r[1]] > 0

\* While no synchronous send has given up, librdkafka has at most the message
\* that is being sent, and sync_send_err_ is about that message.
SyncInv ==
    sync /\ ~late =>
        /\ \A m \in InFlight : current = <<m>> /\ syncErr = "init"
        /\ \A m \in Msgs : current = <<m>> =>
              /\ verdict[m] = "none"
              /\ \/ syncErr = "init" /\ m \in InFlight
                 \/ syncErr = "ok" /\ log[m] > 0
                 \/ syncErr = "err" /\ (MaxFails > 0 => fails[m] > 0)
        /\ \A m \in Msgs : verdict[m] = "true" => log[m] > 0
        /\ \A m \in Msgs : verdict[m] = "false" /\ MaxFails > 0 /\ m \in taken =>
              fails[m] > 0

ProducerInv ==
    TypeOK /\ CallInv /\ CopiesInv /\ TakenInv /\ LogInv /\ ReportInv
           /\ NothingVanishes /\ SyncInv

-----------------------------------------------------------------------------
(* What the steps do to the three places *)

LEMMA PlacesHold ==
    ASSUME NEW q \in Seq(Msgs), NEW r \in Seq(Report), NEW b \in Seq(Report)
    PROVE  /\ Range(q \o Firsts(r) \o Firsts(b))
                = Range(q) \cup Range(Firsts(r)) \cup Range(Firsts(b))
           /\ Range(q) \subseteq Msgs
           /\ Range(r) \subseteq Report /\ Range(b) \subseteq Report
           /\ \A x \in Range(r) : x[1] \in Range(Firsts(r))
           /\ \A x \in Range(b) : x[1] \in Range(Firsts(b))
           /\ Range(Firsts(r)) \cup Range(Firsts(b)) \subseteq Msgs
<1>1. Firsts(r) \in Seq(Msgs) /\ Firsts(b) \in Seq(Msgs)
  BY FirstsHold DEF Report
<1> DEFINE u == Firsts(r)
<1> DEFINE v == Firsts(b)
<1> HIDE DEF u, v
<1>2. u \in Seq(Msgs) /\ v \in Seq(Msgs)
  BY <1>1 DEF u, v
<1>3. Range(q \o u \o v) = Range(q) \cup Range(u) \cup Range(v)
  <2> DEFINE w == q \o u
  <2>1. w \in Seq(Msgs)
    BY <1>2, ConcatProperties
  <2>2. Range(w) = Range(q) \cup Range(u)
    BY <1>2, RangeConcatenation
  <2> HIDE DEF w
  <2>3. Range(w \o v) = Range(w) \cup Range(v)
    BY <1>2, <2>1, RangeConcatenation
  <2> QED
    BY <2>2, <2>3 DEF w
<1>4. Range(q) \subseteq Msgs /\ Range(r) \subseteq Report /\ Range(b) \subseteq Report
  BY DEF Range
<1>5. /\ \A x \in Range(r) : x[1] \in Range(Firsts(r))
      /\ \A x \in Range(b) : x[1] \in Range(Firsts(b))
  BY DEF Range, Firsts
<1>6. Range(Firsts(r)) \subseteq Msgs /\ Range(Firsts(b)) \subseteq Msgs
  BY <1>1 DEF Range
<1> QED
  BY <1>3, <1>4, <1>5, <1>6 DEF u, v

\* What is in librdkafka, by place, before and after a step.
LEMMA Places ==
    ASSUME TypeOK
    PROVE  /\ InFlight = QS \cup RS \cup BS
           /\ InFlight \subseteq Msgs /\ Unserved \subseteq Report
           /\ \A r \in Unserved : r[1] \in RS \cup BS
<1>1. queue \in Seq(Msgs) /\ reports \in Seq(Report) /\ batch \in Seq(Report)
  BY DEF TypeOK
<1>2. InFlight = QS \cup RS \cup BS
  <2>1. Copies = queue \o Firsts(reports) \o Firsts(batch)
    BY DEF Copies, Firsts
  <2> QED
    BY <1>1, <2>1, PlacesHold DEF InFlight, QS, RS, BS
<1>3. QS \subseteq Msgs /\ RS \cup BS \subseteq Msgs
  BY <1>1, PlacesHold DEF QS, RS, BS
<1>4. Range(reports) \subseteq Report /\ \A r \in Range(reports) : r[1] \in RS
  BY <1>1, PlacesHold DEF RS
<1>5. Range(batch) \subseteq Report /\ \A r \in Range(batch) : r[1] \in BS
  BY <1>1, PlacesHold DEF BS
<1> QED
  BY <1>2, <1>3, <1>4, <1>5 DEF Unserved

LEMMA PlacesNext ==
    ASSUME TypeOK'
    PROVE  InFlight' = QS' \cup RS' \cup BS'
<1>1. queue' \in Seq(Msgs) /\ reports' \in Seq(Report) /\ batch' \in Seq(Report)
  BY DEF TypeOK
<1>2. Copies' = queue' \o Firsts(reports') \o Firsts(batch')
  BY DEF Copies, Firsts
<1> QED
  BY <1>1, <1>2, PlacesHold DEF InFlight, QS, RS, BS

LEMMA StayEffect ==
    ASSUME UNCHANGED kafkaVars
    PROVE  /\ QS' = QS /\ RS' = RS /\ BS' = BS /\ Unserved' = Unserved
           /\ InFlight' = InFlight /\ (CopiesInv => CopiesInv')
<1>1. queue' = queue /\ reports' = reports /\ batch' = batch
  BY DEF kafkaVars
<1>2. QS' = QS /\ RS' = RS /\ BS' = BS /\ Unserved' = Unserved
  BY <1>1 DEF QS, RS, BS, Unserved
<1>3. InFlight' = InFlight
  BY <1>1 DEF InFlight, Copies
<1>4. CopiesInv => CopiesInv'
  BY <1>1, <1>2 DEF CopiesInv
<1> QED
  BY <1>2, <1>3, <1>4

\* A poll takes the reports there are.
LEMMA PollEffect ==
    ASSUME TypeOK, TypeOK', batch = <<>>, batch' = reports, reports' = <<>>, queue' = queue
    PROVE  /\ QS' = QS /\ RS' \cup BS' = RS \cup BS /\ Unserved' = Unserved
           /\ InFlight' = InFlight /\ (CopiesInv => CopiesInv')
<1>1. QS' = QS /\ RS' = {} /\ BS = {} /\ BS' = RS
  BY EmptyHolds DEF QS, RS, BS
<1>2. Unserved' = Unserved
  BY EmptyHolds DEF Unserved
<1>3. InFlight' = InFlight
  BY <1>1, Places, PlacesNext
<1>4. CopiesInv => CopiesInv'
  <2>1. Distinct(Firsts(reports))' /\ Distinct(Firsts(batch'))
           <=> Distinct(Firsts(reports))
    BY EmptyHolds
  <2> QED
    BY <1>1, <2>1 DEF CopiesInv
<1> QED
  BY <1>1, <1>2, <1>3, <1>4

LEMMA ProduceEffect ==
    ASSUME TypeOK, TypeOK', CallInv, NEW m \in Msgs, Produce(m)
    PROVE  /\ QS' = QS \cup {m} /\ RS' \cup BS' = RS \cup BS /\ Unserved' = Unserved
           /\ InFlight' = InFlight \cup {m}
           /\ CopiesInv /\ m \notin InFlight => CopiesInv'
<1>1. /\ QS' = QS \cup {m}
      /\ Distinct(queue) /\ m \notin QS => Distinct(queue')
  BY AppendHolds DEF Produce, QS, TypeOK
<1>2. batch = <<>>
  BY DEF Produce, MayProduce, CallInv
<1>3. \/ reports' = reports /\ batch' = batch
      \/ reports' = <<>> /\ batch' = reports
  BY DEF Produce
<1>4. /\ RS' \cup BS' = RS \cup BS /\ Unserved' = Unserved
      /\ Distinct(Firsts(reports)) /\ Distinct(Firsts(batch))
            => Distinct(Firsts(reports')) /\ Distinct(Firsts(batch'))
      /\ BS = {} /\ (RS' = {} \/ BS' = {})
  <2>1. BS = {} /\ Range(batch) = {}
    BY <1>2, EmptyHolds DEF BS
  <2>2. CASE reports' = reports /\ batch' = batch
    BY <2>1, <2>2 DEF RS, BS, Unserved
  <2>3. CASE reports' = <<>> /\ batch' = reports
    BY <2>1, <2>3, EmptyHolds DEF RS, BS, Unserved
  <2> QED
    BY <1>3, <2>2, <2>3
<1>5. InFlight' = InFlight \cup {m}
  BY <1>1, <1>4, Places, PlacesNext
<1>6. CopiesInv /\ m \notin InFlight => CopiesInv'
  BY <1>1, <1>4, Places DEF CopiesInv
<1> QED
  BY <1>1, <1>4, <1>5, <1>6

LEMMA ServeEffect ==
    ASSUME TypeOK, TypeOK', CopiesInv, ServeReport
    PROVE  LET r == Head(batch)
           IN  /\ r \in Report /\ r \in Unserved /\ r[1] \in InFlight
               /\ Unserved' \subseteq Unserved
               /\ \/ /\ Resends(r[2]) /\ QS' = QS \cup {r[1]}
                     /\ InFlight' = InFlight
                  \/ /\ QS' = QS
                     /\ InFlight' = InFlight \ {r[1]}
               /\ CopiesInv'
<1> DEFINE r == Head(batch)
<1>1. batch # <<>> /\ batch' = Tail(batch) /\ reports' = reports
  BY DEF ServeReport
<1>2. r \in Report /\ Range(batch) = Range(batch') \cup {r}
  BY <1>1, TailHolds DEF TypeOK
<1>3. r[1] \in Msgs /\ r \in Unserved /\ Unserved' \subseteq Unserved
  BY <1>1, <1>2 DEF Report, Unserved
<1>4. /\ BS = BS' \cup {r[1]} /\ r[1] \notin BS' /\ Distinct(Firsts(batch'))
  <2>1. batch \in Seq(Msgs \X BOOLEAN)
    BY DEF TypeOK, Report
  <2>2. /\ Firsts(batch) \in Seq(Msgs) /\ Firsts(batch) # <<>>
        /\ Firsts(batch') = Tail(Firsts(batch)) /\ Head(Firsts(batch)) = r[1]
    BY <2>1, <1>1, FirstsHold
  <2>3. Distinct(Firsts(batch))
    BY DEF CopiesInv
  <2> QED
    BY <2>2, <2>3, TailHolds DEF BS
<1>5. RS' = RS
  BY <1>1 DEF RS
<1>6. \/ Resends(r[2]) /\ queue' = Append(queue, r[1])
      \/ queue' = queue
  BY DEF ServeReport
<1>7. r[1] \notin QS /\ r[1] \notin RS
  BY <1>4 DEF CopiesInv
<1>8. CASE Resends(r[2]) /\ queue' = Append(queue, r[1])
  <2>1. QS' = QS \cup {r[1]} /\ Distinct(queue')
    BY <1>3, <1>7, <1>8, AppendHolds DEF QS, TypeOK, CopiesInv
  <2>2. InFlight' = InFlight
    BY <1>4, <1>5, <2>1, Places, PlacesNext
  <2>3. CopiesInv'
    BY <1>1, <1>4, <1>5, <1>7, <2>1 DEF CopiesInv
  <2> QED
    BY <1>2, <1>3, <1>4, <1>8, <2>1, <2>2, <2>3, Places
<1>9. CASE queue' = queue
  <2>1. QS' = QS /\ Distinct(queue')
    BY <1>9 DEF QS, CopiesInv
  <2>2. InFlight' = InFlight \ {r[1]}
    BY <1>4, <1>5, <1>7, <2>1, Places, PlacesNext
  <2>3. CopiesInv'
    BY <1>1, <1>4, <1>5, <1>7, <2>1 DEF CopiesInv
  <2> QED
    BY <1>2, <1>3, <1>4, <2>1, <2>2, <2>3, Places
<1> QED
  BY <1>6, <1>8, <1>9

LEMMA ResolveEffect ==
    ASSUME TypeOK, TypeOK', CopiesInv, NEW i \in DOMAIN queue, NEW failed \in BOOLEAN,
           Resolve(i, failed)
    PROVE  LET m == queue[i]
           IN  /\ m \in Msgs /\ m \in QS
               /\ QS' = QS \ {m} /\ Unserved' = Unserved \cup {<<m, failed>>}
               /\ InFlight' = InFlight
               /\ CopiesInv'
<1> DEFINE m == queue[i]
<1>1. /\ queue' = RemoveAt(queue, i) /\ batch' = batch
      /\ reports' = Append(reports, <<m, failed>>)
  BY DEF Resolve, kafkaVars
<1>2. m \in Msgs /\ m \in QS /\ QS' = QS \ {m} /\ Distinct(queue')
  <2>1. queue \in Seq(Msgs) /\ Distinct(queue)
    BY DEF TypeOK, CopiesInv
  <2>2. /\ queue[i] \in Msgs /\ Range(queue) = Range(RemoveAt(queue, i)) \cup {queue[i]}
        /\ Distinct(RemoveAt(queue, i)) /\ queue[i] \notin Range(RemoveAt(queue, i))
    BY <2>1, RemoveHolds
  <2> QED
    BY <1>1, <2>2 DEF QS
<1>3. <<m, failed>> \in Report
  BY <1>2 DEF Report
<1>4. Range(reports') = Range(reports) \cup {<<m, failed>>}
  <2>1. reports \in Seq(Report)
    BY DEF TypeOK
  <2>2. Range(Append(reports, <<m, failed>>)) = Range(reports) \cup {<<m, failed>>}
    BY <1>3, <2>1, AppendHolds
  <2> QED
    BY <1>1, <2>2
<1>5. BS' = BS /\ Unserved' = Unserved \cup {<<m, failed>>}
  BY <1>1, <1>4 DEF BS, Unserved
<1>6. m \notin RS /\ m \notin BS
  BY <1>2 DEF CopiesInv
<1>7. RS' = RS \cup {m} /\ Distinct(Firsts(reports'))
  <2>1. reports \in Seq(Msgs \X BOOLEAN) /\ <<m, failed>> \in Msgs \X BOOLEAN
    BY <1>3 DEF TypeOK, Report
  <2>2. Firsts(reports) \in Seq(Msgs) /\ Firsts(reports') = Append(Firsts(reports), m)
    <3>1. PICK x \in Msgs \X BOOLEAN : x = <<m, failed>> /\ x[1] = m
      BY <2>1
    <3>2. reports \in Seq(Msgs \X BOOLEAN)
      BY <2>1
    <3>3. /\ Firsts(reports) \in Seq(Msgs)
          /\ \A y \in Msgs \X BOOLEAN : Firsts(Append(reports, y)) = Append(Firsts(reports), y[1])
      BY <3>2, FirstsHold
    <3>4. reports' = Append(reports, x)
      BY <1>1, <3>1
    <3> QED
      BY <3>1, <3>3, <3>4
  <2>3. Distinct(Firsts(reports))
    BY DEF CopiesInv
  <2> QED
    BY <1>2, <1>6, <2>2, <2>3, AppendHolds DEF RS
<1>8. InFlight' = InFlight
  BY <1>2, <1>5, <1>7, Places, PlacesNext
<1>9. CopiesInv'
  BY <1>1, <1>2, <1>5, <1>6, <1>7 DEF CopiesInv
<1> QED
  BY <1>2, <1>5, <1>8, <1>9

LEMMA DestroyEffect ==
    ASSUME TypeOK', batch = <<>>, Destroy
    PROVE  /\ QS' = {} /\ Unserved' = {} /\ InFlight' = {}
           /\ CopiesInv'
<1>1. queue' = <<>> /\ reports' = <<>> /\ batch' = <<>>
  BY DEF Destroy
<1>2. QS' = {} /\ RS' = {} /\ BS' = {} /\ Unserved' = {}
  BY <1>1, EmptyHolds DEF QS, RS, BS, Unserved
<1>3. CopiesInv'
  BY <1>1, <1>2, EmptyHolds DEF CopiesInv
<1> QED
  BY <1>2, <1>3, PlacesNext

-----------------------------------------------------------------------------
(* The invariant, step by step *)

LEMMA StepCall ==
    ASSUME TypeOK, CallInv, [Next]_vars
    PROVE  CallInv'
<1> USE DEF CallInv, callVars, kafkaVars, historyVars
<1>1. CASE Initialise
  BY <1>1 DEF Initialise
<1>2. CASE Uninit
  BY <1>2 DEF Uninit
<1>3. CASE UNCHANGED vars
  BY <1>3 DEF vars
<1>4. ASSUME NEW m \in Msgs, ProduceRefused(m) \/ ProduceFull(m)
      PROVE  CallInv'
  BY <1>4 DEF ProduceRefused, ProduceFull
<1>5. ASSUME NEW m \in Msgs, Produce(m)
      PROVE  CallInv'
  <2>1. current' # <<>> /\ pc = "ready" /\ isInit /\ isInit' = isInit
    BY <1>5 DEF Produce, MayProduce
  <2>2. \/ sync /\ sync' = sync /\ pc' = "syncPoll" /\ batch' = batch
        \/ pc' = "serving"
    BY <1>5 DEF Produce
  <2> QED
    BY <2>1, <2>2
<1>6. CASE SyncPoll
  BY <1>6 DEF SyncPoll
<1>7. CASE SyncDone
  BY <1>7 DEF SyncDone
<1>8. CASE ServeReport
  BY <1>8 DEF ServeReport
<1>9. CASE PollReturn
  BY <1>9 DEF PollReturn
<1>10. CASE FlushPoll
  BY <1>10 DEF FlushPoll
<1>11. CASE Destroy /\ pc = "flushing"
  BY <1>11 DEF Destroy
<1>12. ASSUME NEW i \in DOMAIN queue, Deliver(i) \/ Fail(i)
       PROVE  CallInv'
  <2>1. UNCHANGED <<sync, isInit, pc, current, batch>>
    BY <1>12 DEF Deliver, Fail, Resolve
  <2> QED
    BY <2>1
<1> QED
  BY <1>1, <1>2, <1>3, <1>4, <1>5, <1>6, <1>7, <1>8, <1>9, <1>10, <1>11, <1>12
  DEF Next, Application, InsideCall, Broker, FlushDone, FlushTimeout, Done

\* produce() takes a message only once.
LEMMA TakenOnce ==
    ASSUME CallInv, TakenInv, NEW m \in Msgs, pc = "ready",
           verdict[m] = "none" \/ (~sync /\ verdict[m] = "false")
    PROVE  m \notin taken /\ m \notin InFlight
<1>1. current = <<>>
  BY DEF CallInv
<1> QED
  BY <1>1 DEF TakenInv

LEMMA StepCopies ==
    ASSUME TypeOK, CallInv, CopiesInv, TakenInv, [Next]_vars
    PROVE  CopiesInv'
<1> USE DEF callVars, kafkaVars, historyVars
<1>0. TypeOK'
  BY StepType
<1>1. CASE UNCHANGED kafkaVars
  BY <1>1, StayEffect
<1>2. ASSUME NEW m \in Msgs, Produce(m)
      PROVE  CopiesInv'
  <2>1. m \notin InFlight
    BY <1>2, TakenOnce DEF Produce, MayProduce
  <2> QED
    BY <1>0, <1>2, <2>1, ProduceEffect
<1>3. CASE SyncPoll \/ FlushPoll
  <2>1. batch = <<>> /\ batch' = reports /\ reports' = <<>> /\ queue' = queue
    BY <1>3 DEF SyncPoll, FlushPoll, CallInv
  <2> QED
    BY <1>0, <2>1, PollEffect
<1>4. CASE ServeReport
  BY <1>0, <1>4, ServeEffect
<1>5. CASE Destroy /\ pc = "flushing"
  BY <1>0, <1>5, DestroyEffect DEF CallInv
<1>6. ASSUME NEW i \in DOMAIN queue, Deliver(i) \/ Fail(i)
      PROVE  CopiesInv'
  <2>1. Resolve(i, TRUE) \/ Resolve(i, FALSE)
    BY <1>6 DEF Deliver, Fail
  <2> QED
    BY <1>0, <2>1, ResolveEffect
<1> QED
  BY <1>1, <1>2, <1>3, <1>4, <1>5, <1>6
  DEF Next, Application, InsideCall, Broker, FlushDone, FlushTimeout, Done, vars,
      Initialise, Uninit, ProduceRefused, ProduceFull, SyncDone, PollReturn

\* The steps that leave what librdkafka holds as it is, one way or another.
LEMMA StepFlight ==
    ASSUME TypeOK, CallInv, CopiesInv, [Next]_vars,
           \/ UNCHANGED kafkaVars \/ SyncPoll \/ FlushPoll
           \/ \E i \in DOMAIN queue : Deliver(i) \/ Fail(i)
    PROVE  InFlight' = InFlight
<1> USE DEF callVars, kafkaVars, historyVars
<1>0. TypeOK'
  BY StepType
<1>1. CASE UNCHANGED kafkaVars
  BY <1>1, StayEffect
<1>2. CASE SyncPoll \/ FlushPoll
  <2>1. batch = <<>> /\ batch' = reports /\ reports' = <<>> /\ queue' = queue
    BY <1>2 DEF SyncPoll, FlushPoll, CallInv
  <2> QED
    BY <1>0, <2>1, PollEffect
<1>3. ASSUME NEW i \in DOMAIN queue, Deliver(i) \/ Fail(i)
      PROVE  InFlight' = InFlight
  <2>1. Resolve(i, TRUE) \/ Resolve(i, FALSE)
    BY <1>3 DEF Deliver, Fail
  <2> QED
    BY <1>0, <2>1, ResolveEffect
<1> QED
  BY <1>1, <1>2, <1>3

LEMMA StepTaken ==
    ASSUME TypeOK, CallInv, CopiesInv, TakenInv, [Next]_vars
    PROVE  TakenInv'
<1> USE DEF callVars, kafkaVars, historyVars
<1>0. TypeOK'
  BY StepType
<1>1. ASSUME NEW m \in Msgs, ProduceRefused(m) \/ ProduceFull(m)
      PROVE  TakenInv'
  <2>1. m \notin taken
    BY <1>1, TakenOnce DEF ProduceRefused, ProduceFull, MayProduce
  <2>2. /\ taken' = taken /\ current' = current /\ sync' = sync
        /\ \A k \in Msgs : k # m => verdict'[k] = verdict[k]
    BY <1>1 DEF ProduceRefused, ProduceFull, TypeOK
  <2>3. InFlight' = InFlight
    BY <1>1, StayEffect DEF ProduceRefused, ProduceFull
  <2> QED
    BY <2>1, <2>2, <2>3 DEF TakenInv, TypeOK
<1>2. ASSUME NEW m \in Msgs, Produce(m)
      PROVE  TakenInv'
  <2>1. InFlight' = InFlight \cup {m}
    BY <1>0, <1>2, ProduceEffect
  <2>2. /\ taken' = taken \cup {m} /\ current' = <<m>> /\ sync' = sync
        /\ verdict' = verdict /\ current = <<>>
    BY <1>2 DEF Produce, MayProduce, CallInv
  <2> QED
    BY <2>1, <2>2 DEF TakenInv
<1>3. CASE SyncDone \/ PollReturn
  <2>1. InFlight' = InFlight /\ taken' = taken /\ sync' = sync
    BY <1>3, StayEffect DEF SyncDone, PollReturn
  <2>2. \/ current' = current /\ verdict' = verdict
        \/ \E x \in Msgs :
              /\ current = <<x>> /\ current[1] = x
              /\ \/ verdict' = [verdict EXCEPT ![x] = "true"]
                 \/ sync /\ verdict' = [verdict EXCEPT ![x] = "false"]
    <3>1. current = <<>> \/ \E x \in Msgs : current = <<x>> /\ current[1] = x
      BY DEF TypeOK
    <3>2. current = <<>> => current' = current /\ verdict' = verdict
      BY <1>3 DEF SyncDone, PollReturn, CallInv
    <3>3. \/ current' = current /\ verdict' = verdict
          \/ verdict' = [verdict EXCEPT ![current[1]] = "true"]
          \/ sync /\ verdict' = [verdict EXCEPT ![current[1]] = "false"]
      BY <1>3 DEF SyncDone, PollReturn, CallInv
    <3> QED
      BY <3>1, <3>2, <3>3
  <2> QED
    BY <2>1, <2>2 DEF TakenInv, TypeOK
<1>4. CASE ServeReport
  <2>1. InFlight' \subseteq InFlight
    BY <1>0, <1>4, ServeEffect
  <2> QED
    BY <1>4, <2>1 DEF ServeReport, TakenInv
<1>5. CASE Destroy /\ pc = "flushing"
  <2>1. InFlight' = {}
    BY <1>0, <1>5, DestroyEffect DEF CallInv
  <2> QED
    BY <1>5, <2>1 DEF Destroy, TakenInv
<1>6. CASE SyncPoll \/ FlushPoll \/ Initialise \/ Uninit \/ UNCHANGED vars
           \/ \E i \in DOMAIN queue : Deliver(i) \/ Fail(i)
  <2>1. /\ taken' = taken /\ current' = current /\ sync' = sync
        /\ verdict' = verdict
    BY <1>6 DEF SyncPoll, FlushPoll, Initialise, Uninit, vars, Deliver, Fail, Resolve
  <2>2. InFlight' \subseteq InFlight
    <3>1. CASE Initialise \/ Uninit \/ UNCHANGED vars
      BY <3>1, StayEffect DEF Initialise, Uninit, vars
    <3> QED
      BY <1>6, <3>1, StepFlight
  <2> QED
    BY <2>1, <2>2 DEF TakenInv
<1> QED
  BY <1>1, <1>2, <1>3, <1>4, <1>5, <1>6
  DEF Next, Application, InsideCall, Broker, FlushDone, FlushTimeout, Done

\* Deliver and Fail as what they do to one message.
LEMMA ResolveCounts ==
    ASSUME TypeOK, CopiesInv, LogInv, NEW i \in DOMAIN queue, Deliver(i) \/ Fail(i),
           [Next]_vars
    PROVE  \E m \in Msgs, failed \in BOOLEAN :
              /\ m \in QS /\ m \in InFlight
              /\ QS' = QS \ {m} /\ Unserved' = Unserved \cup {<<m, failed>>}
              /\ InFlight' = InFlight
              /\ \A k \in Msgs : k # m => log'[k] = log[k] /\ fails'[k] = fails[k]
              /\ \/ log'[m] = log[m]
                 \/ log'[m] = IF log[m] < MaxFails + 1 THEN log[m] + 1 ELSE MaxFails + 1
              /\ IF failed
                 THEN fails'[m] = IF fails[m] < MaxFails THEN fails[m] + 1 ELSE MaxFails
                 ELSE /\ fails'[m] = fails[m]
                      /\ log'[m] > 0
              /\ UNCHANGED <<taken, verdict, recorded, lost, current, syncErr, sync, late,
                             record, pc>>
<1> DEFINE m == queue[i]
<1>0. TypeOK'
  BY StepType
<1>1. m \in Msgs /\ MaxFails \in Nat /\ log \in [Msgs -> Nat] /\ fails \in [Msgs -> Nat]
  <2>1. m \in Msgs
    BY RemoveHolds DEF TypeOK
  <2> QED
    BY <2>1, ProducerAssumption DEF TypeOK
<1>2. fails[m] <= MaxFails /\ log[m] <= MaxFails + 1 /\ log[m] \in Nat /\ fails[m] \in Nat
  BY <1>1 DEF LogInv
<1>3. Written(m) => \/ log[m] < MaxFails + 1 /\ log' = [log EXCEPT ![m] = log[m] + 1]
                    \/ log' = [log EXCEPT ![m] = MaxFails + 1] /\ ~ (log[m] < MaxFails + 1)
  BY DEF Written, Capped
<1>4. Fail(i) => \/ fails[m] < MaxFails /\ fails' = [fails EXCEPT ![m] = fails[m] + 1]
                 \/ fails' = [fails EXCEPT ![m] = MaxFails] /\ ~ (fails[m] < MaxFails)
  BY DEF Fail, Capped
<1>5. m \in QS /\ m \in InFlight
  BY <1>1, Places DEF QS, Range
<1> HIDE DEF m
<1>6. CASE Deliver(i)
  <2>1. Resolve(i, FALSE) /\ Written(m) /\ fails' = fails
    BY <1>6 DEF Deliver, m
  <2>2. QS' = QS \ {m} /\ Unserved' = Unserved \cup {<<m, FALSE>>} /\ InFlight' = InFlight
    BY <1>0, <2>1, ResolveEffect DEF m
  <2>3. UNCHANGED <<taken, verdict, recorded, lost, current, syncErr, sync, late, record, pc>>
    BY <2>1 DEF Resolve, callVars, historyVars
  <2>4. log'[m] = (IF log[m] < MaxFails + 1 THEN log[m] + 1 ELSE MaxFails + 1)
        /\ \A k \in Msgs : k # m => log'[k] = log[k] /\ fails'[k] = fails[k]
    BY <1>1, <1>3, <2>1
  <2>5. log'[m] > 0
    BY <1>1, <1>2, <2>4
  <2> QED
    BY <1>1, <1>5, <2>1, <2>2, <2>3, <2>4, <2>5
<1>7. CASE Fail(i)
  <2>1. Resolve(i, TRUE) /\ (Written(m) \/ log' = log)
    BY <1>7 DEF Fail, m
  <2>2. QS' = QS \ {m} /\ Unserved' = Unserved \cup {<<m, TRUE>>} /\ InFlight' = InFlight
    BY <1>0, <2>1, ResolveEffect DEF m
  <2>3. UNCHANGED <<taken, verdict, recorded, lost, current, syncErr, sync, late, record, pc>>
    BY <2>1 DEF Resolve, callVars, historyVars
  <2>4. /\ \/ log'[m] = log[m]
           \/ log'[m] = IF log[m] < MaxFails + 1 THEN log[m] + 1 ELSE MaxFails + 1
        /\ \A k \in Msgs : k # m => log'[k] = log[k]
    BY <1>1, <1>3, <2>1
  <2>5. /\ fails'[m] = IF fails[m] < MaxFails THEN fails[m] + 1 ELSE MaxFails
        /\ \A k \in Msgs : k # m => fails'[k] = fails[k]
    BY <1>1, <1>4, <1>7
  <2> QED
    BY <1>1, <1>5, <2>2, <2>3, <2>4, <2>5
<1> QED
  BY <1>6, <1>7

\* The steps that do not resolve a message.
LEMMA CountsStay ==
    ASSUME [Next]_vars, ~ \E i \in DOMAIN queue : Deliver(i) \/ Fail(i)
    PROVE  log' = log /\ fails' = fails
BY DEF Next, Application, InsideCall, Broker, FlushDone, FlushTimeout, Done, vars,
       Initialise, Uninit, ProduceRefused, ProduceFull, Produce, SyncPoll, SyncDone,
       ServeReport, PollReturn, FlushPoll, Destroy

\* Nothing but Produce and a re-send puts a message into the queue, and nothing
\* but librdkafka makes a report.
LEMMA QuietStep ==
    ASSUME TypeOK, CallInv, CopiesInv, [Next]_vars,
           ~ \E m \in Msgs : Produce(m), ~ServeReport,
           ~ \E i \in DOMAIN queue : Deliver(i) \/ Fail(i)
    PROVE  /\ QS' \subseteq QS /\ Unserved' \subseteq Unserved /\ taken' = taken
           /\ recorded' = recorded /\ record' = record
           /\ InFlight' = InFlight \/ (pc' = "done" /\ InFlight' = {})
<1> USE DEF callVars, kafkaVars, historyVars
<1>0. TypeOK'
  BY StepType
<1>1. CASE UNCHANGED <<kafkaVars, taken, recorded, record>>
  BY <1>1, StayEffect
<1>2. CASE SyncPoll \/ FlushPoll
  <2>1. batch = <<>> /\ batch' = reports /\ reports' = <<>> /\ queue' = queue
    BY <1>2 DEF SyncPoll, FlushPoll, CallInv
  <2>2. taken' = taken /\ recorded' = recorded /\ record' = record
    BY <1>2 DEF SyncPoll, FlushPoll
  <2> QED
    BY <1>0, <2>1, <2>2, PollEffect
<1>3. CASE Destroy /\ pc = "flushing"
  <2>1. batch = <<>> /\ pc' = "done" /\ taken' = taken /\ recorded' = recorded /\ record' = record
    BY <1>3 DEF Destroy, CallInv
  <2> QED
    BY <1>0, <1>3, <2>1, DestroyEffect
<1> QED
  BY <1>1, <1>2, <1>3
  DEF Next, Application, InsideCall, Broker, FlushDone, FlushTimeout, Done, vars,
      Initialise, Uninit, ProduceRefused, ProduceFull, SyncDone, PollReturn

LEMMA StepLog ==
    ASSUME TypeOK, CallInv, CopiesInv, TakenInv, LogInv, [Next]_vars
    PROVE  LogInv'
<1>0. TypeOK'
  BY StepType
<1>1. ASSUME log' = log, fails' = fails, \A k \in Msgs : Open(k)' => Open(k)
      PROVE  LogInv'
  BY <1>1 DEF LogInv
<1>2. ASSUME NEW m \in Msgs, Produce(m)
      PROVE  LogInv'
  <2>1. m \notin taken
    BY <1>2, TakenOnce DEF Produce, MayProduce
  <2>2. QS' = QS \cup {m} /\ Unserved' = Unserved
    BY <1>0, <1>2, ProduceEffect
  <2>3. taken' = taken \cup {m} /\ log' = log /\ fails' = fails
    BY <1>2 DEF Produce
  <2>4. \A k \in Msgs : Open(k)' => Open(k)
    BY <2>1, <2>2, <2>3 DEF Open
  <2> QED
    BY <1>1, <2>3, <2>4
<1>3. CASE ServeReport
  <2>1. log' = log /\ fails' = fails /\ taken' = taken
    BY <1>3 DEF ServeReport
  <2> DEFINE r == Head(batch)
  <2>2. /\ r \in Report /\ r \in Unserved /\ Unserved' \subseteq Unserved
        /\ (Resends(r[2]) /\ QS' = QS \cup {r[1]}) \/ QS' = QS
    BY <1>0, <1>3, ServeEffect
  <2>3. Resends(r[2]) => Open(r[1])
    <3>1. r = <<r[1], r[2]>> /\ r[2] \in BOOLEAN
      BY <2>2 DEF Report
    <3>2. Resends(r[2]) => r[2] = TRUE
      BY <3>1 DEF Resends
    <3>3. Resends(r[2]) => <<r[1], TRUE>> \in Unserved
      BY <2>2, <3>1, <3>2
    <3> QED
      BY <3>3 DEF Open
  <2>4. \A k \in Msgs : Open(k)' => Open(k)
    BY <2>1, <2>2, <2>3 DEF Open
  <2> QED
    BY <1>1, <2>1, <2>4
<1>4. ASSUME NEW i \in DOMAIN queue, Deliver(i) \/ Fail(i)
      PROVE  LogInv'
  <2>1. PICK m \in Msgs, failed \in BOOLEAN :
              /\ m \in QS /\ m \in InFlight
              /\ QS' = QS \ {m} /\ Unserved' = Unserved \cup {<<m, failed>>}
              /\ \A k \in Msgs : k # m => log'[k] = log[k] /\ fails'[k] = fails[k]
              /\ \/ log'[m] = log[m]
                 \/ log'[m] = IF log[m] < MaxFails + 1 THEN log[m] + 1 ELSE MaxFails + 1
              /\ IF failed
                 THEN fails'[m] = IF fails[m] < MaxFails THEN fails[m] + 1 ELSE MaxFails
                 ELSE fails'[m] = fails[m]
              /\ taken' = taken
    BY <1>4, ResolveCounts
  <2>2. ASSUME NEW k \in Msgs, k # m
        PROVE  /\ log'[k] = log[k] /\ fails'[k] = fails[k]
               /\ Open(k)' => Open(k)
    BY <2>1, <2>2 DEF Open
  <2>3. /\ log[m] \in Nat /\ fails[m] \in Nat /\ MaxFails \in Nat
        /\ fails[m] <= MaxFails /\ log[m] <= MaxFails + 1
        /\ log[m] <= fails[m] \/ fails[m] = MaxFails
    BY <2>1, ProducerAssumption DEF TypeOK, LogInv, Open
  <2>4. /\ fails'[m] <= MaxFails /\ log'[m] <= MaxFails + 1
        /\ log'[m] <= fails'[m] + 1
        /\ failed => log'[m] <= fails'[m] \/ fails'[m] = MaxFails
    BY <2>1, <2>3
  <2>5. ~failed => ~Open(m)'
    <3>1. m \in taken /\ <<m, TRUE>> \notin Unserved
      BY <2>1, Places DEF TakenInv, CopiesInv
    <3>2. ~failed => <<m, failed>> # <<m, TRUE>>
      OBVIOUS
    <3> QED
      BY <2>1, <3>1, <3>2 DEF Open
  <2> QED
    BY <2>2, <2>4, <2>5 DEF LogInv
<1>5. CASE /\ ~ \E m \in Msgs : Produce(m)
           /\ ~ServeReport
           /\ ~ \E i \in DOMAIN queue : Deliver(i) \/ Fail(i)
  <2>1. log' = log /\ fails' = fails
    BY <1>5, CountsStay
  <2>2. QS' \subseteq QS /\ Unserved' \subseteq Unserved /\ taken' = taken
    BY <1>5, QuietStep
  <2>3. \A k \in Msgs : Open(k)' => Open(k)
    BY <2>2 DEF Open
  <2> QED
    BY <1>1, <2>1, <2>3
<1> QED
  BY <1>2, <1>3, <1>4, <1>5

LEMMA StepReport ==
    ASSUME TypeOK, CallInv, CopiesInv, LogInv, ReportInv, [Next]_vars
    PROVE  ReportInv'
<1>0. TypeOK'
  BY StepType
<1>1. ASSUME Unserved' \subseteq Unserved, log' = log, fails' = fails
      PROVE  ReportInv'
  BY <1>1 DEF ReportInv
<1>2. ASSUME NEW i \in DOMAIN queue, Deliver(i) \/ Fail(i)
      PROVE  ReportInv'
  <2>1. PICK m \in Msgs, failed \in BOOLEAN :
              /\ m \in QS /\ Unserved' = Unserved \cup {<<m, failed>>}
              /\ \A k \in Msgs : k # m => log'[k] = log[k] /\ fails'[k] = fails[k]
              /\ IF failed
                 THEN fails'[m] = IF fails[m] < MaxFails THEN fails[m] + 1 ELSE MaxFails
                 ELSE log'[m] > 0
    BY <1>2, ResolveCounts
  <2>2. \A r \in Unserved : r[1] \in Msgs /\ r[1] # m
    <3>1. m \notin RS \cup BS
      BY <2>1 DEF CopiesInv
    <3>2. \A r \in Unserved : r[1] \in Msgs /\ r[1] \in RS \cup BS
      BY Places DEF Report
    <3> QED
      BY <3>1, <3>2
  <2>3. failed /\ MaxFails > 0 => fails'[m] > 0
    BY <2>1, ProducerAssumption DEF TypeOK
  <2>4. ASSUME NEW r \in Unserved
        PROVE  IF r[2] THEN MaxFails > 0 => fails'[r[1]] > 0 ELSE log'[r[1]] > 0
    BY <2>1, <2>2 DEF ReportInv
  <2>5. ASSUME NEW r, r = <<m, failed>>
        PROVE  IF r[2] THEN MaxFails > 0 => fails'[r[1]] > 0 ELSE log'[r[1]] > 0
    <3>1. r[1] = m /\ r[2] = failed
      BY <2>5
    <3> QED
      BY <2>1, <2>3, <3>1
  <2> QED
    BY <2>1, <2>4, <2>5 DEF ReportInv
<1>3. CASE ~ \E i \in DOMAIN queue : Deliver(i) \/ Fail(i)
  <2>1. log' = log /\ fails' = fails
    BY <1>3, CountsStay
  <2>2. Unserved' \subseteq Unserved
    <3>1. ASSUME NEW m \in Msgs, Produce(m)
          PROVE  Unserved' \subseteq Unserved
      BY <1>0, <3>1, ProduceEffect
    <3>2. ServeReport => Unserved' \subseteq Unserved
      BY <1>0, ServeEffect
    <3> QED
      BY <1>3, <3>1, <3>2, QuietStep
  <2> QED
    BY <1>1, <2>1, <2>2
<1> QED
  BY <1>2, <1>3

LEMMA StepVanish ==
    ASSUME TypeOK, CallInv, CopiesInv, LogInv, ReportInv, NothingVanishes, [Next]_vars
    PROVE  NothingVanishes'
<1> USE DEF NothingVanishes
<1>0. TypeOK'
  BY StepType
<1>1. ASSUME NEW m \in Msgs, Produce(m)
      PROVE  NothingVanishes'
  <2>1. InFlight' = InFlight \cup {m}
    BY <1>0, <1>1, ProduceEffect
  <2>2. /\ taken' = taken \cup {m} /\ log' = log /\ recorded' = recorded
        /\ record' = record /\ pc # "done"
    BY <1>1 DEF Produce, MayProduce
  <2> QED
    BY <2>1, <2>2
<1>2. CASE ServeReport
  <2> DEFINE r == Head(batch)
  <2>1. /\ r \in Unserved
        /\ InFlight' = InFlight \/ InFlight' = InFlight \ {r[1]}
    BY <1>0, <1>2, ServeEffect
  <2>3. ~r[2] => log[r[1]] > 0
    BY <2>1 DEF ReportInv
  <2>4. record /\ r[2] => r[1] \in recorded'
    BY <1>2 DEF ServeReport, Records
  <2>5. /\ taken' = taken /\ log' = log /\ recorded \subseteq recorded'
        /\ record' = record /\ pc' = pc
    BY <1>2 DEF ServeReport
  <2> QED
    BY <2>1, <2>3, <2>4, <2>5
<1>3. ASSUME NEW i \in DOMAIN queue, Deliver(i) \/ Fail(i)
      PROVE  NothingVanishes'
  <2>1. PICK m \in Msgs :
              /\ InFlight' = InFlight /\ m \in InFlight
              /\ \A k \in Msgs : k # m => log'[k] = log[k]
              /\ UNCHANGED <<taken, recorded, record, pc>>
    BY <1>3, ResolveCounts
  <2> QED
    BY <2>1 DEF TypeOK
<1>4. CASE /\ ~ \E m \in Msgs : Produce(m)
           /\ ~ServeReport
           /\ ~ \E i \in DOMAIN queue : Deliver(i) \/ Fail(i)
  <2>1. log' = log
    BY <1>4, CountsStay
  <2>2. /\ taken' = taken /\ recorded' = recorded /\ record' = record
        /\ InFlight' = InFlight \/ (pc' = "done" /\ InFlight' = {})
    BY <1>4, QuietStep
  <2>3. pc = "done" => pc' = "done"
    BY <1>4
    DEF Next, Application, InsideCall, Broker, FlushDone, FlushTimeout, Done, vars,
        callVars, Initialise, Uninit, ProduceRefused, ProduceFull, MayProduce, SyncPoll,
        SyncDone, PollReturn, FlushPoll
  <2> QED
    BY <2>1, <2>2, <2>3
<1> QED
  BY <1>1, <1>2, <1>3, <1>4

\* SyncInv needs that a synchronous producer never sends again.
LEMMA StepSync ==
    ASSUME TypeOK, CallInv, CopiesInv, TakenInv, LogInv, ReportInv, SyncInv, [Next]_vars
    PROVE  SyncInv'
<1> USE DEF callVars, kafkaVars, historyVars
<1>0. TypeOK'
  BY StepType
<1>c. sync' = sync
  BY DEF Next, Application, InsideCall, Broker, FlushDone, FlushTimeout, Done, vars,
         Initialise, Uninit, ProduceRefused, ProduceFull, Produce, SyncPoll, SyncDone,
         ServeReport, PollReturn, FlushPoll, Destroy, Deliver, Fail, Resolve
<1>d. SyncDone => (late => late')
  BY DEF SyncDone
<1>e. late' = late \/ SyncDone
  BY DEF Next, Application, InsideCall, Broker, FlushDone, FlushTimeout, Done, vars,
         Initialise, Uninit, ProduceRefused, ProduceFull, Produce, SyncPoll,
         ServeReport, PollReturn, FlushPoll, Destroy, Deliver, Fail, Resolve
<1> SUFFICES ASSUME sync', ~late'
             PROVE  SyncInv'
  BY DEF SyncInv
<1>a. sync /\ ~late
  BY <1>c, <1>d, <1>e
<1>b. InFlight \subseteq Msgs
  BY Places
<1>1. ASSUME NEW m \in Msgs, ProduceRefused(m) \/ ProduceFull(m)
      PROVE  SyncInv'
  <2>1. m \notin taken /\ current = <<>>
    BY <1>1, TakenOnce DEF ProduceRefused, ProduceFull, MayProduce, CallInv
  <2>2. /\ taken' = taken /\ current' = current /\ sync' = sync /\ log' = log
        /\ fails' = fails /\ verdict' = [verdict EXCEPT ![m] = "false"]
    BY <1>1 DEF ProduceRefused, ProduceFull
  <2>3. InFlight' = InFlight
    BY <1>1, StayEffect DEF ProduceRefused, ProduceFull
  <2>4. InFlight = {}
    BY <1>a, <2>1 DEF SyncInv
  <2> QED
    BY <1>a, <2>1, <2>2, <2>3, <2>4 DEF SyncInv, TypeOK
<1>2. ASSUME NEW m \in Msgs, Produce(m)
      PROVE  SyncInv'
  <2>1. current = <<>> /\ verdict[m] = "none"
    BY <1>2, <1>a DEF Produce, MayProduce, CallInv
  <2>2. InFlight' = {m}
    <3>1. InFlight = {}
      BY <1>a, <2>1 DEF SyncInv
    <3> QED
      BY <1>0, <1>2, <3>1, ProduceEffect
  <2>3. /\ current' = <<m>> /\ syncErr' = "init" /\ taken' = taken \cup {m}
        /\ verdict' = verdict /\ log' = log /\ fails' = fails
    BY <1>2 DEF Produce
  <2>4. \A k : <<m>> = <<k>> => k = m
    OBVIOUS
  <2> QED
    BY <1>a, <2>1, <2>2, <2>3, <2>4 DEF SyncInv
<1>3. ASSUME InFlight' = InFlight,
             UNCHANGED <<current, syncErr, taken, verdict, log, fails>>
      PROVE  SyncInv'
  BY <1>3, <1>a DEF SyncInv
<1>4. CASE SyncPoll \/ FlushPoll \/ PollReturn
  <2>1. UNCHANGED <<current, syncErr, taken, verdict, log, fails>>
    BY <1>4, <1>a DEF SyncPoll, FlushPoll, PollReturn
  <2>2. InFlight' = InFlight
    <3>1. PollReturn => UNCHANGED kafkaVars
      BY DEF PollReturn
    <3> QED
      BY <1>4, <3>1, StepFlight
  <2> QED
    BY <1>3, <2>1, <2>2
<1>5. CASE Initialise \/ Uninit \/ UNCHANGED vars
  <2>1. UNCHANGED <<current, syncErr, taken, verdict, log, fails>> /\ UNCHANGED kafkaVars
    BY <1>5 DEF Initialise, Uninit, vars
  <2> QED
    BY <1>3, <2>1, StayEffect
<1>6. CASE SyncDone
  <2>1. PICK x \in Msgs : current = <<x>> /\ current[1] = x
    <3>1. current # <<>>
      BY <1>6 DEF SyncDone, CallInv
    <3> QED
      BY <3>1 DEF TypeOK
  <2>2. syncErr # "init" /\ InFlight = {}
    BY <1>6, <1>a DEF SyncDone, SyncInv
  <2>3. /\ verdict' = [verdict EXCEPT ![x] = IF syncErr = "ok" THEN "true" ELSE "false"]
        /\ current' = <<>> /\ UNCHANGED <<taken, log, fails>>
    BY <1>6, <2>1 DEF SyncDone
  <2>4. InFlight' = {}
    BY <1>6, <2>2, StayEffect DEF SyncDone
  <2>5. \/ syncErr = "ok" /\ log[x] > 0
        \/ syncErr = "err" /\ (MaxFails > 0 => fails[x] > 0)
    BY <1>a, <2>1, <2>2 DEF SyncInv
  <2>6. \A k \in Msgs : current' # <<k>>
    BY <2>3
  <2>7. /\ \A k \in Msgs : verdict'[k] = "true" => log'[k] > 0
        /\ \A k \in Msgs : verdict'[k] = "false" /\ MaxFails > 0 /\ k \in taken' => fails'[k] > 0
    BY <1>a, <2>3, <2>5 DEF SyncInv, TypeOK
  <2> QED
    BY <2>4, <2>6, <2>7 DEF SyncInv
<1>7. CASE ServeReport
  <2> DEFINE r == Head(batch)
  <2>1. r \in Report /\ r \in Unserved /\ r[1] \in InFlight
    BY <1>0, <1>7, ServeEffect
  <2>2. InFlight' = InFlight \ {r[1]}
    BY <1>0, <1>7, <1>a, ServeEffect DEF Resends
  <2>3. current = <<r[1]>> /\ syncErr = "init"
    BY <1>a, <2>1 DEF SyncInv
  <2>4. InFlight' = {}
    <3>1. \A m \in InFlight : m = r[1]
      <4>1. \A m \in InFlight : <<m>> = <<r[1]>>
        BY <1>a, <2>3 DEF SyncInv
      <4> QED
        BY <4>1
    <3> QED
      BY <2>2, <3>1
  <2>5. /\ r[2] => syncErr' = "err" /\ (MaxFails > 0 => fails[r[1]] > 0)
        /\ ~r[2] => syncErr' = "ok" /\ log[r[1]] > 0
    <3>1. /\ r[2] => syncErr' = "err"
          /\ ~r[2] => syncErr' = "ok"
      BY <1>7, <1>a DEF ServeReport
    <3>2. /\ r[2] => (MaxFails > 0 => fails[r[1]] > 0)
          /\ ~r[2] => log[r[1]] > 0
      BY <2>1 DEF ReportInv
    <3> QED
      BY <3>1, <3>2
  <2>6. UNCHANGED <<current, taken, verdict, log, fails>>
    BY <1>7 DEF ServeReport
  <2>7. \A k \in Msgs : current = <<k>> => k = r[1]
    BY <2>3
  <2> QED
    BY <1>a, <2>4, <2>5, <2>6, <2>7 DEF SyncInv
<1>8. CASE Destroy /\ pc = "flushing"
  <2>1. InFlight' = {} /\ current = <<>>
    BY <1>0, <1>8, DestroyEffect DEF CallInv
  <2>2. UNCHANGED <<current, taken, verdict, log, fails>>
    BY <1>8 DEF Destroy
  <2>3. \A k \in Msgs : current # <<k>>
    BY <2>1
  <2> QED
    BY <1>a, <2>1, <2>2, <2>3 DEF SyncInv
<1>9. ASSUME NEW i \in DOMAIN queue, Deliver(i) \/ Fail(i)
      PROVE  SyncInv'
  <2>1. PICK m \in Msgs, failed \in BOOLEAN :
              /\ m \in InFlight /\ InFlight' = InFlight
              /\ \A k \in Msgs : k # m => log'[k] = log[k] /\ fails'[k] = fails[k]
              /\ \/ log'[m] = log[m]
                 \/ log'[m] = IF log[m] < MaxFails + 1 THEN log[m] + 1 ELSE MaxFails + 1
              /\ IF failed
                 THEN fails'[m] = IF fails[m] < MaxFails THEN fails[m] + 1 ELSE MaxFails
                 ELSE fails'[m] = fails[m]
              /\ UNCHANGED <<taken, verdict, current, syncErr>>
    BY <1>9, ResolveCounts
  <2>2. \A k \in Msgs : log'[k] >= log[k] /\ (MaxFails > 0 /\ fails[k] > 0 => fails'[k] > 0)
    <3>1. /\ log \in [Msgs -> Nat] /\ fails \in [Msgs -> Nat] /\ MaxFails \in Nat
          /\ log[m] <= MaxFails + 1
      BY <2>1, ProducerAssumption DEF TypeOK, LogInv
    <3>2. log'[m] >= log[m] /\ (MaxFails > 0 /\ fails[m] > 0 => fails'[m] > 0)
      BY <2>1, <3>1
    <3> QED
      BY <2>1, <3>1, <3>2
  <2>3. /\ log \in [Msgs -> Nat] /\ log' \in [Msgs -> Nat]
    BY <1>0 DEF TypeOK
  <2>4. \A k \in Msgs : log[k] > 0 => log'[k] > 0
    BY <2>2, <2>3
  <2> QED
    BY <1>a, <2>1, <2>2, <2>4 DEF SyncInv
<1> QED
  BY <1>1, <1>2, <1>4, <1>5, <1>6, <1>7, <1>8, <1>9
  DEF Next, Application, InsideCall, Broker, FlushDone, FlushTimeout, Done

-----------------------------------------------------------------------------
(* The theorems *)

LEMMA InitInv == Init => ProducerInv
<1> SUFFICES ASSUME Init PROVE ProducerInv
  OBVIOUS
<1>1. queue \in Seq(Msgs) /\ reports \in Seq(Report) /\ batch \in Seq(Report)
  BY EmptyHolds DEF Init
<1>2. TypeOK
  <2>1. polls \in 0 .. MaxPolls
    BY ProducerAssumption DEF Init
  <2>2. sync \in BOOLEAN /\ record \in BOOLEAN
    BY ProducerAssumption DEF Init, Configured
  <2> QED
    BY <1>1, <2>1, <2>2 DEF Init, TypeOK
<1>3. CallInv
  BY DEF Init, CallInv
<1>4. QS = {} /\ RS = {} /\ BS = {} /\ Unserved = {} /\ CopiesInv
  BY EmptyHolds DEF Init, QS, RS, BS, Unserved, CopiesInv
<1>5. InFlight = {}
  BY <1>2, <1>4, Places
<1>6. TakenInv /\ NothingVanishes
  BY <1>5 DEF Init, TakenInv, NothingVanishes
<1>7. LogInv
  BY ProducerAssumption DEF Init, LogInv
<1>8. ReportInv
  BY <1>4 DEF ReportInv
<1>9. SyncInv
  <2>1. \A m \in Msgs : current # <<m>> /\ verdict[m] = "none"
    BY DEF Init
  <2> QED
    BY <1>5, <2>1 DEF SyncInv
<1> QED
  BY <1>2, <1>3, <1>4, <1>6, <1>7, <1>8, <1>9 DEF ProducerInv

LEMMA StepInv == ProducerInv /\ [Next]_vars => ProducerInv'
BY StepType, StepCall, StepCopies, StepTaken, StepLog, StepReport, StepVanish, StepSync
DEF ProducerInv

LEMMA InvAlways == Spec => []ProducerInv
BY InitInv, StepInv, PTL DEF Spec

\* The broker has a message more than once only if attempts were reported as
\* failed: msgDeliveredCallback() sends again nothing that was delivered.
THEOREM DuplicatesAreResendsAlways == Spec => []DuplicatesAreResends
<1>1. ProducerInv => DuplicatesAreResends
  BY DEF ProducerInv, LogInv, DuplicatesAreResends
<1> QED
  BY <1>1, InvAlways, PTL

\* With recording on, what rd_kafka_produce() took is in librdkafka, written or
\* in the record file until the handle is destroyed.
THEOREM NothingVanishesAlways == Spec => []NothingVanishes
<1>1. ProducerInv => NothingVanishes
  BY DEF ProducerInv
<1> QED
  BY <1>1, InvAlways, PTL

\* As long as no synchronous send has run out of polls, produce() returns the
\* result of its own message.  fails must be able to count one failure.
THEOREM SyncTruthAlways ==
    ASSUME MaxFails > 0
    PROVE  Spec => []SyncTruth
<1>1. ProducerInv => SyncTruth
  <2> SUFFICES ASSUME ProducerInv, sync, ~late, NEW m \in Msgs
               PROVE  /\ verdict[m] = "true" => log[m] > 0
                      /\ verdict[m] = "false" =>
                            m \notin InFlight /\ (m \in taken => fails[m] > 0)
    BY DEF SyncTruth
  <2>1. m \in InFlight => verdict[m] = "none"
    BY DEF ProducerInv, SyncInv
  <2> QED
    BY <2>1 DEF ProducerInv, SyncInv
<1> QED
  BY <1>1, InvAlways, PTL

-----------------------------------------------------------------------------
(* The refinement of Delivery *)

\* The state of a message as Delivery sees it.
StateOf == [m \in Msgs |-> IF m \in InFlight THEN "sending"
                           ELSE IF m \in taken THEN "ended" ELSE "new"]

LEMMA InitRefines ==
    ASSUME Init
    PROVE  Sending!Init
<1>1. InFlight = {} /\ taken = {} /\ log = [m \in Msgs |-> 0]
  <2>1. ProducerInv
    BY InitInv
  <2> QED
    BY <2>1 DEF Init, ProducerInv, TakenInv
<1> QED
  BY <1>1 DEF Sending!Init

LEMMA StepRefines ==
    ASSUME ProducerInv, [Next]_vars
    PROVE  [Sending!Next]_(Sending!vars)
<1> USE DEF ProducerInv, callVars, kafkaVars, historyVars
<1>0. TypeOK' /\ ProducerInv'
  BY StepInv
<1>1. InFlight \subseteq taken /\ InFlight \subseteq Msgs
  BY Places DEF TakenInv
<1>2. ASSUME InFlight' = InFlight, taken' = taken, log' = log
      PROVE  UNCHANGED Sending!vars
  BY <1>2 DEF Sending!vars
<1>3. ASSUME NEW m \in Msgs, Produce(m)
      PROVE  Sending!Next
  <2>1. m \notin taken /\ m \notin InFlight
    BY <1>3, TakenOnce DEF Produce, MayProduce
  <2>2. InFlight' = InFlight \cup {m} /\ taken' = taken \cup {m} /\ log' = log
    BY <1>0, <1>3, ProduceEffect DEF Produce
  <2>3. StateOf[m] = "new" /\ StateOf' = [StateOf EXCEPT ![m] = "sending"]
    BY <2>1, <2>2 DEF StateOf
  <2>4. Sending!Accept(m)
    BY <2>2, <2>3 DEF Sending!Accept, StateOf
  <2> QED
    BY <2>4 DEF Sending!Next
<1>4. ASSUME NEW S \in SUBSET Msgs, S \subseteq InFlight, InFlight' = InFlight \ S,
             taken' = taken, log' = log
      PROVE  Sending!Next
  <2>1. \A m \in S : StateOf[m] = "sending"
    BY <1>4 DEF StateOf
  <2>2. StateOf' = [m \in Msgs |-> IF m \in S THEN "ended" ELSE StateOf[m]]
    BY <1>1, <1>4 DEF StateOf
  <2>3. Sending!End(S)
    BY <1>4, <2>1, <2>2 DEF Sending!End, StateOf
  <2> QED
    BY <2>3 DEF Sending!Next
<1>5. CASE ServeReport
  <2> DEFINE x == Head(batch)[1]
  <2>1. x \in InFlight /\ (InFlight' = InFlight \/ InFlight' = InFlight \ {x})
    BY <1>0, <1>5, ServeEffect
  <2>2. taken' = taken /\ log' = log
    BY <1>5 DEF ServeReport
  <2>3. {x} \in SUBSET Msgs
    BY <1>1, <2>1
  <2> QED
    BY <1>2, <1>4, <2>1, <2>2, <2>3
<1>6. CASE Destroy /\ pc = "flushing"
  <2>1. InFlight' = InFlight \ InFlight
    BY <1>0, <1>6, DestroyEffect DEF CallInv
  <2>2. taken' = taken /\ log' = log
    BY <1>6 DEF Destroy
  <2> QED
    BY <1>1, <1>4, <2>1, <2>2
<1>7. ASSUME NEW i \in DOMAIN queue, Deliver(i) \/ Fail(i)
      PROVE  [Sending!Next]_(Sending!vars)
  <2>1. InFlight' = InFlight /\ taken' = taken
    BY <1>7, ResolveCounts
  <2> DEFINE m == queue[i]
  <2>2. m \in Msgs /\ m \in InFlight
    <3>1. m \in Msgs /\ m \in QS
      BY RemoveHolds DEF TypeOK, QS, Range
    <3> QED
      BY <3>1, Places
  <2>3. log' = log \/ log' = [log EXCEPT ![m] = IF @ < MaxFails + 1 THEN @ + 1 ELSE @]
    <3>1. log' = log \/ log' = [log EXCEPT ![m] = Capped(@, MaxFails + 1)]
      BY <1>7 DEF Deliver, Fail, Written
    <3>2. log[m] \in Nat /\ MaxFails \in Nat /\ log[m] <= MaxFails + 1
      BY <2>2, ProducerAssumption DEF TypeOK, LogInv
    <3>3. Capped(log[m], MaxFails + 1) = IF log[m] < MaxFails + 1 THEN log[m] + 1 ELSE log[m]
      BY <3>2 DEF Capped
    <3> QED
      BY <3>1, <3>3
  <2>4. CASE log' = log
    BY <1>2, <2>1, <2>4
  <2>5. CASE log' = [log EXCEPT ![m] = IF @ < MaxFails + 1 THEN @ + 1 ELSE @]
    <3>1. StateOf[m] = "sending" /\ StateOf' = StateOf
      BY <2>1, <2>2 DEF StateOf
    <3>2. Sending!Write(m)
      BY <2>5, <3>1 DEF Sending!Write, StateOf
    <3> QED
      BY <2>2, <3>2 DEF Sending!Next
  <2> QED
    BY <2>3, <2>4, <2>5
<1>8. CASE \/ Initialise \/ Uninit \/ UNCHANGED vars \/ SyncPoll \/ FlushPoll \/ SyncDone
           \/ PollReturn \/ \E m \in Msgs : ProduceRefused(m) \/ ProduceFull(m)
  <2>1. taken' = taken /\ log' = log
    BY <1>8 DEF Initialise, Uninit, vars, SyncPoll, FlushPoll, SyncDone, PollReturn,
                ProduceRefused, ProduceFull
  <2>2. SyncPoll \/ FlushPoll \/ UNCHANGED kafkaVars
    BY <1>8 DEF Initialise, Uninit, vars, SyncDone, PollReturn, ProduceRefused, ProduceFull
  <2> QED
    BY <1>2, <2>1, <2>2, StepFlight
<1> QED
  BY <1>3, <1>5, <1>6, <1>7, <1>8
  DEF Next, Application, InsideCall, Broker, FlushDone, FlushTimeout, Done

\* A message is written only while librdkafka holds it or sends it again, and
\* what produce() gave up, delivered or destroyed is never sent again.
THEOREM ImplementsDeliveryHolds == Spec => ImplementsDelivery
BY InitRefines, StepRefines, InvAlways, PTL DEF Spec, ImplementsDelivery, Sending!Spec

=============================================================================
