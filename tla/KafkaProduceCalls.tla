------------------------- MODULE KafkaProduceCalls -------------------------
(***************************************************************************)
(* Calls of qbus::kafka::QbusProducerImp::produce() by several threads, in  *)
(* the synchronous mode, the partitioner each of them runs, and an uninit() *)
(* by the main thread, which may find them inside (as that of              *)
(* golang/examples/producer.go does).  KafkaProducer has one thread, the    *)
(* asynchronous mode and the re-sends; here a call sends one message and is *)
(* named for it.                                                            *)
(***************************************************************************)
EXTENDS Integers, Sequences, SequencesExt

CONSTANTS
    Calls,         \* calls of produce(), one message each, at once or not
    PartitionCnt,  \* partition_cnt
    Keys,          \* keys, as sequences of signed chars; <<>> is no key
    MaxPolls,      \* RD_KAFKA_SYNC_SEND_POLL_TIME
    None           \* no key yet, or none any more

ASSUME CallsAssumption ==
    /\ PartitionCnt \in Nat \ {0}
    /\ Keys \subseteq Seq(-128 .. 127)
    /\ MaxPolls \in Nat
    /\ None \notin Keys

VARIABLES
    isInit,       \* is_init_
    main,         \* how far uninit() is: "run", "closing", "flushing", "gone"
    syncErr,      \* sync_send_err_
    (* each call's locals *)
    pc,
    key,          \* None once the message is queued
    left,         \* partition_set
    polls,        \* current_retry_time
    batch,        \* the reports its rd_kafka_poll() took and serves one by one
    result,       \* what it returned
    (* librdkafka and the brokers *)
    avail,        \* partitions that are available
    queue,        \* <<call, partition>>: messages that wait for the broker
    reports,      \* <<call, error>>: resolved, not taken by a poll
    (* history *)
    stayed,       \* partitions available ever since the call began to choose, {} after
    heard,        \* reports served since the call reset sync_send_err_
    apart,        \* no other call or message has been about during the call
    raced,        \* calls that were inside when uninit() began
    fault         \* calls that used a destroyed topic or handle

kafkaVars == <<queue, reports>>
mainVars == <<isInit, main>>
choiceVars == <<key, left, stayed>>
waitVars == <<polls, batch, result>>
vars == <<mainVars, syncErr, pc, choiceVars, waitVars, avail, kafkaVars,
          heard, apart, raced, fault>>

-----------------------------------------------------------------------------
Partitions == 0 .. PartitionCnt - 1
Report == Calls \X {"ok", "err"}
Inside == {c \in Calls : pc[c] \notin {"new", "done"}}
TopicLives == main \in {"run", "closing"}
HandleLives == main # "gone"

TypeOK ==
    /\ isInit \in BOOLEAN
    /\ main \in {"run", "closing", "flushing", "gone"}
    /\ syncErr \in {"ok", "err", "init"}
    /\ pc \in [Calls -> {"new", "reset", "send", "choose", "wait", "read", "done"}]
    /\ key \in [Calls -> Keys \cup {None}]
    /\ left \in [Calls -> SUBSET Partitions]
    /\ polls \in [Calls -> 0 .. MaxPolls]
    /\ batch \in [Calls -> Seq(Report)]
    /\ result \in [Calls -> {"none", "true", "false"}]
    /\ avail \subseteq Partitions
    /\ queue \subseteq Calls \X Partitions
    /\ reports \in Seq(Report)
    /\ stayed \in [Calls -> SUBSET Partitions]
    /\ heard \in [Calls -> SUBSET Report]
    /\ apart \in [Calls -> BOOLEAN]
    /\ raced \subseteq Calls
    /\ fault \subseteq Calls

\* The producer after init().
Init ==
    /\ isInit = TRUE /\ main = "run" /\ syncErr = "ok"
    /\ pc = [c \in Calls |-> "new"]
    /\ key = [c \in Calls |-> None]
    /\ left = [c \in Calls |-> {}]
    /\ polls = [c \in Calls |-> 0]
    /\ batch = [c \in Calls |-> <<>>]
    /\ result = [c \in Calls |-> "none"]
    /\ avail \in SUBSET Partitions
    /\ queue = {} /\ reports = <<>>
    /\ stayed = [c \in Calls |-> {}]
    /\ heard = [c \in Calls |-> {}]
    /\ apart = [c \in Calls |-> FALSE]
    /\ raced = {} /\ fault = {}

-----------------------------------------------------------------------------
(* partitionHashFunc() *)

\* hash = ((hash << 5) + hash) + key[i] in 32 bits, as <<high, low>> halves;
\* a char is signed.
Djb(hash, char) ==
    LET low == 33 * hash[2] + char
    IN  <<(33 * hash[1] + low \div 65536) % 65536, low % 65536>>

\* hash % partition_cnt, of an unsigned hash
HashPartition(k) ==
    LET hash == FoldLeft(Djb, <<0, 5381>>, k)
    IN  ((hash[1] % PartitionCnt) * (65536 % PartitionCnt) + hash[2]) % PartitionCnt

-----------------------------------------------------------------------------
(* produce() and internalProduce() *)

GoTo(c, where) == pc' = [pc EXCEPT ![c] = where]

Returns(c, r) ==
    /\ GoTo(c, "done")
    /\ result' = [result EXCEPT ![c] = r]

\* The call used what uninit() has destroyed, whatever that does.
Faults(c) ==
    /\ GoTo(c, "done")
    /\ fault' = fault \cup {c}
    /\ UNCHANGED <<mainVars, syncErr, choiceVars, waitVars, avail, kafkaVars,
                   heard, apart, raced>>

\* produce(): if (is_init_)
Enter(c, k) ==
    /\ pc[c] = "new"
    /\ key' = [key EXCEPT ![c] = k]
    /\ \/ isInit /\ GoTo(c, "reset") /\ UNCHANGED result
       \/ ~isInit /\ Returns(c, "false")
    /\ apart' = [d \in Calls |->
          IF d = c
          THEN Inside = {} /\ queue = {} /\ reports = <<>>
          ELSE apart[d] /\ d \notin Inside]
    /\ UNCHANGED <<mainVars, syncErr, left, stayed, polls, batch, avail, kafkaVars,
                   heard, raced, fault>>

\* Mutant: sync_send_err_ is set once, by init().
ResetNothing(c) ==
    /\ pc[c] = "reset"
    /\ heard' = [heard EXCEPT ![c] = {}]
    /\ GoTo(c, "send")
    /\ UNCHANGED <<mainVars, syncErr, choiceVars, waitVars, avail, kafkaVars,
                   apart, raced, fault>>

\* sync_send_err_ is set to its initial value, for every call that waits.
Reset(c) ==
    /\ pc[c] = "reset"
    /\ syncErr' = "init"
    /\ heard' = [heard EXCEPT ![c] = {}]
    /\ GoTo(c, "send")
    /\ UNCHANGED <<mainVars, choiceVars, waitVars, avail, kafkaVars, apart,
                   raced, fault>>

\* rd_kafka_produce() calls the partitioner with every partition to try.
Send(c) ==
    /\ pc[c] = "send" /\ TopicLives
    /\ left' = [left EXCEPT ![c] = Partitions]
    /\ stayed' = [stayed EXCEPT ![c] = avail]
    /\ GoTo(c, "choose")
    /\ UNCHANGED <<mainVars, syncErr, key, waitVars, avail, kafkaVars, heard,
                   apart, raced, fault>>

\* rd_kafka_produce() refuses the message: the queue is full, say.
SendRefused(c) ==
    /\ pc[c] = "send" /\ TopicLives
    /\ Returns(c, "false")
    /\ UNCHANGED <<mainVars, syncErr, choiceVars, polls, batch, avail,
                   kafkaVars, heard, apart, raced, fault>>

\* rd_kafka_produce(), or with a NULL handle the error that names the topic.
SendDestroyed(c) == pc[c] = "send" /\ ~TopicLives /\ Faults(c)

\* The partitioner returns p and the message is queued.
Chosen(c, p) ==
    /\ queue' = queue \cup {<<c, p>>}
    /\ key' = [key EXCEPT ![c] = None]
    /\ left' = [left EXCEPT ![c] = {}]
    /\ stayed' = [stayed EXCEPT ![c] = {}]
    /\ GoTo(c, "wait")
    /\ UNCHANGED <<mainVars, syncErr, waitVars, avail, reports, heard, apart, raced,
                   fault>>

Choosing(c) == pc[c] = "choose" /\ HandleLives
ByKey(c) == key[c] # <<>>

\* With a key: the partition of its hash, or partition 0 if that is not available.
HashKey(c) ==
    /\ Choosing(c) /\ ByKey(c)
    /\ LET p == HashPartition(key[c])
       IN  Chosen(c, IF p \in avail THEN p ELSE 0)

\* Mutants of Pick: the partition that was tried stays in the set; the loop
\* gives up with one partition left.
PickKeeps(c, p) ==
    /\ Choosing(c) /\ ~ByKey(c)
    /\ \/ p \in avail /\ Chosen(c, p)
       \/ p \notin avail /\ left[c] = {} /\ \E q \in Partitions : Chosen(c, q)

PickGivesUp(c, p) ==
    /\ Choosing(c) /\ ~ByKey(c)
    /\ \/ p \in avail /\ Chosen(c, p)
       \/ /\ p \notin avail /\ \A q \in Partitions : left[c] \ {p} # {q}
          /\ left' = [left EXCEPT ![c] = @ \ {p}]
          /\ UNCHANGED <<mainVars, syncErr, pc, key, stayed, waitVars, avail,
                         kafkaVars, heard, apart, raced, fault>>
       \/ /\ p \notin avail /\ \E q \in Partitions : left[c] \subseteq {p, q}
          /\ \E q \in Partitions : Chosen(c, q)

\* Without: one round of the loop, whose random partition is p.  The last one
\* of the set gives up and takes any.
Pick(c, p) ==
    /\ Choosing(c) /\ ~ByKey(c)
    /\ \/ p \in avail /\ Chosen(c, p)
       \/ /\ p \notin avail /\ left[c] \ {p} # {}
          /\ left' = [left EXCEPT ![c] = @ \ {p}]
          /\ UNCHANGED <<mainVars, syncErr, pc, key, stayed, waitVars, avail,
                         kafkaVars, heard, apart, raced, fault>>
       \/ /\ p \notin avail /\ left[c] \subseteq {p}
          /\ \E q \in Partitions : Chosen(c, q)

\* The topic of a message that is being queued lives as long as the handle does.
ChooseDestroyed(c) == pc[c] = "choose" /\ ~HandleLives /\ Faults(c)

AtLoopHead(c) == pc[c] = "wait" /\ batch[c] = <<>>
WaitIsOver(c) == syncErr # "init" \/ polls[c] = MaxPolls

\* rd_kafka_poll(100) takes every report there is.
Poll(c) ==
    /\ AtLoopHead(c) /\ ~WaitIsOver(c) /\ HandleLives
    /\ polls' = [polls EXCEPT ![c] = @ + 1]
    /\ batch' = [batch EXCEPT ![c] = reports]
    /\ reports' = <<>>
    /\ UNCHANGED <<mainVars, syncErr, pc, choiceVars, result, avail, queue,
                   heard, apart, raced, fault>>

\* msgDeliveredCallback(): whoever's report it is, it is the result.
Report_(report) ==
    /\ syncErr' = report[2]
    /\ heard' = [d \in Calls |-> IF pc[d] \in {"send", "choose", "wait", "read"}
                                 THEN heard[d] \cup {report} ELSE heard[d]]

Serve(c) ==
    /\ pc[c] = "wait" /\ batch[c] # <<>> /\ HandleLives
    /\ Report_(Head(batch[c]))
    /\ batch' = [batch EXCEPT ![c] = Tail(@)]
    /\ UNCHANGED <<mainVars, pc, choiceVars, polls, result, avail, kafkaVars,
                   apart, raced, fault>>

\* The poll, or the callback it runs, uses the handle.
WaitDestroyed(c) ==
    /\ pc[c] = "wait" /\ ~HandleLives
    /\ batch[c] # <<>> \/ ~WaitIsOver(c)
    /\ Faults(c)

LeaveLoop(c) ==
    /\ AtLoopHead(c) /\ WaitIsOver(c)
    /\ GoTo(c, "read")
    /\ UNCHANGED <<mainVars, syncErr, choiceVars, waitVars, avail, kafkaVars,
                   heard, apart, raced, fault>>

\* sync_send_err_ is read again.  The error message names the topic.
Return(c) ==
    /\ pc[c] = "read" /\ (syncErr = "ok" \/ TopicLives)
    /\ Returns(c, IF syncErr = "ok" THEN "true" ELSE "false")
    /\ UNCHANGED <<mainVars, syncErr, choiceVars, polls, batch, avail,
                   kafkaVars, heard, apart, raced, fault>>

ReturnDestroyed(c) ==
    pc[c] = "read" /\ syncErr # "ok" /\ ~TopicLives /\ Faults(c)

-----------------------------------------------------------------------------
(* uninit() *)

\* Mutant: the flag stays.
UninitKeepsFlag ==
    /\ main = "run"
    /\ main' = "closing"
    /\ raced' = Inside
    /\ UNCHANGED <<isInit, syncErr, pc, choiceVars, waitVars, avail, kafkaVars,
                   heard, apart, fault>>

Uninit ==
    /\ main = "run"
    /\ isInit' = FALSE
    /\ main' = "closing"
    /\ raced' = Inside
    /\ UNCHANGED <<syncErr, pc, choiceVars, waitVars, avail, kafkaVars, heard,
                   apart, fault>>

DestroyTopic ==
    /\ main = "closing"
    /\ main' = "flushing"
    /\ UNCHANGED <<isInit, syncErr, pc, choiceVars, waitVars, avail, kafkaVars,
                   heard, apart, raced, fault>>

\* rd_kafka_flush() serves reports as the polls do.
FlushServe ==
    /\ main = "flushing" /\ reports # <<>>
    /\ Report_(Head(reports))
    /\ reports' = Tail(reports)
    /\ UNCHANGED <<mainVars, pc, choiceVars, waitVars, avail, queue, apart,
                   raced, fault>>

\* The flush is over or out of time, and the handle goes with what it holds.
DestroyHandle ==
    /\ main = "flushing"
    /\ main' = "gone"
    /\ queue' = {} /\ reports' = <<>>
    /\ UNCHANGED <<isInit, syncErr, pc, choiceVars, waitVars, avail, heard,
                   apart, raced, fault>>

Done ==
    /\ main = "gone" /\ \A c \in Calls : pc[c] = "done"
    /\ UNCHANGED vars

-----------------------------------------------------------------------------
(* librdkafka and the brokers *)

Resolve(c, p, err) ==
    /\ <<c, p>> \in queue
    /\ queue' = queue \ {<<c, p>>}
    /\ reports' = Append(reports, <<c, err>>)
    /\ UNCHANGED <<mainVars, syncErr, pc, choiceVars, waitVars, avail, heard,
                   apart, raced, fault>>

\* Partitions come and go.  What they do while nobody chooses is not told apart.
Available(S) ==
    /\ \E c \in Calls : Choosing(c)
    /\ avail' = S
    /\ stayed' = [c \in Calls |-> stayed[c] \cap S]
    /\ UNCHANGED <<mainVars, syncErr, pc, key, left, waitVars, kafkaVars,
                   heard, apart, raced, fault>>

-----------------------------------------------------------------------------
\* What a call does on its own, but for the rounds of the loop.
Proceeds(c) ==
    \/ Reset(c) \/ Send(c) \/ SendRefused(c) \/ SendDestroyed(c)
    \/ HashKey(c) \/ ChooseDestroyed(c)
    \/ Poll(c) \/ Serve(c) \/ WaitDestroyed(c) \/ LeaveLoop(c)
    \/ Return(c) \/ ReturnDestroyed(c)

Produce(c) ==
    \/ \E k \in Keys : Enter(c, k)
    \/ Proceeds(c)
    \/ \E p \in Partitions : Pick(c, p)

MainThread == Uninit \/ DestroyTopic \/ FlushServe \/ DestroyHandle \/ Done

Broker ==
    \/ \E c \in Calls, p \in Partitions, err \in {"ok", "err"} : Resolve(c, p, err)
    \/ \E S \in SUBSET Partitions : Available(S)

Next == (\E c \in Calls : Produce(c)) \/ MainThread \/ Broker

Spec == Init /\ [][Next]_vars

\* A call goes on once begun, and the random partitioner names every partition
\* again and again.  Nothing makes a thread call, uninit() run or a broker answer.
Fairness ==
    \A c \in Calls :
        /\ WF_vars(Proceeds(c))
        /\ \A p \in Partitions : WF_vars(Pick(c, p))

FairSpec == Spec /\ Fairness

-----------------------------------------------------------------------------
(* Properties *)

\* While a partition stays available during the choice, a message without a key
\* goes to an available one: "As long as there is one broker in the Kafka cluster
\* behaving normally".  One with a key leaves the partition of its hash for
\* partition 0 only.
Routed ==
    [][\A c \in Calls, p \in Partitions : <<c, p>> \in queue' \ queue =>
          IF ByKey(c) THEN p \in {0, HashPartition(key[c])}
                      ELSE stayed[c] # {} => p \in avail]_vars

\* A result that is true was reported for a message while the call ran, though
\* it may be another call's.  A call that shares the producer with no other call
\* and no late message returns what was reported of its own message.
ResultsAreHeard ==
    \A c \in Calls :
        /\ result[c] = "true" => \E d \in Calls : <<d, "ok">> \in heard[c]
        /\ apart[c] /\ result[c] # "none" =>
              (result[c] = "true" <=> <<c, "ok">> \in heard[c])

\* Only a call that was inside when uninit() began uses what uninit() destroys:
\* is_init_ keeps every later call out.
FaultsAreRaced == fault \subseteq raced

\* A call that has begun ends, whatever the partitions and the brokers do and
\* whoever takes its report.
CallsReturn == \A c \in Calls : pc[c] = "reset" ~> pc[c] = "done"
=============================================================================
