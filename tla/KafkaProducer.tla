---------------------------- MODULE KafkaProducer ----------------------------
(***************************************************************************)
(* qbus::kafka::QbusProducerImp (kafka/qbus_producer.cc): produce(),        *)
(* uninit() and the delivery report callback, one application thread, and   *)
(* the threads of librdkafka that resolve what was queued.                  *)
(*                                                                          *)
(* A message is in librdkafka from rd_kafka_produce() until its report was  *)
(* served: first in `queue`, then, resolved, in `reports`, and in `batch`   *)
(* while a call of rd_kafka_poll() or rd_kafka_flush() serves the reports   *)
(* it found.  All three count against queue.buffering.max.messages.         *)
(***************************************************************************)
EXTENDS Naturals, Sequences, SequencesExt

CONSTANTS
    Msgs,         \* what the application produces
    QueueMax,     \* queue.buffering.max.messages
    MaxPolls,     \* RD_KAFKA_SYNC_SEND_POLL_TIME
    MaxFails,     \* bound: failures of one message that are told apart
    SyncModes,    \* values is_sync_send_ may have
    RecordModes   \* values is_record_msg_for_send_failed_ may have

ASSUME ProducerAssumption ==
    /\ QueueMax \in Nat \ {0}
    /\ MaxPolls \in Nat \ {0}
    /\ MaxFails \in Nat
    /\ SyncModes \subseteq BOOLEAN
    /\ RecordModes \subseteq BOOLEAN

VARIABLES
    sync,         \* is_sync_send_
    record,       \* is_record_msg_for_send_failed_
    isInit,       \* is_init_
    pc,           \* where the application thread is
    current,      \* the message of the produce() under way: <<m>> or <<>>
    polls,        \* current_retry_time
    syncErr,      \* sync_send_err_
    (* librdkafka and the broker *)
    queue,        \* messages that wait for the broker
    reports,      \* <<message, error>>: resolved, not served
    batch,        \* the reports a poll took and serves one by one
    log,          \* how often the broker wrote a message
    (* history *)
    verdict,      \* what produce() returned for a message last
    taken,        \* messages rd_kafka_produce() took from produce()
    fails,        \* how often a message was reported as failed
    lost,         \* messages whose failure was not answered by a re-send
    recorded,     \* messages in the record file
    late          \* a synchronous produce() gave up on a message

callVars    == <<pc, current, polls, syncErr>>
kafkaVars   == <<queue, reports, batch>>
historyVars == <<verdict, taken, lost, recorded, late>>
vars == <<sync, record, isInit, callVars, kafkaVars, log, historyVars, fails>>

-----------------------------------------------------------------------------
Report == Msgs \X BOOLEAN
Pending == Len(queue) + Len(reports) + Len(batch)
Full == Pending >= QueueMax
\* Every message in librdkafka, once per copy.
Copies == queue \o [i \in DOMAIN reports |-> reports[i][1]]
                \o [i \in DOMAIN batch |-> batch[i][1]]
InFlight == Range(Copies)
Capped(n, max) == IF n < max THEN n + 1 ELSE max

TypeOK ==
    /\ sync \in BOOLEAN /\ record \in BOOLEAN /\ isInit \in BOOLEAN
    /\ pc \in {"new", "ready", "syncPoll", "serving", "flushing", "done"}
    /\ current \in {<<>>} \cup {<<m>> : m \in Msgs}
    /\ polls \in 0 .. MaxPolls
    /\ syncErr \in {"ok", "err", "init"}
    /\ queue \in Seq(Msgs)
    /\ reports \in Seq(Report) /\ batch \in Seq(Report)
    /\ log \in [Msgs -> Nat] /\ fails \in [Msgs -> Nat]
    /\ verdict \in [Msgs -> {"none", "true", "false"}]
    /\ taken \subseteq Msgs /\ lost \subseteq Msgs /\ recorded \subseteq Msgs
    /\ late \in BOOLEAN

\* What the configuration selects for the life of the producer.
Configured == sync \in SyncModes /\ record \in RecordModes

Init ==
    /\ Configured
    /\ isInit = FALSE /\ pc = "new"
    /\ current = <<>> /\ polls = 0 /\ syncErr = "ok"
    /\ queue = <<>> /\ reports = <<>> /\ batch = <<>>
    /\ log = [m \in Msgs |-> 0] /\ fails = [m \in Msgs |-> 0]
    /\ verdict = [m \in Msgs |-> "none"]
    /\ taken = {} /\ lost = {} /\ recorded = {} /\ late = FALSE

-----------------------------------------------------------------------------
(* init(), produce() and uninit() *)

\* Whether the configuration loads and the handle is made is any Boolean.
Initialise ==
    /\ pc = "new"
    /\ isInit' \in BOOLEAN
    /\ pc' = "ready"
    /\ UNCHANGED <<sync, record, current, polls, syncErr, kafkaVars, log,
                   historyVars, fails>>

\* produce() of a producer that is not initialised.
ProduceRefused(m) ==
    /\ pc = "ready" /\ ~isInit /\ verdict[m] = "none"
    /\ verdict' = [verdict EXCEPT ![m] = "false"]
    /\ UNCHANGED <<sync, record, isInit, callVars, kafkaVars, log, taken, lost,
                   recorded, late, fails>>

\* The application passes a message it has not passed before, or in the
\* asynchronous mode one that was refused.
MayProduce(m) ==
    /\ pc = "ready" /\ isInit
    /\ verdict[m] = "none" \/ (~sync /\ verdict[m] = "false")

\* rd_kafka_produce() fails; the reports are not polled.
ProduceFull(m) ==
    /\ MayProduce(m) /\ Full
    /\ syncErr' = "init"
    /\ verdict' = [verdict EXCEPT ![m] = "false"]
    /\ UNCHANGED <<sync, record, isInit, pc, current, polls, kafkaVars, log,
                   taken, lost, recorded, late, fails>>

\* Mutant: the error of the previous send is not reset.
ProduceKeepsError(m) ==
    /\ MayProduce(m) /\ ~Full
    /\ queue' = Append(queue, m)
    /\ taken' = taken \cup {m}
    /\ current' = <<m>>
    /\ polls' = 0
    /\ \/ sync /\ pc' = "syncPoll" /\ UNCHANGED <<reports, batch>>
       \/ ~sync /\ pc' = "serving" /\ batch' = reports /\ reports' = <<>>
    /\ UNCHANGED <<sync, record, isInit, syncErr, log, verdict, lost, recorded,
                   late, fails>>

\* rd_kafka_produce() takes the message; an asynchronous call goes on with
\* rd_kafka_poll(0), which takes every report there is.
Produce(m) ==
    /\ MayProduce(m) /\ ~Full
    /\ syncErr' = "init"
    /\ queue' = Append(queue, m)
    /\ taken' = taken \cup {m}
    /\ current' = <<m>>
    /\ polls' = 0
    /\ \/ sync /\ pc' = "syncPoll" /\ UNCHANGED <<reports, batch>>
       \/ ~sync /\ pc' = "serving" /\ batch' = reports /\ reports' = <<>>
    /\ UNCHANGED <<sync, record, isInit, log, verdict, lost, recorded, late, fails>>

\* Mutant: the wait has no end.
SyncPollUnbounded ==
    /\ pc = "syncPoll" /\ syncErr = "init"
    /\ polls' = polls + 1
    /\ pc' = "serving"
    /\ batch' = reports /\ reports' = <<>>
    /\ UNCHANGED <<sync, record, isInit, current, syncErr, queue, log,
                   historyVars, fails>>

\* One rd_kafka_poll(100) of the synchronous wait.
SyncPoll ==
    /\ pc = "syncPoll" /\ syncErr = "init" /\ polls < MaxPolls
    /\ polls' = polls + 1
    /\ pc' = "serving"
    /\ batch' = reports /\ reports' = <<>>
    /\ UNCHANGED <<sync, record, isInit, current, syncErr, queue, log,
                   historyVars, fails>>

\* The synchronous wait ends; produce() returns whether the error is none.
SyncDone ==
    /\ pc = "syncPoll" /\ (syncErr # "init" \/ polls = MaxPolls)
    /\ pc' = "ready"
    /\ verdict' = [verdict EXCEPT ![current[1]] =
                      IF syncErr = "ok" THEN "true" ELSE "false"]
    /\ late' = (late \/ syncErr = "init")
    /\ current' = <<>>
    /\ UNCHANGED <<sync, record, isInit, polls, syncErr, kafkaVars, log, taken,
                   lost, recorded, fails>>

\* Mutants: the callback sends again also while uninit() flushes; it sends a
\* delivered message again.
ResendsAlways(failed) == ~sync /\ failed
ResendsDelivered(failed) == ~sync /\ isInit

\* Whether the callback tries to send its message again.
Resends(failed) == ~sync /\ failed /\ isInit

\* Mutant: the record belongs to the synchronous branch.
RecordsIfSync(failed) == sync /\ failed /\ record

\* Whether it writes the message to the record file.
Records(failed) == failed /\ record

\* msgDeliveredCallback() for the next report of the batch.  A copy counts
\* until its callback has returned, so a full queue refuses the re-send.
ServeReport ==
    /\ pc = "serving" /\ batch # <<>>
    /\ LET m == Head(batch)[1]
           failed == Head(batch)[2]
       IN  /\ syncErr' = IF ~sync THEN syncErr ELSE IF failed THEN "err" ELSE "ok"
           /\ \/ /\ Resends(failed) /\ ~Full
                 /\ queue' = Append(queue, m)
                 /\ UNCHANGED lost
              \/ /\ ~Resends(failed) \/ Full
                 /\ lost' = IF failed /\ ~sync THEN lost \cup {m} ELSE lost
                 /\ UNCHANGED queue
           /\ recorded' = IF Records(failed) THEN recorded \cup {m} ELSE recorded
    /\ batch' = Tail(batch)
    /\ UNCHANGED <<sync, record, isInit, pc, current, polls, reports, log,
                   verdict, taken, late, fails>>

\* The poll returns: to uninit(), to the synchronous wait, or an asynchronous
\* produce() returns true.
PollReturn ==
    /\ pc = "serving" /\ batch = <<>>
    /\ \/ /\ ~isInit
          /\ pc' = "flushing"
          /\ UNCHANGED <<current, verdict>>
       \/ /\ isInit /\ sync
          /\ pc' = "syncPoll"
          /\ UNCHANGED <<current, verdict>>
       \/ /\ isInit /\ ~sync
          /\ pc' = "ready"
          /\ verdict' = [verdict EXCEPT ![current[1]] = "true"]
          /\ current' = <<>>
    /\ UNCHANGED <<sync, record, isInit, polls, syncErr, kafkaVars, log, taken,
                   lost, recorded, late, fails>>

\* uninit(), up to rd_kafka_flush().
Uninit ==
    /\ pc = "ready"
    /\ isInit' = FALSE
    /\ pc' = "flushing"
    /\ UNCHANGED <<sync, record, current, polls, syncErr, kafkaVars, log,
                   historyVars, fails>>

\* Mutant: uninit() sends again what the callback gave up.
FlushSendsLost ==
    /\ pc = "flushing" /\ Pending > 0
    /\ pc' = "serving"
    /\ batch' = reports /\ reports' = <<>>
    /\ queue' = queue \o SetToSeq(lost)
    /\ UNCHANGED <<sync, record, isInit, current, polls, syncErr, log,
                   historyVars, fails>>

\* rd_kafka_flush() polls while anything is pending.
FlushPoll ==
    /\ pc = "flushing" /\ Pending > 0
    /\ pc' = "serving"
    /\ batch' = reports /\ reports' = <<>>
    /\ UNCHANGED <<sync, record, isInit, current, polls, syncErr, queue, log,
                   historyVars, fails>>

\* Nothing is pending any more, or flush_timeout_ms_ is over; the handle is
\* destroyed with what it still holds.
Destroy ==
    /\ pc' = "done"
    /\ queue' = <<>> /\ reports' = <<>>
    /\ UNCHANGED <<sync, record, isInit, current, polls, syncErr, batch, log,
                   historyVars, fails>>

FlushDone == pc = "flushing" /\ Pending = 0 /\ Destroy
FlushTimeout == pc = "flushing" /\ Pending > 0 /\ Destroy
Done == pc = "done" /\ UNCHANGED vars

-----------------------------------------------------------------------------
(* librdkafka resolves a message of the queue *)

Resolve(i, failed) ==
    /\ queue' = RemoveAt(queue, i)
    /\ reports' = Append(reports, <<queue[i], failed>>)
    /\ UNCHANGED <<sync, record, isInit, callVars, batch, historyVars>>

Written(m) == log' = [log EXCEPT ![m] = Capped(@, MaxFails + 1)]

Deliver(i) == Resolve(i, FALSE) /\ Written(queue[i]) /\ UNCHANGED fails

\* A message that times out may have been written all the same.
Fail(i) ==
    /\ Resolve(i, TRUE)
    /\ fails' = [fails EXCEPT ![queue[i]] = Capped(@, MaxFails)]
    /\ Written(queue[i]) \/ UNCHANGED log

-----------------------------------------------------------------------------
Application ==
    \/ Initialise \/ Uninit \/ Done
    \/ \E m \in Msgs : ProduceRefused(m) \/ ProduceFull(m) \/ Produce(m)

InsideCall ==
    SyncPoll \/ SyncDone \/ ServeReport \/ PollReturn \/ FlushPoll \/ FlushDone

Broker == \E i \in DOMAIN queue : Deliver(i) \/ Fail(i)

Next == Application \/ InsideCall \/ FlushTimeout \/ Broker

Spec == Init /\ [][Next]_vars

\* Calls go on once begun and librdkafka resolves what it holds, be it by its
\* timeouts.  Nothing makes the application call, a broker accept a message or
\* the timeout of the flush happen.
Fairness ==
    /\ WF_vars(InsideCall) /\ WF_vars(Broker)

FairSpec == Spec /\ Fairness

\* The application passes every message until it is taken, and the brokers
\* deliver.
RetryingSpec ==
    /\ Spec
    /\ WF_vars(InsideCall)
    /\ WF_vars(\E i \in DOMAIN queue : Deliver(i))
    /\ \A m \in Msgs : WF_vars(ProduceFull(m) \/ Produce(m))

-----------------------------------------------------------------------------
(* Properties *)

\* The broker has a message more than once only if an attempt was reported as
\* failed: re-sending is the only source of duplicates.
DuplicatesAreResends == \A m \in Msgs : log[m] <= fails[m] + 1

\* Until the handle is destroyed, what rd_kafka_produce() took is in librdkafka,
\* written, or, with recording on, in the record file.
NothingVanishes ==
    record /\ pc # "done" =>
        \A m \in taken : m \in InFlight \/ log[m] > 0 \/ m \in recorded

\* As long as no synchronous send has run out of polls, produce() returns the
\* result of its own message.
SyncTruth ==
    sync /\ ~late => \A m \in Msgs :
        /\ verdict[m] = "true" => log[m] > 0
        /\ verdict[m] = "false" => m \notin InFlight /\ (m \in taken => fails[m] > 0)

\* "produce interface will return value directively that indicate whether the
\* current message has been written" (README.md): true means written.
SyncResult == sync => \A m \in Msgs : verdict[m] = "true" => log[m] > 0

\* uninit() needs no timeout to end: the flush empties librdkafka even when
\* every message fails, since the callback does not send again any more.
FlushDrains == pc = "flushing" ~> pc = "done"

\* "The SDK will do it's best to submit every single message" (README.md): a
\* refused message that the application keeps passing is taken some time.
RefusedIsTaken ==
    \A m \in Msgs : verdict[m] = "false" /\ isInit ~> verdict[m] = "true" \/ ~isInit

\* The promise of a producer: a message is written only between its acceptance
\* and the end of its sending, and an ended one is never sent again.
Sending == INSTANCE Delivery WITH
    state <- [m \in Msgs |-> IF m \in InFlight THEN "sending"
                             ELSE IF m \in taken THEN "ended" ELSE "new"],
    written <- log,
    MaxWrites <- MaxFails + 1
ImplementsDelivery == Sending!Spec
=============================================================================
