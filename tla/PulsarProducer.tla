---------------------------- MODULE PulsarProducer ----------------------------
(***************************************************************************)
(* qbus::pulsar::QbusProducer (pulsar/qbus_producer.cc) and its send        *)
(* callback (pulsar/retryable_send_callback.cc): the application thread     *)
(* sends again while the client's queue is full, and the client's I/O       *)
(* thread sends again what has timed out.                                   *)
(*                                                                          *)
(* The client answers a message by taking it off `queue` and running its    *)
(* callback; `answers` are the callbacks that are still to run.  Every      *)
(* callback of one sendAsync() of the application shares its result_ with   *)
(* the application thread, which reads it right after the call.             *)
(***************************************************************************)
EXTENDS Naturals, Sequences, SequencesExt

CONSTANTS
    Msgs,             \* what the application produces
    QueueMax,         \* max.pending.messages
    QueueFullRetries, \* queue.full.retry.count
    TimeoutRetries    \* timeout.retry.count

ASSUME ProducerAssumption ==
    /\ QueueMax \in Nat \ {0}
    /\ QueueFullRetries \in Nat
    /\ TimeoutRetries \in Nat

VARIABLES
    pc,          \* where the application thread is
    hasClient,   \* client_
    current,     \* the message of the produce() under way: <<m>> or <<>>
    tries,       \* i of sendAsync()'s loop
    result,      \* per message: *result_ of the callback sent last
    (* the client *)
    closed,      \* the producer is closed
    queue,       \* <<message, retry_count_>> that wait for an acknowledgement
    answers,     \* <<message, retry_count_, result>>: callbacks to run
    io,          \* the callback that is about to send again, or <<>>
    log,         \* how often the broker wrote a message
    (* history *)
    verdict,     \* what produce() returned for a message
    sends,       \* how often the client took a message
    timeouts     \* how often a message timed out

vars == <<pc, hasClient, current, tries, result, closed, queue, answers, io, log,
          verdict, sends, timeouts>>

Results == {"ok", "timeout", "full", "error"}
MaxTaken == TimeoutRetries * QueueFullRetries + 1
Retries == 0 .. TimeoutRetries

TypeOK ==
    /\ pc \in {"new", "ready", "loop", "read", "flush", "done"}
    /\ hasClient \in BOOLEAN /\ closed \in BOOLEAN
    /\ current \in {<<>>} \cup {<<m>> : m \in Msgs}
    /\ tries \in 0 .. QueueFullRetries
    /\ result \in [Msgs -> Results]
    /\ queue \in Seq(Msgs \X Retries)
    /\ answers \in Seq(Msgs \X Retries \X (Results \ {"full"}))
    /\ io \in {<<>>} \cup (Msgs \X Retries)
    /\ log \in [Msgs -> Nat] /\ sends \in [Msgs -> Nat] /\ timeouts \in [Msgs -> Nat]
    /\ verdict \in [Msgs -> {"none", "true", "false"}]

Init ==
    /\ pc = "new" /\ hasClient = FALSE /\ current = <<>> /\ tries = 0
    /\ result = [m \in Msgs |-> "ok"]
    /\ closed = FALSE /\ queue = <<>> /\ answers = <<>> /\ io = <<>>
    /\ log = [m \in Msgs |-> 0]
    /\ verdict = [m \in Msgs |-> "none"]
    /\ sends = [m \in Msgs |-> 0] /\ timeouts = [m \in Msgs |-> 0]

Full == Len(queue) >= QueueMax
\* Every message the client or one of its callbacks still works on, per copy.
Copies == [i \in DOMAIN queue |-> queue[i][1]]
          \o [i \in DOMAIN answers |-> answers[i][1]]
          \o (IF io = <<>> THEN <<>> ELSE <<io[1]>>)
InFlight == Range(Copies)

-----------------------------------------------------------------------------
(* The application thread *)

\* Whether the configuration loads and the producer is created is any Boolean.
Initialise ==
    /\ pc = "new"
    /\ hasClient' \in BOOLEAN
    /\ pc' = "ready"
    /\ UNCHANGED <<current, tries, result, closed, queue, answers, io, log,
                   verdict, sends, timeouts>>

ProduceRefused(m) ==
    /\ pc = "ready" /\ ~hasClient /\ verdict[m] = "none"
    /\ verdict' = [verdict EXCEPT ![m] = "false"]
    /\ UNCHANGED <<pc, hasClient, current, tries, result, closed, queue, answers,
                   io, log, sends, timeouts>>

Produce(m) ==
    /\ pc = "ready" /\ hasClient /\ verdict[m] = "none"
    /\ pc' = "loop"
    /\ current' = <<m>>
    /\ tries' = 0
    /\ UNCHANGED <<hasClient, result, closed, queue, answers, io, log, verdict,
                   sends, timeouts>>

\* The client's sendAsync(): it takes the message, or runs the callback at once
\* with an error; r is what the result_ of the callback is afterwards.
ClientSend(m, n, taken, refused) ==
    \/ /\ ~Full /\ ~closed
       /\ queue' = Append(queue, <<m, n>>)
       /\ sends' = [sends EXCEPT ![m] = @ + 1]
       /\ result' = [result EXCEPT ![m] = taken]
    \/ /\ Full /\ ~closed
       /\ result' = [result EXCEPT ![m] = "full"]
       /\ UNCHANGED <<queue, sends>>
    \/ /\ refused
       /\ result' = [result EXCEPT ![m] = "error"]
       /\ UNCHANGED <<queue, sends>>

\* One round of the loop, with a callback whose result_ is ResultOk.
SendAsync ==
    /\ pc = "loop" /\ tries < QueueFullRetries
    /\ ClientSend(current[1], 0, "ok", TRUE)
    /\ pc' = "read"
    /\ UNCHANGED <<hasClient, current, tries, closed, answers, io, log, verdict,
                   timeouts>>

Return(value) ==
    /\ pc' = "ready"
    /\ verdict' = [verdict EXCEPT ![current[1]] = value]
    /\ current' = <<>>

\* Mutant: every error is tried again.
ReadResultRetriesAll ==
    /\ pc = "read"
    /\ \/ /\ result[current[1]] = "ok"
          /\ Return("true")
          /\ UNCHANGED tries
       \/ /\ result[current[1]] # "ok"
          /\ tries' = tries + 1
          /\ pc' = "loop"
          /\ UNCHANGED <<current, verdict>>
    /\ UNCHANGED <<hasClient, result, closed, queue, answers, io, log, sends,
                   timeouts>>

\* callback.result(): only a full queue is tried again.
ReadResult ==
    /\ pc = "read"
    /\ \/ /\ result[current[1]] = "ok"
          /\ Return("true")
          /\ UNCHANGED tries
       \/ /\ result[current[1]] = "full"
          /\ tries' = tries + 1
          /\ pc' = "loop"
          /\ UNCHANGED <<current, verdict>>
       \/ /\ result[current[1]] \notin {"ok", "full"}
          /\ Return("false")
          /\ UNCHANGED tries
    /\ UNCHANGED <<hasClient, result, closed, queue, answers, io, log, sends,
                   timeouts>>

\* The loop ends: ResultProducerQueueIsFull.
GiveUp ==
    /\ pc = "loop" /\ tries = QueueFullRetries
    /\ Return("false")
    /\ UNCHANGED <<hasClient, tries, result, closed, queue, answers, io, log,
                   sends, timeouts>>

\* uninit(), up to the return of flush(), whatever it returns.
Uninit ==
    /\ pc = "ready" /\ hasClient
    /\ pc' = "flush"
    /\ UNCHANGED <<hasClient, current, tries, result, closed, queue, answers, io,
                   log, verdict, sends, timeouts>>

\* close() answers everything that is left.
Close ==
    /\ pc = "flush"
    /\ pc' = "done"
    /\ hasClient' = FALSE
    /\ closed' = TRUE
    /\ answers' = answers \o [i \in DOMAIN queue |-> queue[i] \o <<"error">>]
    /\ queue' = <<>>
    /\ UNCHANGED <<current, tries, result, io, log, verdict, sends, timeouts>>

\* uninit() or produce() of a producer without a client changes nothing.
Done == (pc = "done" \/ ~hasClient) /\ UNCHANGED vars

-----------------------------------------------------------------------------
(* The client answers a message and runs its callback *)

\* The broker acknowledges it, its timeout is over, or it fails otherwise; what
\* failed may have been written all the same.
Answer(i, r) ==
    /\ answers' = Append(answers, queue[i] \o <<r>>)
    /\ queue' = RemoveAt(queue, i)
    /\ log' = [log EXCEPT ![queue[i][1]] = @ + 1] \/ (r # "ok" /\ UNCHANGED log)
    /\ timeouts' = [timeouts EXCEPT ![queue[i][1]] = IF r = "timeout" THEN @ + 1 ELSE @]
    /\ UNCHANGED <<pc, hasClient, current, tries, result, closed, io, verdict,
                   sends>>

\* Mutant: one retry too many.
RetriesOneMore(n) == n <= TimeoutRetries

\* retry_count_ < max_retry_count_
MayRetry(n) == n < TimeoutRetries

\* Mutant: retry_count_ is not counted.
CallbackForgetsCount ==
    /\ io = <<>> /\ answers # <<>>
    /\ LET m == Head(answers)[1]
           n == Head(answers)[2]
           r == Head(answers)[3]
       IN  /\ result' = [result EXCEPT ![m] = r]
           /\ io' = IF r = "timeout" /\ MayRetry(n) THEN <<m, n>> ELSE <<>>
    /\ answers' = Tail(answers)
    /\ UNCHANGED <<pc, hasClient, current, tries, closed, queue, log, verdict,
                   sends, timeouts>>

\* Mutant: every error is retried.
CallbackRetriesErrors ==
    /\ io = <<>> /\ answers # <<>>
    /\ LET m == Head(answers)[1]
           n == Head(answers)[2]
           r == Head(answers)[3]
       IN  /\ result' = [result EXCEPT ![m] = r]
           /\ io' = IF r # "ok" /\ MayRetry(n) THEN <<m, n + 1>> ELSE <<>>
    /\ answers' = Tail(answers)
    /\ UNCHANGED <<pc, hasClient, current, tries, closed, queue, log, verdict,
                   sends, timeouts>>

\* RetryableSendCallback::operator(), up to its own sendAsync().
Callback ==
    /\ io = <<>> /\ answers # <<>>
    /\ LET m == Head(answers)[1]
           n == Head(answers)[2]
           r == Head(answers)[3]
       IN  /\ result' = [result EXCEPT ![m] = r]
           /\ io' = IF r = "timeout" /\ MayRetry(n) THEN <<m, n + 1>> ELSE <<>>
    /\ answers' = Tail(answers)
    /\ UNCHANGED <<pc, hasClient, current, tries, closed, queue, log, verdict,
                   sends, timeouts>>

\* Mutant: a re-send waits for an open producer.
CallbackSendWaits ==
    /\ io # <<>> /\ ~closed
    /\ ClientSend(io[1], io[2], result[io[1]], FALSE)
    /\ io' = <<>>
    /\ UNCHANGED <<pc, hasClient, current, tries, closed, answers, log, verdict,
                   timeouts>>

\* A re-send that is taken leaves result_ as it is; one that finds the queue
\* full sets it and is dropped, and so is one of a closed producer.
CallbackSend ==
    /\ io # <<>>
    /\ ClientSend(io[1], io[2], result[io[1]], closed)
    /\ io' = <<>>
    /\ UNCHANGED <<pc, hasClient, current, tries, closed, answers, log, verdict,
                   timeouts>>

-----------------------------------------------------------------------------
Application ==
    \/ Initialise \/ Uninit \/ Done
    \/ \E m \in Msgs : ProduceRefused(m) \/ Produce(m)

InsideCall == SendAsync \/ ReadResult \/ GiveUp \/ Close

IoThread == Callback \/ CallbackSend

Broker == \E i \in DOMAIN queue, r \in {"ok", "timeout", "error"} : Answer(i, r)

Next == Application \/ InsideCall \/ IoThread \/ Broker

Spec == Init /\ [][Next]_vars

\* Calls go on once begun, the I/O thread runs its callbacks, and every queued
\* message is answered, be it by its timeout.
Fairness == WF_vars(InsideCall) /\ WF_vars(IoThread) /\ WF_vars(Broker)

FairSpec == Spec /\ Fairness

-----------------------------------------------------------------------------
(* Properties *)

\* The broker has a message more than once only if a send of it timed out:
\* re-sending is the only source of duplicates.
DuplicatesAreRetries == \A m \in Msgs : log[m] <= timeouts[m] + 1

\* At whatever interleaving of the two threads the client takes a message at most
\* timeout.retry.count + 1 times for the last round of the loop, and one time less
\* for each round that saw a full queue.
SendsBounded == \A m \in Msgs : sends[m] <= MaxTaken

\* A message that produce() refused is in flight only if it timed out before
\* produce() had read its result.
RefusedIsNotSent ==
    \A m \in Msgs : verdict[m] = "false" /\ timeouts[m] = 0 => m \notin InFlight

\* Re-sending ends: no message stays in flight for ever.
SendingEnds == \A m \in Msgs : m \in InFlight ~> m \notin InFlight

\* The promise of a producer: a message is written only between its acceptance
\* and the end of its sending, and an ended one is never sent again.
Sending == INSTANCE Delivery WITH
    state <- [m \in Msgs |-> IF m \in InFlight \/ current = <<m>> THEN "sending"
                             ELSE IF verdict[m] # "none" /\ (hasClient \/ closed)
                             THEN "ended" ELSE "new"],
    written <- log,
    MaxWrites <- MaxTaken
ImplementsDelivery == Sending!Spec
=============================================================================
