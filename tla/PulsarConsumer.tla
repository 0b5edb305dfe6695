---------------------------- MODULE PulsarConsumer ----------------------------
(***************************************************************************)
(* qbus::pulsar::QbusConsumer (pulsar/qbus_consumer.cc) and its PHP form    *)
(* (pulsar/qbus_php_consumer.cc): the consume loop, the cumulative          *)
(* acknowledgements made by its timer, by commitOffset(), by stop() and by  *)
(* the destructor.                                                          *)
(*                                                                          *)
(* The messages of a topic are numbered from 1, so that 0 is the empty      *)
(* MessageId().  Every start() launches a loop of its own; a forced stop()  *)
(* may leave one running.  topic_latest_msg_id_map_ has no lock: a thread   *)
(* that is about to read or write it is in a state of its own.              *)
(***************************************************************************)
EXTENDS Naturals

CONSTANTS
    Topics,
    MaxMsg,        \* bound: messages of a topic
    MaxStarts,     \* bound: calls of start()
    Builds,        \* "callback", "php"
    ManualModes,   \* values of manual.ack
    ForceModes,    \* values of force.stop
    AckFailures    \* whether an acknowledgement may fail

Loops == 1 .. MaxStarts

ASSUME PulsarAssumption ==
    /\ MaxMsg \in Nat
    /\ MaxStarts \in Nat \ {0}
    /\ Builds \subseteq {"callback", "php"}
    /\ ManualModes \subseteq BOOLEAN /\ ForceModes \subseteq BOOLEAN
    /\ AckFailures \in BOOLEAN

VARIABLES
    build, manual, force,   \* how the consumer was built and configured
    running,      \* running_
    starts,       \* loops launched so far
    appPc,        \* the application thread
    loopPc,       \* per loop: where consumeLoop() is
    msg,          \* per loop: the message it received, <<topic, number>>; a PHP
                  \* process keeps the one it was given in the first
    latest,       \* topic_latest_msg_id_map_
    due,          \* the timer's interval has elapsed
    next,         \* per topic: number of the next message received
    acked,        \* per topic: position of the subscription
    processed,    \* per topic: the last message the user has processed
    committed     \* per topic: the last one passed to commitOffset()

config == <<build, manual, force>>
vars == <<config, running, starts, appPc, loopPc, msg, latest, due, next, acked,
          processed, committed>>

NoMsg == <<>>
Larger(x, y) == IF x > y THEN x ELSE y

TypeOK ==
    /\ build \in Builds /\ manual \in BOOLEAN /\ force \in BOOLEAN
    /\ running \in BOOLEAN
    /\ starts \in 0 .. MaxStarts
    /\ appPc \in {"idle", "user", "starting", "joining", "stopAck", "dtorAck",
                  "destroyed"}
    /\ loopPc \in [Loops -> {"none", "begin", "head", "receive", "record",
                             "callback", "defer", "ack", "ended"}]
    /\ msg \in [Loops -> {NoMsg} \cup (Topics \X (1 .. MaxMsg))]
    /\ latest \in [Topics -> 0 .. MaxMsg]
    /\ due \in BOOLEAN
    /\ next \in [Topics -> 1 .. MaxMsg + 1]
    /\ acked \in [Topics -> 0 .. MaxMsg]
    /\ processed \in [Topics -> 0 .. MaxMsg]
    /\ committed \in [Topics -> 0 .. MaxMsg]

\* The consumer after init() and subscribe().
Init ==
    /\ build \in Builds /\ manual \in ManualModes /\ force \in ForceModes
    /\ build = "php" => ~force
    /\ running = FALSE /\ starts = 0 /\ appPc = "idle"
    /\ loopPc = [i \in Loops |-> "none"]
    /\ msg = [i \in Loops |-> NoMsg]
    /\ latest = [t \in Topics |-> 0]
    /\ due = FALSE
    /\ next = [t \in Topics |-> 1]
    /\ acked = [t \in Topics |-> 0]
    /\ processed = [t \in Topics |-> 0]
    /\ committed = [t \in Topics |-> 0]

-----------------------------------------------------------------------------
(* Acknowledgements *)

\* Mutant: the ids are forgotten whether or not they were acknowledged.
ForgetsFailed(ids, ok) ==
    /\ acked' = [t \in Topics |->
                    IF t \in ok THEN Larger(acked[t], ids[t]) ELSE acked[t]]
    /\ latest' = [t \in Topics |-> 0]

\* Mutant: the acknowledgement is off by one.
AcknowledgesNext(ids, ok) ==
    /\ acked' = [t \in Topics |->
                    IF t \in ok THEN Larger(acked[t], ids[t] + 1) ELSE acked[t]]
    /\ latest' = [t \in Topics |-> IF t \in ok THEN 0 ELSE ids[t]]

\* The map and the subscription when the topics of ok are acknowledged.
AcknowledgedFrom(ids, ok) ==
    /\ acked' = [t \in Topics |->
                    IF t \in ok THEN Larger(acked[t], ids[t]) ELSE acked[t]]
    /\ latest' = [t \in Topics |-> IF t \in ok THEN 0 ELSE ids[t]]

Outcomes == IF AckFailures THEN SUBSET Topics ELSE {Topics}

\* acknowledgeAll(): an id is forgotten when its acknowledgement succeeds.
AcknowledgeAll(ids) == \E ok \in Outcomes : AcknowledgedFrom(ids, ok)

\* Mutant: the timer acknowledges although the user does it.
IntervalIsOverAlways == due

\* checkTimeThenAcknowledgeAll() acknowledges, and the interval begins anew.
IntervalIsOver == ~manual /\ due

-----------------------------------------------------------------------------
(* consumeLoop() *)

Goto(i, from, to) ==
    /\ loopPc[i] = from
    /\ loopPc' = [loopPc EXCEPT ![i] = to]

LoopBegin(i) ==
    /\ Goto(i, "begin", "head")
    /\ due' = FALSE
    /\ UNCHANGED <<config, running, starts, appPc, msg, latest, next, acked,
                   processed, committed>>

\* Mutant: the loop does not look at running_.
LoopTestIgnores(i) ==
    /\ Goto(i, "head", "receive")
    /\ UNCHANGED <<config, running, starts, appPc, msg, latest, due, next, acked,
                   processed, committed>>

LoopTest(i) ==
    /\ Goto(i, "head", IF running THEN "receive" ELSE "ended")
    /\ UNCHANGED <<config, running, starts, appPc, msg, latest, due, next, acked,
                   processed, committed>>

\* Mutant: no acknowledgement when nothing was received.
ReceiveNothingSkips(i) ==
    /\ Goto(i, "receive", "head")
    /\ UNCHANGED <<config, running, starts, appPc, msg, latest, due, next, acked,
                   processed, committed>>

\* receive() times out or fails.
ReceiveNothing(i) ==
    /\ Goto(i, "receive", "defer")
    /\ UNCHANGED <<config, running, starts, appPc, msg, latest, due, next, acked,
                   processed, committed>>

Receive(i, t) ==
    /\ Goto(i, "receive", "record")
    /\ appPc # "destroyed"
    /\ next[t] <= MaxMsg
    /\ msg' = [msg EXCEPT ![i] = <<t, next[t]>>]
    /\ next' = [next EXCEPT ![t] = @ + 1]
    /\ UNCHANGED <<config, running, starts, appPc, latest, due, acked, processed,
                   committed>>

\* Mutant: a message is acknowledged when it is received.
RecordAcknowledges(i) ==
    /\ Goto(i, "record", "callback")
    /\ AcknowledgeAll([latest EXCEPT ![msg[i][1]] = msg[i][2]])
    /\ UNCHANGED <<config, running, starts, appPc, msg, due, next, processed,
                   committed>>

\* The id is stored whether or not acknowledgements are manual.
Record(i) ==
    /\ Goto(i, "record", "callback")
    /\ latest' = [latest EXCEPT ![msg[i][1]] = msg[i][2]]
    /\ UNCHANGED <<config, running, starts, appPc, msg, due, next, acked,
                   processed, committed>>

CallbackReturn(i) ==
    /\ Goto(i, "callback", "defer")
    /\ processed' = [processed EXCEPT ![msg[i][1]] = Larger(@, msg[i][2])]
    /\ msg' = [msg EXCEPT ![i] = NoMsg]
    /\ UNCHANGED <<config, running, starts, appPc, latest, due, next, acked,
                   committed>>

\* The destructor of DeferAcknowledge, on every way out of the loop's body.
Defer(i) ==
    /\ Goto(i, "defer", IF IntervalIsOver THEN "ack" ELSE "head")
    /\ due' = (due /\ ~IntervalIsOver)
    /\ UNCHANGED <<config, running, starts, appPc, msg, latest, next, acked,
                   processed, committed>>

Acknowledge(i) ==
    /\ Goto(i, "ack", "head")
    /\ AcknowledgeAll(latest)
    /\ UNCHANGED <<config, running, starts, appPc, msg, due, next, processed,
                   committed>>

Loop(i) ==
    \/ LoopBegin(i) \/ LoopTest(i) \/ ReceiveNothing(i) \/ Record(i)
    \/ CallbackReturn(i) \/ Defer(i) \/ Acknowledge(i)

-----------------------------------------------------------------------------
(* The application *)

\* start() lets the new loop run before it replaces the future of the last one.
Start ==
    /\ build = "callback"
    /\ appPc = "idle" /\ ~running /\ starts < MaxStarts
    /\ running' = TRUE
    /\ starts' = starts + 1
    /\ loopPc' = [loopPc EXCEPT ![starts + 1] = "begin"]
    /\ appPc' = "starting"
    /\ UNCHANGED <<config, msg, latest, due, next, acked, processed, committed>>

\* Mutant: start() waits for the loop that it has launched.
StartWaits ==
    /\ appPc = "starting"
    /\ loopPc[starts] = "ended"
    /\ appPc' = "idle"
    /\ UNCHANGED <<config, running, starts, loopPc, msg, latest, due, next, acked,
                   processed, committed>>

\* Replacing a future of std::async() waits for its loop.
StartReturn ==
    /\ appPc = "starting"
    /\ starts > 1 => loopPc[starts - 1] = "ended"
    /\ appPc' = "idle"
    /\ UNCHANGED <<config, running, starts, loopPc, msg, latest, due, next, acked,
                   processed, committed>>

\* Mutant: no stop() waits for the loop.
StopNeverWaits ==
    /\ build = "callback"
    /\ appPc = "idle" /\ running
    /\ running' = FALSE
    /\ appPc' = "stopAck"
    /\ UNCHANGED <<config, starts, loopPc, msg, latest, due, next, acked,
                   processed, committed>>

\* A forced stop() waits a millisecond, any other one for the loop.
Stop ==
    /\ build = "callback"
    /\ appPc = "idle" /\ running
    /\ running' = FALSE
    /\ appPc' = IF force THEN "stopAck" ELSE "joining"
    /\ UNCHANGED <<config, starts, loopPc, msg, latest, due, next, acked,
                   processed, committed>>

Join ==
    /\ appPc = "joining" /\ loopPc[starts] = "ended"
    /\ appPc' = "stopAck"
    /\ UNCHANGED <<config, running, starts, loopPc, msg, latest, due, next, acked,
                   processed, committed>>

StopAck ==
    /\ appPc = "stopAck"
    /\ AcknowledgeAll(latest)
    /\ appPc' = "idle"
    /\ UNCHANGED <<config, running, starts, loopPc, msg, due, next, processed,
                   committed>>

\* The destructor, called by an application that has stopped the consumer; a PHP
\* process may leave that out.
Destroy ==
    /\ appPc = "idle" /\ (running => build = "php")
    /\ appPc' = "dtorAck"
    /\ UNCHANGED <<config, running, starts, loopPc, msg, latest, due, next, acked,
                   processed, committed>>

DtorAck ==
    /\ appPc = "dtorAck"
    /\ AcknowledgeAll(latest)
    /\ appPc' = "destroyed"
    /\ UNCHANGED <<config, running, starts, loopPc, msg, due, next, processed,
                   committed>>

Destroyed == appPc = "destroyed" /\ UNCHANGED vars

\* The user has been given the message and has not finished with it.
InHand(t, n) ==
    \E i \in Loops : msg[i] = <<t, n>> /\ (loopPc[i] = "callback" \/ appPc = "user")

\* commitOffset() in the manual mode, of a message the user has been given.
UserCommit(t, n) ==
    /\ manual /\ appPc # "destroyed"
    /\ n <= processed[t] \/ InHand(t, n)
    /\ committed' = [committed EXCEPT ![t] = Larger(@, n)]
    /\ \/ acked' = [acked EXCEPT ![t] = Larger(@, n)]
       \/ AckFailures /\ UNCHANGED acked
    /\ UNCHANGED <<config, running, starts, appPc, loopPc, msg, latest, due, next,
                   processed>>

TimePasses ==
    /\ ~due
    /\ due' = TRUE
    /\ UNCHANGED <<config, running, starts, appPc, loopPc, msg, latest, next, acked,
                   processed, committed>>

-----------------------------------------------------------------------------
(* The PHP build: one thread, no loop *)

PhpStart ==
    /\ build = "php"
    /\ appPc = "idle" /\ ~running /\ starts < MaxStarts
    /\ running' = TRUE
    /\ starts' = starts + 1
    /\ due' = FALSE
    /\ UNCHANGED <<config, appPc, loopPc, msg, latest, next, acked, processed,
                   committed>>

PhpStop ==
    /\ build = "php"
    /\ appPc = "idle" /\ running
    /\ running' = FALSE
    /\ UNCHANGED <<config, starts, appPc, loopPc, msg, latest, due, next, acked,
                   processed, committed>>

\* The acknowledgement of DeferAcknowledge when consume() returns.
DeferAcknowledge(ids) ==
    /\ due' = (due /\ ~IntervalIsOver)
    /\ IF IntervalIsOver THEN AcknowledgeAll(ids)
                         ELSE latest' = ids /\ UNCHANGED acked

PhpConsumeNothing ==
    /\ build = "php"
    /\ appPc = "idle" /\ running
    /\ DeferAcknowledge(latest)
    /\ UNCHANGED <<config, running, starts, appPc, loopPc, msg, next, processed,
                   committed>>

\* consume(): the message is recorded, and may be acknowledged, before the user
\* is given it.
PhpConsume(t) ==
    /\ build = "php"
    /\ appPc = "idle" /\ running
    /\ next[t] <= MaxMsg
    /\ next' = [next EXCEPT ![t] = @ + 1]
    /\ msg' = [msg EXCEPT ![1] = <<t, next[t]>>]
    /\ appPc' = "user"
    /\ DeferAcknowledge([latest EXCEPT ![t] = next[t]])
    /\ UNCHANGED <<config, running, starts, loopPc, processed, committed>>

PhpProcess ==
    /\ appPc = "user"
    /\ appPc' = "idle"
    /\ processed' = [processed EXCEPT ![msg[1][1]] = msg[1][2]]
    /\ msg' = [msg EXCEPT ![1] = NoMsg]
    /\ UNCHANGED <<config, running, starts, loopPc, latest, due, next, acked,
                   committed>>

-----------------------------------------------------------------------------
Application ==
    \/ Start \/ StartReturn \/ Stop \/ Join \/ StopAck
    \/ Destroy \/ DtorAck \/ Destroyed
    \/ PhpStart \/ PhpStop \/ PhpConsumeNothing \/ PhpProcess
    \/ \E t \in Topics : PhpConsume(t)

Next ==
    \/ \E i \in Loops : Loop(i) \/ \E t \in Topics : Receive(i, t)
    \/ Application
    \/ \E t \in Topics, n \in 1 .. MaxMsg : UserCommit(t, n)
    \/ TimePasses

Spec == Init /\ [][Next]_vars

\* The loops run and their callbacks return, receive() times out or returns a
\* message, the clock advances, and a call of the application's goes on to its
\* end.  A loop whose interval is over again and again acknowledges at last.
Fairness ==
    /\ \A i \in Loops : WF_vars(Loop(i))
    /\ WF_vars(StartReturn) /\ WF_vars(Join) /\ WF_vars(StopAck) /\ WF_vars(DtorAck)
    /\ WF_vars(TimePasses)
    /\ \A i \in Loops :
          SF_vars(loopPc[i] = "ack" /\ AcknowledgedFrom(latest, Topics) /\ Acknowledge(i))

FairSpec == Spec /\ Fairness

-----------------------------------------------------------------------------
(* Properties *)

\* topic_latest_msg_id_map_ and its ids are used by one thread at a time, and by
\* none once the consumer is destroyed, although no lock guards them: a stop()
\* that is not forced waits for the loop before acknowledgeAll() walks the map.
MapExclusive ==
    ~force =>
        LET inMap == {i \in Loops : loopPc[i] \in {"record", "ack"}}
        IN  /\ \A i, j \in inMap : i = j
            /\ appPc \in {"stopAck", "dtorAck", "destroyed"} => inMap = {}

\* A subscription moves only past messages the user has processed or committed.
\* A forced stop(), and the PHP build's consume(), may also acknowledge the one
\* message the user is still busy with.
AckedIsProcessed ==
    \A t \in Topics :
        \/ acked[t] <= Larger(processed[t], committed[t])
        \/ (force \/ build = "php") /\ InHand(t, acked[t])

\* Without a forced stop() no processed message is forgotten: it is acknowledged,
\* or its topic's id still waits in the map, whatever acknowledgements failed.
NothingForgotten ==
    ~force => \A t \in Topics : processed[t] <= Larger(acked[t], latest[t])

\* When acknowledgements are manual, only commitOffset() moves a subscription as
\* long as neither stop() nor the destructor is at work.
ManualAcksAreCommits ==
    [][\A t \in Topics :
          manual /\ acked'[t] # acked[t] =>
              acked'[t] <= committed'[t] \/ appPc \in {"stopAck", "dtorAck"}]_vars

\* stop() returns: the loop sees the flag within one more pass.
StopReturns == appPc \in {"joining", "stopAck"} ~> appPc = "idle"

\* Without a forced stop() start() returns: the future it replaces has been
\* waited for.
StartReturns == (appPc = "starting" /\ ~force) ~> appPc = "idle"

\* The id of a message is acknowledged within the interval, or the consumer is
\* stopped, although no further message may come and acknowledgements may fail.
WaitingIsAcked ==
    \A t \in Topics :
        (latest[t] # 0 /\ ~manual /\ build = "callback") ~> (latest[t] = 0 \/ ~running)
=============================================================================
