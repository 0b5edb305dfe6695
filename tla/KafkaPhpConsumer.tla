-------------------------- MODULE KafkaPhpConsumer --------------------------
(***************************************************************************)
(* The PHP build of qbus::kafka::QbusConsumer (NOT_USE_CONSUMER_CALLBACK):  *)
(* no poll thread; the script polls with consume(), processes what it       *)
(* returns, and calls commitOffset(), pause(), stop() and start() in        *)
(* between, all on one thread.  The maps, the rebalance callback and most   *)
(* of stop() are those of KafkaConsumer, whose variables this module has:   *)
(* here pollPc is where consume() is ("idle" between the calls), `cur` is   *)
(* not used, and CommitPolicy is "worker", any message at any time.         *)
(***************************************************************************)
EXTENDS KafkaConsumer

ASSUME PhpAssumption == CommitPolicy = "worker"

VARIABLES
    got,        \* <<p, n>>: returned by consume() and not yet processed, or <<>>
    owed,       \* per partition: the offset registered for its next commit, or 0
    quiet,      \* topics paused by the script since the last rebalance
    restarted,  \* start() was called on a consumer that was stopped
    crashed,    \* the process is gone: a NULL handle was polled
    displaced,  \* partitions whose owed offset gave way to another partition's
    mixed,      \* history: messages of two partitions were in one list
    orderly     \* history: only the SDK or librdkafka chose what is committed, and
                \* no rebalance error dropped partitions while a message waited

phpVars == <<got, owed, quiet, restarted, crashed, displaced, mixed, orderly>>
allVars == <<vars, phpVars>>

-----------------------------------------------------------------------------
\* Partitions whose message is the one that waits under their key.
WaitingOf(p) == {k \in DOMAIN waitCommit \cap {KeyOf[p]} :
                    waitCommit[k] \in Live /\ heap[waitCommit[k]].part = p}

ListsMix(lists, h) ==
    \E k \in Keys : \E i, j \in DOMAIN lists[k] :
        /\ {lists[k][i], lists[k][j]} \subseteq DOMAIN h
        /\ h[lists[k][i]].part # h[lists[k][j]].part

PhpTypeOK ==
    /\ TypeOK
    /\ got \in {<<>>} \cup (Partitions \X Nat)
    /\ owed \in [Partitions -> Nat]
    /\ quiet \subseteq Topics
    /\ displaced \subseteq Partitions
    /\ {restarted, crashed, mixed, orderly} \subseteq BOOLEAN

PhpInit ==
    /\ Init
    /\ got = <<>> /\ owed = [p \in Partitions |-> 0] /\ quiet = {}
    /\ restarted = FALSE /\ crashed = FALSE /\ displaced = {} /\ mixed = FALSE
    /\ orderly = (mode # "user")

\* The script may call the consumer, which is not inside a call.
Script ==
    /\ ~crashed /\ pollPc = "idle" /\ ucommit = None
    /\ appPc \in {"ready", "run", "stopped"}

\* p's next offset n is registered under p's key, whatever waits there.
Register(p, n) ==
    /\ owed' = [owed EXCEPT ![p] = n]
    /\ displaced' = (displaced \ {p}) \cup
          {q \in Partitions \ {p} : KeyOf[q] = KeyOf[p] /\ WaitingOf(q) # {}}

\* What a round of commits that is due, or forced, leaves owed.
Settle(face) ==
    owed' = IF mode # "auto" /\ (face \/ due)
            THEN [p \in Partitions |-> IF WaitingOf(p) # {} THEN 0 ELSE owed[p]]
            ELSE owed

-----------------------------------------------------------------------------
(* consume() *)

\* if (start_flag_) poll; the script has processed what it got before.
Consume ==
    /\ Script /\ got = <<>>
    /\ \/ startFlag /\ pollPc' = "poll"
       \/ ~startFlag /\ mode # "auto" /\ pollPc' = "tick"
    /\ UNCHANGED <<mode, startFlag, appPc, cur, ucommit, pauseVars, waitVars,
                   heap, brokerVars, userVars, misuse, phpVars>>

\* rd_kafka_consumer_poll() of the handle that stop() has destroyed.
PollNullHandle ==
    /\ pollPc = "poll" /\ restarted /\ ~crashed
    /\ crashed' = TRUE
    /\ UNCHANGED <<vars, got, owed, quiet, restarted, displaced, mixed, orderly>>

PollHandle == pollPc = "poll" /\ ~restarted

AfterPoll == IF mode = "auto" THEN "idle" ELSE "tick"

\* A time-out or an event that checkMsg() refuses: consume() returns false.
ConsumeNothing ==
    /\ PollHandle
    /\ pollPc' = AfterPoll
    /\ UNCHANGED <<mode, startFlag, appPc, cur, ucommit, pauseVars, waitVars,
                   heap, brokerVars, userVars, misuse, phpVars>>

\* Mutant: the message without payload is not destroyed.
ConsumeEmptyLeaks(p) ==
    /\ PollHandle
    /\ p \in assigned \ paused /\ pos[p] < MaxOffset
    /\ pos' = [pos EXCEPT ![p] = @ + 1]
    /\ Processed(p, pos[p] + 1)
    /\ pollPc' = AfterPoll
    /\ \E o \in Obj \ Live : heap' = [x \in Live \cup {o} |->
          IF x = o THEN [part |-> p, off |-> pos[p]] ELSE heap[x]]
    /\ UNCHANGED <<mode, startFlag, appPc, cur, ucommit, pauseVars, waitVars,
                   assigned, committed, held, misuse, phpVars>>

\* A message without payload is destroyed, consume() returns false.  There was
\* nothing to process in it.
ConsumeEmpty(p) ==
    /\ PollHandle
    /\ p \in assigned \ paused /\ pos[p] < MaxOffset
    /\ pos' = [pos EXCEPT ![p] = @ + 1]
    /\ Processed(p, pos[p] + 1)
    /\ pollPc' = AfterPoll
    /\ UNCHANGED <<mode, startFlag, appPc, cur, ucommit, pauseVars, waitVars,
                   heap, assigned, committed, held, misuse, phpVars>>

\* Mutant: the message is registered in every mode.
KeepAlwaysRegisters(p, o, h) ==
    /\ AddWaitCommitOffset(o, h)
    /\ Register(p, pos[p] + 1)
    /\ IF mode = "user"
       THEN /\ waitDestroy' = [waitDestroy EXCEPT ![KeyOf[p]] = Append(@, o)]
            /\ held' = held \cup {o}
            /\ UNCHANGED got
       ELSE got' = <<p, pos[p]>> /\ UNCHANGED <<waitDestroy, held>>

\* Who keeps the message o of p that consume() returns.  In automatic mode it
\* is destroyed before: the rd_message of the result dangles, but
\* commitOffset() does not look at it.
Keep(p, o, h) ==
    \/ /\ mode = "auto"
       /\ got' = <<p, pos[p]>>
       /\ UNCHANGED <<heap, waitCommit, waitDestroy, held, misuse, owed, displaced>>
    \/ /\ mode = "internal"
       /\ got' = <<p, pos[p]>>
       /\ AddWaitCommitOffset(o, h)
       /\ Register(p, pos[p] + 1)
       /\ UNCHANGED <<waitDestroy, held>>
    \/ /\ mode = "user"
       /\ heap' = h
       /\ waitDestroy' = [waitDestroy EXCEPT ![KeyOf[p]] = Append(@, o)]
       /\ held' = held \cup {o}
       /\ UNCHANGED <<waitCommit, misuse, got, owed, displaced>>

\* A message is returned.
ConsumeMessage(p, o) ==
    /\ PollHandle
    /\ p \in assigned \ paused /\ pos[p] < MaxOffset
    /\ o \notin Live
    /\ pos' = [pos EXCEPT ![p] = @ + 1]
    /\ pollPc' = AfterPoll
    /\ Keep(p, o, [x \in Live \cup {o} |->
                      IF x = o THEN [part |-> p, off |-> pos[p]] ELSE heap[x]])
    /\ mixed' = (mixed \/ ListsMix(waitDestroy', heap'))
    /\ UNCHANGED <<mode, startFlag, appPc, cur, ucommit, pauseVars, due,
                   assigned, committed, done, quiet, restarted, crashed, orderly>>

\* manualCommitWaitOffset(false) at the end of consume(): a message that the
\* call is about to return may be committed with the others.
ConsumeTick ==
    /\ pollPc = "tick"
    /\ pollPc' = "idle"
    /\ ManualCommitWaitOffset(FALSE)
    /\ Settle(FALSE)
    /\ UNCHANGED <<mode, startFlag, appPc, cur, ucommit, pauseVars, waitDestroy,
                   assigned, pos, userVars, got, quiet, restarted, crashed,
                   displaced, mixed, orderly>>

\* The script has processed the message.
Process ==
    /\ Script /\ got # <<>>
    /\ Processed(got[1], got[2] + 1)
    /\ got' = <<>>
    /\ UNCHANGED <<mode, threadVars, pauseVars, waitVars, heap, brokerVars, held,
                   misuse, owed, quiet, restarted, crashed,
                   displaced, mixed, orderly>>

\* rdkafka_rebalance_cb inside the poll.
PhpAssign(S) ==
    /\ ~restarted /\ Assign(S)
    /\ quiet' = {}
    /\ UNCHANGED <<got, owed, restarted, crashed, displaced, mixed, orderly>>

PhpRevoke ==
    /\ ~restarted /\ Revoke
    /\ Settle(TRUE)
    /\ quiet' = {}
    /\ UNCHANGED <<got, restarted, crashed, displaced, mixed, orderly>>

PhpRebalanceError ==
    /\ ~restarted /\ RebalanceError
    /\ quiet' = {}
    /\ orderly' = (orderly /\ DOMAIN waitCommit = {})
    /\ UNCHANGED <<got, owed, restarted, crashed, displaced, mixed>>

-----------------------------------------------------------------------------
(* The other calls *)

\* commitOffset(), its two halves on one thread.
PhpCommit(o) ==
    /\ Script /\ UserCommit(o)
    /\ \/ o \in Live /\ Register(heap[o].part, heap[o].off + 1)
       \/ o \notin Live /\ UNCHANGED <<owed, displaced>>
    /\ UNCHANGED <<got, quiet, restarted, crashed, mixed, orderly>>

PhpCommitEnd == ~crashed /\ UserCommitEnd /\ UNCHANGED phpVars

\* pause() and resume(): librdkafka pauses what is assigned and answers for the
\* rest per partition, which pause() does not look at.
Pause(ts) ==
    LET list == {p \in tps : TopicOf[p] \in ts}
    IN  /\ Script /\ startFlag /\ hasAssigned
        /\ paused' = paused \cup (list \cap assigned)
        /\ quiet' = quiet \cup ts
        /\ UNCHANGED <<mode, threadVars, pauseReq, tps, hasAssigned, waitVars, heap,
                       brokerVars, userVars, misuse, got, owed, restarted, crashed,
                       displaced, mixed, orderly>>

Resume(ts) ==
    /\ Script /\ startFlag /\ hasAssigned
    /\ paused' = paused \ {p \in tps : TopicOf[p] \in ts}
    /\ quiet' = quiet \ ts
    /\ UNCHANGED <<mode, threadVars, pauseReq, tps, hasAssigned, waitVars, heap,
                   brokerVars, userVars, misuse, got, owed, restarted, crashed,
                   displaced, mixed, orderly>>

\* start(), without a thread: it does not ask whether there is a handle.
PhpStart ==
    /\ Script /\ ~startFlag
    /\ startFlag' = TRUE
    /\ appPc' = "run"
    /\ restarted' = (restarted \/ appPc = "stopped")
    /\ UNCHANGED <<mode, pollPc, cur, ucommit, pauseVars, waitVars, heap,
                   brokerVars, userVars, misuse, got, owed, quiet, crashed,
                   displaced, mixed, orderly>>

\* stop(): the flag and the set, the forced commit, the lists, the handle.  A
\* consumer that was never started only loses its handle.
PhpStop ==
    /\ Script
    /\ \/ Stop
       \/ /\ appPc = "ready" /\ appPc' = "closing"
          /\ UNCHANGED <<mode, startFlag, pollPc, cur, ucommit, pauseVars,
                         waitVars, heap, brokerVars, userVars, misuse>>
    /\ UNCHANGED phpVars

\* Mutant: the last round waits for the interval as the others do.
PhpStopMayWait ==
    /\ appPc = "joining"
    /\ CommitUnlessAuto(FALSE)
    /\ Settle(FALSE)
    /\ appPc' = IF mode = "user" THEN "clearing" ELSE "closing"
    /\ UNCHANGED <<mode, startFlag, pollPc, cur, ucommit, pauseVars, waitDestroy,
                   assigned, pos, userVars, got, quiet, restarted, crashed,
                   displaced, mixed, orderly>>

\* manualCommitWaitOffset(true)
PhpStopCommit ==
    /\ appPc = "joining"
    /\ CommitUnlessAuto(TRUE)
    /\ Settle(TRUE)
    /\ appPc' = IF mode = "user" THEN "clearing" ELSE "closing"
    /\ UNCHANGED <<mode, startFlag, pollPc, cur, ucommit, pauseVars, waitDestroy,
                   assigned, pos, userVars, got, quiet, restarted, crashed,
                   displaced, mixed, orderly>>

PhpStopClear == StopClear /\ UNCHANGED phpVars

PhpStopClose ==
    /\ StopClose
    /\ \/ hasAssigned /\ Settle(TRUE)
       \/ ~hasAssigned /\ UNCHANGED owed
    /\ quiet' = {}
    /\ UNCHANGED <<got, restarted, crashed, displaced, mixed, orderly>>

\* The script has ended, or the process has.
Ended == (crashed \/ (appPc = "stopped" /\ Script)) /\ UNCHANGED allVars

-----------------------------------------------------------------------------
ConsumeCall ==
    \/ Consume \/ PollNullHandle \/ ConsumeNothing \/ ConsumeTick
    \/ \E p \in Partitions : ConsumeEmpty(p)
    \/ \E p \in Partitions, o \in Obj : ConsumeMessage(p, o)
    \/ \E S \in SUBSET Partitions : PhpAssign(S)
    \/ PhpRevoke \/ PhpRebalanceError

OtherCalls ==
    \/ Process \/ PhpStart \/ PhpStop \/ PhpStopCommit \/ PhpStopClear
    \/ PhpStopClose \/ Ended
    \/ \E o \in Obj : PhpCommit(o)
    \/ PhpCommitEnd
    \/ \E ts \in PauseSets : Pause(ts) \/ Resume(ts)

PhpNext ==
    \/ ConsumeCall \/ OtherCalls
    \/ \E p \in Partitions :
          /\ AutoCommit(p) \/ OtherProcesses(p) \/ OtherCommits(p)
          /\ ~crashed /\ UNCHANGED phpVars
    \/ TimePasses /\ ~crashed /\ UNCHANGED phpVars

PhpSpec == PhpInit /\ [][PhpNext]_allVars

-----------------------------------------------------------------------------
(* Properties *)

\* The SDK's commits run before consume() returns, so the offset of the message
\* it returns may be committed before the script has seen it.  It is never more
\* than that one message, whatever rebalances, empty messages and stop() do, and
\* in the user's mode not even that.
CommitsReturned ==
    \A p \in Partitions :
        \/ committed[p] <= done[p]
        \/ got # <<>> /\ got[1] = p /\ committed[p] <= got[2] + 1

\* A registered offset waits until a round of commits has tried it, and stop()
\* leaves none untried.  Only a message of another partition with the same key
\* can displace it (getWaitOffsetKey() runs name and number together).
OwedIsWaiting ==
    \A p \in Partitions \ displaced : owed[p] # 0 =>
        /\ appPc # "stopped"
        /\ \E k \in WaitingOf(p) : heap[waitCommit[k]].off + 1 = owed[p]

\* A destroyed message is read or destroyed again only after start() of a
\* stopped consumer (stop() leaves its lists filled) or after messages of two
\* partitions met in one list, and only the former polls a NULL handle.
FaultsHaveCause ==
    /\ crashed => restarted
    /\ misuse => restarted \/ mixed

\* pause() reaches every partition the consumer owns of its topics, and they stay
\* paused until resume() or a rebalance, which is not told to the script.
PausedStaysQuiet == \A p \in assigned : TopicOf[p] \in quiet => p \in paused

\* No message leaks: what lives is in one of the two maps, and nothing lives
\* after stop().
NothingLeaks ==
    /\ Live \subseteq Waiting \cup Listed
    /\ appPc = "stopped" => Live = {}

\* How far p may be committed: what is processed and what consume() returned.
Returned(p) == IF got # <<>> /\ got[1] = p /\ got[2] + 1 > done[p]
               THEN got[2] + 1 ELSE done[p]

\* As long as the script does not choose what is committed and no error of the group
\* dropped partitions with messages waiting, this build keeps the promise of the
\* callback build, GroupOffsets, about what consume() returned in the place of what
\* was processed: whatever is displaced, revoked, refused by the broker or stopped,
\* committed offsets never go back nor ahead of the returns.
ReturnedGroup == INSTANCE GroupOffsets WITH done <- [p \in Partitions |-> Returned(p)]

OffsetsForward == [][orderly' => [ReturnedGroup!Next]_(ReturnedGroup!vars)]_allVars
=============================================================================
