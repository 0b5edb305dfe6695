---------------------------- MODULE KafkaConsumer ----------------------------
(***************************************************************************)
(* qbus::kafka::QbusConsumer (kafka/qbus_consumer.cc), callback build: the  *)
(* poll thread, the application thread that starts, pauses and stops the    *)
(* consumer, the user code that commits offsets, and the librdkafka handle  *)
(* with the rebalance callback it runs inside rd_kafka_consumer_poll() and  *)
(* rd_kafka_consumer_close().                                               *)
(*                                                                          *)
(* A rd_kafka_message_t is an address of Obj; `heap` maps the addresses     *)
(* that hold a message to it, so destroying one removes it from the domain  *)
(* and the address can be handed out again.  The topic/partition pair of a  *)
(* message is one member of Partitions.  Every body guarded by             *)
(* wait_commit_msgs_mutex_ is one step.                                     *)
(***************************************************************************)
EXTENDS Naturals, Sequences, Functions

CONSTANTS
    Partitions,       \* topic/partition pairs the group may own
    Topics,
    TopicOf,          \* Partitions -> Topics
    Keys,
    KeyOf,            \* Partitions -> Keys: name and number run together
    Obj,              \* bound: addresses a polled message can have
    None,             \* no object
    MaxOffset,        \* bound: messages in each partition
    Modes,            \* commit modes the configuration may select
    CommitPolicy,     \* where the user of the "user" mode calls commitOffset
    RebalanceErrors,  \* whether the rebalance callback may report an error
    PauseSets         \* topic sets the application pauses and resumes

ASSUME ConstantsAssumption ==
    /\ TopicOf \in [Partitions -> Topics]
    /\ KeyOf \in [Partitions -> Keys]
    /\ None \notin Obj
    /\ MaxOffset \in Nat
    /\ Modes \subseteq {"auto", "internal", "user"}
    /\ CommitPolicy \in {"current", "callback", "worker"}
    /\ RebalanceErrors \in BOOLEAN
    /\ PauseSets \subseteq SUBSET Topics

VARIABLES
    mode,         \* "auto": librdkafka commits; "internal": the SDK; "user"
    (* threads *)
    startFlag,    \* start_flag_
    pollPc,       \* ConsumePollThread
    appPc,        \* the application thread, inside start, pause, resume, stop
    cur,          \* the message in the callback, or None
    ucommit,      \* the message of a commitOffset() between its two halves
    pauseReq,     \* the pause or resume call under way
    (* the consumer's maps *)
    waitCommit,   \* wait_commit_msgs_: a function on the keys it holds
    waitDestroy,  \* wait_destroy_msgs_for_uncommit_
    tps,          \* topic_partition_set_
    hasAssigned,  \* has_assigned_
    due,          \* manual_commit_time_ has elapsed since last_commit_ms_, at first 0
    (* librdkafka and the broker *)
    heap,         \* address |-> message, for every message not destroyed
    assigned,     \* the assignment of the handle
    paused,       \* partitions the handle does not fetch
    pos,          \* next offset the handle returns, per partition
    committed,    \* the group's committed offset, per partition
    (* the application's view *)
    held,         \* messages the user may still pass to commitOffset()
    done,         \* per partition: high-water mark of what is processed
    misuse        \* a destroyed message was read or destroyed again

threadVars == <<startFlag, pollPc, appPc, cur, ucommit>>
pauseVars  == <<pauseReq, tps, hasAssigned, paused>>
waitVars   == <<waitCommit, waitDestroy, due>>
brokerVars == <<assigned, pos, committed>>
userVars   == <<held, done>>
vars == <<mode, threadVars, pauseVars, waitVars, heap, brokerVars, userVars, misuse>>

-----------------------------------------------------------------------------
(* Types and helpers *)

Message == [part : Partitions, off : Nat]
Live == DOMAIN heap
Key(o) == KeyOf[heap[o].part]
NoRequest == [op |-> "none", topics |-> {}, list |-> {}]
EmptyMap == [k \in {} |-> None]

\* The objects the consumer's two maps own.
Waiting == Range(waitCommit)
Listed == UNION {Range(waitDestroy[k]) : k \in Keys}

TypeOK ==
    /\ mode \in Modes
    /\ startFlag \in BOOLEAN
    /\ pollPc \in {"idle", "head", "poll", "callback", "tick", "exitTick", "done"}
    /\ appPc \in {"ready", "run", "pauseFind", "pauseApply",
                  "joining", "clearing", "closing", "stopped"}
    /\ cur \in Obj \cup {None}
    /\ ucommit \in Obj \cup {None}
    /\ pauseReq \in [op : {"none", "pause", "resume"},
                     topics : SUBSET Topics, list : SUBSET Partitions]
    /\ DOMAIN waitCommit \subseteq Keys
    /\ waitCommit \in [DOMAIN waitCommit -> Obj]
    /\ waitDestroy \in [Keys -> Seq(Obj)]
    /\ tps \subseteq Partitions
    /\ hasAssigned \in BOOLEAN
    /\ due \in BOOLEAN
    /\ Live \subseteq Obj
    /\ heap \in [Live -> Message]
    /\ assigned \subseteq Partitions
    /\ paused \subseteq Partitions
    /\ pos \in [Partitions -> Nat]
    /\ committed \in [Partitions -> Nat]
    /\ held \subseteq Obj
    /\ done \in [Partitions -> Nat]
    /\ misuse \in BOOLEAN

\* initRdKafkaConfig(): committing by the user excludes automatic commits, which
\* exclude those of the SDK.
ModeOf(autoCommit, userCommit) ==
    IF userCommit THEN "user" ELSE IF autoCommit THEN "auto" ELSE "internal"

\* The consumer after init() and subscribe().
Init ==
    /\ mode \in Modes /\ \E a, u \in BOOLEAN : mode = ModeOf(a, u)
    /\ startFlag = FALSE /\ pollPc = "idle" /\ appPc = "ready"
    /\ cur = None /\ ucommit = None /\ pauseReq = NoRequest
    /\ waitCommit = EmptyMap
    /\ waitDestroy = [k \in Keys |-> <<>>]
    /\ tps = {} /\ hasAssigned = FALSE /\ due = TRUE
    /\ heap = [o \in {} |-> None]
    /\ assigned = {} /\ paused = {}
    /\ pos = [p \in Partitions |-> 0]
    /\ committed = [p \in Partitions |-> 0]
    /\ held = {} /\ done = [p \in Partitions |-> 0]
    /\ misuse = FALSE

-----------------------------------------------------------------------------
(* The operations on the two maps *)

\* Mutant: the displaced message is forgotten and not destroyed.
AddWaitLeaks(o, h) ==
    /\ heap' = h
    /\ waitCommit' = [x \in DOMAIN waitCommit \cup {KeyOf[h[o].part]} |->
                         IF x = KeyOf[h[o].part] THEN o ELSE waitCommit[x]]
    /\ UNCHANGED misuse

\* addWaitCommitOffset: o is live in heap h; the message that waited under
\* the same key is destroyed, o takes its place.
AddWaitCommitOffset(o, h) ==
    LET k == KeyOf[h[o].part]
        displaced == {waitCommit[x] : x \in DOMAIN waitCommit \cap {k}}
    IN  /\ heap' = Restrict(h, DOMAIN h \ displaced)
        /\ misuse' = (misuse \/ ~(displaced \subseteq DOMAIN h))
        /\ waitCommit' = [x \in DOMAIN waitCommit \cup {k} |->
                             IF x = k THEN o ELSE waitCommit[x]]

\* Mutant: the loop destroys o too.
RemoveDestroysSelf(o) ==
    \E i \in DOMAIN waitDestroy[Key(o)] :
        /\ waitDestroy[Key(o)][i] = o
        /\ heap' = Restrict(heap, Live \ {waitDestroy[Key(o)][j] : j \in 1 .. i})
        /\ waitDestroy' = [waitDestroy EXCEPT ![Key(o)] = SubSeq(@, i + 1, Len(@))]
        /\ UNCHANGED misuse

\* removeWaitDestroyMsgs: everything listed before o under its key is
\* destroyed and forgotten, o is forgotten.
RemoveWaitDestroyMsgs(o) ==
    LET msgs == waitDestroy[Key(o)]
    IN  \/ /\ o \notin Range(msgs)
           /\ UNCHANGED <<heap, waitDestroy, misuse>>
        \/ \E i \in DOMAIN msgs :
              LET before == {msgs[j] : j \in 1 .. i - 1}
              IN  /\ msgs[i] = o
                  /\ o \notin before
                  /\ heap' = Restrict(heap, Live \ before)
                  /\ misuse' = (misuse \/ ~(before \subseteq Live))
                  /\ waitDestroy' =
                        [waitDestroy EXCEPT ![Key(o)] = SubSeq(@, i + 1, Len(@))]

\* clearWaitDestroyMsgs: destroys what is listed and leaves the lists alone.
ClearWaitDestroyMsgs ==
    /\ heap' = Restrict(heap, Live \ Listed)
    /\ misuse' = (misuse \/ ~(Listed \subseteq Live))

\* Mutant: the offset before the message is committed.
CommitsPrevious(face) ==
    /\ face \/ due
    /\ committed' = [p \in Partitions |->
           IF KeyOf[p] \in DOMAIN waitCommit
           THEN heap[waitCommit[KeyOf[p]]].off - 1 ELSE committed[p]]
    /\ heap' = Restrict(heap, Live \ Waiting)
    /\ waitCommit' = EmptyMap
    /\ due' = FALSE
    /\ UNCHANGED misuse

\* manualCommitWaitOffset: commits and destroys every waiting message unless
\* the interval has not elapsed.  A commit that fails is only logged, so `ok`,
\* the keys whose commit the broker takes, is any subset.
ManualCommitWaitOffset(face) ==
    \/ /\ ~face /\ ~due
       /\ UNCHANGED <<committed, heap, misuse, waitCommit, due>>
    \/ /\ face \/ due
       /\ \E ok \in SUBSET {k \in DOMAIN waitCommit : waitCommit[k] \in Live} :
             committed' = [p \in Partitions |->
                 IF KeyOf[p] \in ok /\ heap[waitCommit[KeyOf[p]]].part = p
                 THEN heap[waitCommit[KeyOf[p]]].off + 1
                 ELSE committed[p]]
       /\ heap' = Restrict(heap, Live \ Waiting)
       /\ misuse' = (misuse \/ ~(Waiting \subseteq Live))
       /\ waitCommit' = EmptyMap
       /\ due' = FALSE

\* The same, behind the test of is_auto_commit_offset_.
CommitUnlessAuto(face) ==
    \/ /\ mode # "auto"
       /\ ManualCommitWaitOffset(face)
    \/ /\ mode = "auto"
       /\ UNCHANGED <<committed, heap, misuse, waitCommit, due>>

\* The user has finished with p up to offset n.
Processed(p, n) == done' = [done EXCEPT ![p] = IF n > @ THEN n ELSE @]

-----------------------------------------------------------------------------
(* ConsumePollThread *)

\* Mutant: the loop does not test the flag.
LoopsForever ==
    /\ pollPc = "head"
    /\ pollPc' = "poll"
    /\ UNCHANGED <<mode, startFlag, appPc, cur, ucommit, pauseVars, waitVars,
                   heap, brokerVars, userVars, misuse>>

\* while (start_flag_)
LoopAgain ==
    /\ pollPc = "head" /\ startFlag
    /\ pollPc' = "poll"
    /\ UNCHANGED <<mode, startFlag, appPc, cur, ucommit, pauseVars, waitVars,
                   heap, brokerVars, userVars, misuse>>

LoopExit ==
    /\ pollPc = "head" /\ ~startFlag
    /\ pollPc' = IF mode = "auto" THEN "done" ELSE "exitTick"
    /\ UNCHANGED <<mode, startFlag, appPc, cur, ucommit, pauseVars, waitVars,
                   heap, brokerVars, userVars, misuse>>

\* Mutant: the round of commits only follows a message.
PollNothingSkipsTick ==
    /\ pollPc = "poll"
    /\ pollPc' = "head"
    /\ UNCHANGED <<mode, startFlag, appPc, cur, ucommit, pauseVars, waitVars,
                   heap, brokerVars, userVars, misuse>>

\* rd_kafka_consumer_poll() times out, or returns an error event that
\* checkMsg() refuses and that is destroyed at once.
PollNothing ==
    /\ pollPc = "poll"
    /\ pollPc' = IF mode = "auto" THEN "head" ELSE "tick"
    /\ UNCHANGED <<mode, startFlag, appPc, cur, ucommit, pauseVars, waitVars,
                   heap, brokerVars, userVars, misuse>>

\* rd_kafka_consumer_poll() returns the next message of p at address o, which
\* is registered for its commit or its destruction before the callback starts.
Receive(p, o) ==
    LET h == [x \in Live \cup {o} |->
                 IF x = o THEN [part |-> p, off |-> pos[p]] ELSE heap[x]]
        k == KeyOf[p]
    IN  /\ pollPc = "poll"
        /\ p \in assigned \ paused
        /\ pos[p] < MaxOffset
        /\ o \notin Live
        /\ pos' = [pos EXCEPT ![p] = @ + 1]
        /\ cur' = o
        /\ pollPc' = "callback"
        /\ \/ /\ mode = "auto"
              /\ heap' = h
              /\ UNCHANGED <<waitCommit, waitDestroy, held, misuse>>
           \/ /\ mode = "internal"
              /\ AddWaitCommitOffset(o, h)
              /\ UNCHANGED <<waitDestroy, held>>
           \/ /\ mode = "user"
              /\ heap' = h
              /\ waitDestroy' = [waitDestroy EXCEPT ![k] = Append(@, o)]
              /\ held' = held \cup {o}
              /\ UNCHANGED <<waitCommit, misuse>>
        /\ UNCHANGED <<mode, startFlag, appPc, ucommit, pauseVars, due,
                       assigned, committed, done>>

\* The callback returns; an automatically committed message is destroyed.
\* In the user's mode it is commitOffset() that says a message was processed.
CallbackReturn ==
    /\ pollPc = "callback"
    /\ CommitPolicy # "worker" => ucommit = None
    /\ cur' = None
    /\ \/ /\ mode = "auto"
          /\ Processed(heap[cur].part, heap[cur].off + 1)
          /\ heap' = Restrict(heap, Live \ {cur})
          /\ pollPc' = "head"
       \/ /\ mode = "internal"
          /\ Processed(heap[cur].part, heap[cur].off + 1)
          /\ pollPc' = "tick"
          /\ UNCHANGED heap
       \/ /\ mode = "user"
          /\ pollPc' = "tick"
          /\ UNCHANGED <<heap, done>>
    /\ UNCHANGED <<mode, startFlag, appPc, ucommit, pauseVars, waitVars,
                   brokerVars, held, misuse>>

\* Mutant: the commit round may run while the callback does.
TickInCallback ==
    /\ pollPc \in {"callback", "tick"}
    /\ pollPc' = IF pollPc = "tick" THEN "head" ELSE "callback"
    /\ ManualCommitWaitOffset(FALSE)
    /\ UNCHANGED <<mode, startFlag, appPc, cur, ucommit, pauseVars, waitDestroy,
                   assigned, pos, userVars>>

\* manualCommitWaitOffset(false) at the end of the loop body.
Tick ==
    /\ pollPc = "tick"
    /\ pollPc' = "head"
    /\ ManualCommitWaitOffset(FALSE)
    /\ UNCHANGED <<mode, startFlag, appPc, cur, ucommit, pauseVars, waitDestroy,
                   assigned, pos, userVars>>

\* The one after the loop.
ExitTick ==
    /\ pollPc = "exitTick"
    /\ pollPc' = "done"
    /\ ManualCommitWaitOffset(FALSE)
    /\ UNCHANGED <<mode, startFlag, appPc, cur, ucommit, pauseVars, waitDestroy,
                   assigned, pos, userVars>>

-----------------------------------------------------------------------------
(* rdkafka_rebalance_cb, run by librdkafka inside poll() or consumer_close() *)

\* Mutant: the set is only filled by the first assignment.
AssignFillsOnce(S) ==
    /\ pollPc = "poll"
    /\ assigned = {} /\ ~hasAssigned
    /\ assigned' = S
    /\ tps' = IF tps = {} THEN S ELSE tps
    /\ hasAssigned' = TRUE
    /\ paused' = {}
    /\ pos' = [p \in Partitions |-> IF p \in S THEN committed[p] ELSE pos[p]]
    /\ UNCHANGED <<mode, threadVars, pauseReq, waitVars, heap, committed,
                   userVars, misuse>>

\* RD_KAFKA_RESP_ERR__ASSIGN_PARTITIONS.  librdkafka assigns only to a handle
\* that owns nothing; fetching starts at the committed offsets, unpaused.
Assign(S) ==
    /\ pollPc = "poll"
    /\ assigned = {} /\ ~hasAssigned
    /\ assigned' = S
    /\ tps' = tps \cup S
    /\ hasAssigned' = TRUE
    /\ paused' = {}
    /\ pos' = [p \in Partitions |-> IF p \in S THEN committed[p] ELSE pos[p]]
    /\ UNCHANGED <<mode, threadVars, pauseReq, waitVars, heap, committed,
                   userVars, misuse>>

\* Mutants: nothing is committed; only what the interval allows is.
RevokeForgets ==
    /\ assigned' = {} /\ hasAssigned' = FALSE /\ paused' = {}
    /\ UNCHANGED <<committed, heap, misuse, waitCommit, due>>

RevokeMayWait ==
    /\ assigned' = {} /\ hasAssigned' = FALSE /\ paused' = {}
    /\ CommitUnlessAuto(FALSE)

\* RD_KAFKA_RESP_ERR__REVOKE_PARTITIONS: the waiting offsets are committed
\* while the partitions are still owned.
RevokeCallback ==
    /\ CommitUnlessAuto(TRUE)
    /\ assigned' = {}
    /\ hasAssigned' = FALSE
    /\ paused' = {}

Revoke ==
    /\ pollPc = "poll"
    /\ hasAssigned
    /\ RevokeCallback
    /\ UNCHANGED <<mode, threadVars, pauseReq, tps, waitDestroy, pos, userVars>>

\* Any other code: the assignment is dropped, nothing is committed.
RebalanceError ==
    /\ RebalanceErrors
    /\ pollPc = "poll"
    /\ assigned' = {}
    /\ hasAssigned' = FALSE
    /\ paused' = {}
    /\ UNCHANGED <<mode, threadVars, pauseReq, tps, waitVars, heap, pos,
                   committed, userVars, misuse>>

-----------------------------------------------------------------------------
(* commitOffset(), called by the user *)

\* Messages of o's partition delivered up to o: committing o commits them all,
\* so the user does not commit them any more.
Superseded(o) ==
    {x \in held \cap Live :
        /\ heap[x].part = heap[o].part
        /\ \E j \in DOMAIN waitDestroy[Key(o)] : \E i \in 1 .. j :
              waitDestroy[Key(o)][i] = x /\ waitDestroy[Key(o)][j] = o}

MayCommit(o) ==
    /\ mode = "user" /\ ucommit = None /\ o \in held
    /\ \/ CommitPolicy = "current" /\ pollPc = "callback" /\ o = cur
       \/ CommitPolicy = "callback" /\ pollPc = "callback"
       \/ CommitPolicy = "worker" /\ appPc = "run"

\* getWaitOffsetKey() of a message that is destroyed: undefined behaviour,
\* recorded as a misuse.
ReadDestroyed ==
    /\ misuse' = TRUE
    /\ ucommit' = None
    /\ UNCHANGED <<waitCommit, waitDestroy, heap, done>>

\* addWaitCommitOffset(rd_message)
UserCommit(o) ==
    /\ MayCommit(o)
    /\ \/ /\ o \in Live
          /\ AddWaitCommitOffset(o, heap)
          /\ Processed(heap[o].part, heap[o].off + 1)
          /\ held' = held \ (Superseded(o) \cup {o})
          /\ ucommit' = o
          /\ UNCHANGED waitDestroy
       \/ /\ o \notin Live
          /\ ReadDestroyed
          /\ held' = held \ {o}
    /\ UNCHANGED <<mode, startFlag, pollPc, appPc, cur, pauseVars, due, brokerVars>>

\* removeWaitDestroyMsgs(rd_message)
UserCommitEnd ==
    /\ ucommit # None
    /\ \/ /\ ucommit \in Live
          /\ RemoveWaitDestroyMsgs(ucommit)
          /\ ucommit' = None
          /\ UNCHANGED <<waitCommit, done>>
       \/ /\ ucommit \notin Live
          /\ ReadDestroyed
    /\ UNCHANGED <<mode, startFlag, pollPc, appPc, cur, pauseVars, due,
                   brokerVars, held>>

-----------------------------------------------------------------------------
(* The application thread *)

Start ==
    /\ appPc = "ready"
    /\ startFlag' = TRUE
    /\ pollPc' = "head"
    /\ appPc' = "run"
    /\ UNCHANGED <<mode, cur, ucommit, pauseVars, waitVars, heap, brokerVars,
                   userVars, misuse>>

\* pause() and resume(): the two checks, the look-up of the partitions, the
\* call of librdkafka.  No lock spans them.
PauseCheck(op, ts) ==
    /\ appPc = "run" /\ startFlag /\ hasAssigned
    /\ pauseReq' = [op |-> op, topics |-> ts, list |-> {}]
    /\ appPc' = "pauseFind"
    /\ UNCHANGED <<mode, startFlag, pollPc, cur, ucommit, tps, hasAssigned, paused,
                   waitVars, heap, brokerVars, userVars, misuse>>

PauseFind ==
    /\ appPc = "pauseFind"
    /\ pauseReq' = [pauseReq EXCEPT !.list = {p \in tps : TopicOf[p] \in pauseReq.topics}]
    /\ appPc' = "pauseApply"
    /\ UNCHANGED <<mode, startFlag, pollPc, cur, ucommit, tps, hasAssigned, paused,
                   waitVars, heap, brokerVars, userVars, misuse>>

PauseApply ==
    /\ appPc = "pauseApply"
    /\ paused' = IF pauseReq.op = "pause"
                 THEN paused \cup (pauseReq.list \cap assigned)
                 ELSE paused \ pauseReq.list
    /\ pauseReq' = NoRequest
    /\ appPc' = "run"
    /\ UNCHANGED <<mode, startFlag, pollPc, cur, ucommit, tps, hasAssigned,
                   waitVars, heap, brokerVars, userVars, misuse>>

\* stop(), up to poll_thread_.stop(), which joins the poll thread.
Stop ==
    /\ appPc = "run" /\ startFlag
    /\ startFlag' = FALSE
    /\ tps' = {}
    /\ appPc' = "joining"
    /\ UNCHANGED <<mode, pollPc, cur, ucommit, pauseReq, hasAssigned, paused,
                   waitVars, heap, brokerVars, userVars, misuse>>

StopCommit ==
    /\ appPc = "joining" /\ pollPc = "done"
    /\ CommitUnlessAuto(TRUE)
    /\ appPc' = IF mode = "user" THEN "clearing" ELSE "closing"
    /\ UNCHANGED <<mode, startFlag, pollPc, cur, ucommit, pauseVars, waitDestroy,
                   assigned, pos, userVars>>

\* After this the messages the user still has are gone.
StopClear ==
    /\ appPc = "clearing"
    /\ ClearWaitDestroyMsgs
    /\ held' = {}
    /\ appPc' = "closing"
    /\ UNCHANGED <<mode, startFlag, pollPc, cur, ucommit, pauseVars, waitVars,
                   brokerVars, done>>

\* rd_kafka_consumer_close(), which revokes what is assigned, and the
\* destruction of the handle.
StopClose ==
    /\ appPc = "closing"
    /\ \/ hasAssigned /\ RevokeCallback
       \/ /\ ~hasAssigned
          /\ UNCHANGED <<committed, heap, misuse, waitCommit, due, assigned,
                         hasAssigned, paused>>
    /\ appPc' = "stopped"
    /\ UNCHANGED <<mode, startFlag, pollPc, cur, ucommit, pauseReq, tps,
                   waitDestroy, pos, userVars>>

Stopped == appPc = "stopped" /\ UNCHANGED vars

-----------------------------------------------------------------------------
(* The environment *)

\* librdkafka's automatic commit: whatever poll() has returned.
AutoCommit(p) ==
    /\ mode = "auto" /\ p \in assigned /\ committed[p] < pos[p]
    /\ committed' = [committed EXCEPT ![p] = pos[p]]
    /\ UNCHANGED <<mode, threadVars, pauseVars, waitVars, heap, assigned, pos,
                   userVars, misuse>>

\* Another member of the group consumes and commits what this one does not own.
OtherProcesses(p) ==
    /\ p \notin assigned /\ done[p] < MaxOffset
    /\ done' = [done EXCEPT ![p] = @ + 1]
    /\ UNCHANGED <<mode, threadVars, pauseVars, waitVars, heap, brokerVars,
                   held, misuse>>

OtherCommits(p) ==
    /\ p \notin assigned /\ committed[p] < done[p]
    /\ committed' = [committed EXCEPT ![p] = @ + 1]
    /\ UNCHANGED <<mode, threadVars, pauseVars, waitVars, heap, assigned, pos,
                   userVars, misuse>>

\* manual_commit_time_ elapses.
TimePasses ==
    /\ mode # "auto" /\ ~due
    /\ due' = TRUE
    /\ UNCHANGED <<mode, threadVars, pauseVars, waitCommit, waitDestroy, heap,
                   brokerVars, userVars, misuse>>

-----------------------------------------------------------------------------
PollThread ==
    \/ LoopAgain \/ LoopExit \/ PollNothing \/ CallbackReturn \/ Tick \/ ExitTick
    \/ \E p \in Partitions, o \in Obj : Receive(p, o)
    \/ \E S \in SUBSET Partitions : Assign(S)
    \/ Revoke \/ RebalanceError

UserThread == (\E o \in Obj : UserCommit(o)) \/ UserCommitEnd

AppThread ==
    \/ Start \/ Stop \/ StopCommit \/ StopClear \/ StopClose \/ Stopped
    \/ \E op \in {"pause", "resume"}, ts \in PauseSets : PauseCheck(op, ts)
    \/ PauseFind \/ PauseApply

Environment ==
    \/ \E p \in Partitions : AutoCommit(p) \/ OtherProcesses(p) \/ OtherCommits(p)
    \/ TimePasses

Next == PollThread \/ UserThread \/ AppThread \/ Environment

Spec == Init /\ [][Next]_vars

\* The poll thread runs, poll() returns within its timeout, callbacks and
\* commitOffset() return, time passes, and stop() goes on once called.
Fairness ==
    /\ WF_vars(LoopAgain \/ LoopExit) /\ WF_vars(PollNothing)
    /\ WF_vars(CallbackReturn) /\ WF_vars(Tick \/ ExitTick)
    /\ WF_vars(UserCommitEnd)
    /\ WF_vars(PauseFind \/ PauseApply)
    /\ WF_vars(StopCommit \/ StopClear \/ StopClose)
    /\ WF_vars(TimePasses)

FairSpec == Spec /\ Fairness

-----------------------------------------------------------------------------
(* The inductive invariant *)

\* Where the threads can be together, and that outside the user's mode the
\* message in the callback is live.
ThreadsInv ==
    /\ pollPc = "idle" <=> appPc = "ready"
    /\ pollPc = "callback" <=> cur # None
    /\ appPc \in {"clearing", "closing", "stopped"} => pollPc = "done"
    /\ mode = "auto" => pollPc \notin {"tick", "exitTick"}
    /\ mode # "user" => ucommit = None
    /\ mode # "user" /\ cur # None => cur \in Live

\* What each mode leaves unused.
ModeInv ==
    /\ mode = "auto" => DOMAIN waitCommit = {}
    /\ mode # "user" => held = {} /\ \A k \in Keys : waitDestroy[k] = <<>>

\* Waiting messages are live and filed under their key.
WaitInv ==
    \A k \in DOMAIN waitCommit : waitCommit[k] \in Live /\ Key(waitCommit[k]) = k

\* Until stop() clears the lists, listed messages are live, filed under their
\* key, listed once, and not waiting unless a commitOffset() is half-way.
ListInv ==
    appPc \notin {"closing", "stopped"} =>
        \A k \in Keys : \A i \in DOMAIN waitDestroy[k] :
            LET o == waitDestroy[k][i]
            IN  /\ o \in Live /\ Key(o) = k
                /\ \A j \in DOMAIN waitDestroy[k] : waitDestroy[k][j] = o => i = j
                /\ o # ucommit => \A x \in DOMAIN waitCommit : waitCommit[x] # o

\* The user's messages are listed; a half-way commitOffset() has a message that
\* is listed and waiting, and nothing listed before it is still the user's.
HeldInv ==
    /\ appPc \in {"closing", "stopped"} => held = {}
    /\ \A o \in held : o \in Live /\ \E i \in DOMAIN waitDestroy[Key(o)] :
                                         waitDestroy[Key(o)][i] = o
    /\ ucommit # None =>
          /\ pollPc = "callback"
          /\ \E k \in DOMAIN waitCommit : waitCommit[k] = ucommit
          /\ ucommit \notin held
          /\ \A i \in DOMAIN waitDestroy[Key(ucommit)] :
                waitDestroy[Key(ucommit)][i] = ucommit =>
                    \A j \in 1 .. i : waitDestroy[Key(ucommit)][j] \notin held

\* How far p may be committed: what is processed, and in automatic mode the
\* message in the callback.
Reached(p) == IF mode = "auto" /\ pollPc = "callback" /\ heap[cur].part = p
                 /\ heap[cur].off + 1 > done[p]
              THEN heap[cur].off + 1 ELSE done[p]

OffsetInv ==
    /\ \A k \in DOMAIN waitCommit :
          mode = "user" \/ waitCommit[k] # cur =>
              heap[waitCommit[k]].off + 1 <= done[heap[waitCommit[k]].part]
    /\ \A p \in Partitions : committed[p] <= Reached(p)
    /\ mode = "auto" => \A p \in assigned : pos[p] <= Reached(p)
    /\ mode = "auto" /\ cur # None => heap[cur].off <= done[heap[cur].part]

TypeInv == TypeOK /\ ThreadsInv /\ ModeInv /\ (mode # "user" => WaitInv)

SafetyInv == TypeInv /\ WaitInv /\ ListInv /\ HeldInv /\ OffsetInv /\ ~misuse

-----------------------------------------------------------------------------
(* Properties *)

\* No message is read or destroyed after it was destroyed: what the two maps,
\* the poll thread and the user's commits hold are live rd_kafka_message_t's
\* (the rd_kafka_message_destroy() calls of qbus_consumer.cc).
NoMisuse == ~misuse

\* Every live message is owned: by a map, or in automatic mode by the callback.
\* The maps share a message only between the two halves of a commitOffset(), so
\* nothing leaks and nothing is destroyed twice, and stop() leaves none behind.
MessagesOwned ==
    /\ Live = Waiting
              \cup (IF appPc \in {"closing", "stopped"} THEN {} ELSE Listed)
              \cup (IF mode = "auto" THEN {cur} \ {None} ELSE {})
    /\ Waiting \cap Listed \subseteq {ucommit}
    /\ appPc = "stopped" => Live = {}

\* Offsets are committed only for messages that were processed, whether the
\* periodic commit, a revoke or stop() commits them: a message registered before
\* its callback must not be committed before it returns.  Only librdkafka's
\* automatic commit may include the message that is in the callback.
InFlight(p) == IF mode = "auto" /\ pollPc = "callback" /\ heap[cur].part = p
               THEN 1 ELSE 0
AtLeastOnce == \A p \in Partitions : committed[p] <= done[p] + InFlight(p)

\* What waits for its commit belongs to a partition still owned and does not go
\* back behind the committed offset: rebalance_cb commits before it gives the
\* partitions up, so a late tick cannot overwrite the next owner's progress.
WaitingIsOwned ==
    \A k \in DOMAIN waitCommit :
        LET m == heap[waitCommit[k]]
        IN  m.part \in assigned /\ committed[m.part] <= m.off + 1

\* While the consumer runs, the set pause() and resume() look partitions up in
\* holds at least every partition that is assigned.
PauseCoversAssignment == startFlag /\ hasAssigned => assigned \subseteq tps

\* stop() returns: the poll thread it joins leaves its loop.
StopReturns == appPc = "joining" ~> appPc = "stopped"

\* A message that waits for its commit is committed within the interval, also
\* when no further message arrives.
WaitingIsCommitted ==
    \A k \in Keys : k \in DOMAIN waitCommit ~> k \notin DOMAIN waitCommit

\* In the modes where this code commits, the consumer implements the promise of
\* GroupOffsets: committed offsets never go back nor ahead of the processing.
Group == INSTANCE GroupOffsets
ImplementsGroupOffsets == Group!Spec
=============================================================================
